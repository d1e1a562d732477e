# TLA+ models of weft-network

weft-network is a control-plane daemon. It takes operator intent over gRPC
(routers, load balancers, DNS zones and records, scheduling rules), keeps it in
etcd, and pushes it to a data plane: desired states over NATS, micro-VMs through
weft's gRPC API. Several instances run per cluster. Every instance serves all the
handlers and receives router statuses; only an elected leader runs the floating-IP
loops.

The modules here model that daemon request by request. TLC checks them on small
instances, and TLAPS proves every safety property and every refinement that a passing
run checks, for every value of the constants. `PROJECT.json` is the index: components,
runs, the source lines each definition stands for, the findings, the hazards and the
theorems.

## 1. Inventory

| Part | State it keeps | Operations that change it | Talks to |
|---|---|---|---|
| Floating-IP index (`internal/fips/index.go`) | `byUUID`, `netUUID`, `byAddr`, one mutex, an Index per term; the gauge, one per process | Upsert, Delete, ReplaceAll | read by the publisher, fed by the two loops |
| Subscriber (`fips/subscriber.go`) | a NATS subscription | handle: decode, Upsert/Delete, onChange | NATS, index, callback |
| Poller (`fips/poller.go`) | nothing between ticks | tick: fetch, ReplaceAll, onChange per network | weft, index, callback |
| Republish callback (`main.go` `republishRoutersOnNetworkChange`) | nothing | publish every router of a network | router store, publisher |
| Publisher (`internal/publisher`) | the lookup slot (`atomic.Value`) | Publish, Withdraw, SetFIPLookup | NATS, index |
| Router store (`store/router`) | one etcd key per router | Create, Delete, UpdateStatus | etcd |
| Router handlers, boot resync (`server/router.go`, `server.go`) | none | CreateRouter, DeleteRouter, ResyncRouters | store, publisher, lifecycle |
| Lifecycle (`lifecycle/weftclient.go`) | none | Ensure, Destroy: one micro-VM per replica | weft |
| Status receiver (`statusreceiver`) | a NATS subscription | handle: derive a status, UpdateStatus | NATS, store |
| Load-balancer store and handlers | one etcd key per load balancer | Create, Delete, SetBackends | etcd |
| DNS store, memory | four maps under a mutex | CreateZone, DeleteZone, CreateRecord, DeleteRecord | - |
| DNS store, etcd, and handlers | a key per zone and per record; a count in the zone | the same four | etcd |
| Scheduling-rule store and handlers | one etcd key per rule | Create, Delete | etcd |
| Leader election (`internal/leader`) | an etcd session, a campaign key, the leader-scoped context | runOnce, Run | etcd; starts and stops the loops |
| Load-balancer, router and rule stores, memory | two maps under a mutex each | Create, Delete, SetBackends or UpdateStatus | - |
| Daemon (`main.go` `run`) | what is open, two signal registrations, the gRPC server | start-up, graceful stop, deferred closes | everything above |
| TLS credentials (`tlsutil`) | the cached pair, under a lock | load, reload on SIGHUP | files, signals |
| Metrics, tracing, command line, test fixture, deployment | configuration and counters | - | not modelled, see section 7 |

What is hard in this code, in the order of how much it matters:

- **read, then write, in two requests**: every etcd store scans before it puts, and
  several put back a whole row read earlier; only SetBackends and the decrement of
  a zone's record count compare revisions;
- **calls that overlap across instances**: CreateRouter, DeleteRouter, the boot
  resync, the floating-IP callback and a status update of one router share etcd, NATS and weft and nothing
  else; a call is a dozen requests long and each may fail, be answered too late,
  or be the last thing a process does;
- **two feeders of one cache**: an event may be lost, and a listing may be older
  than an event already applied; the routers must still end up with the right
  addresses, and must be told about every change;
- **many publishers, no version**: the two loops of the leader, CreateRouter and the boot
  resync of every instance all send a router's whole announce set, each from a lookup
  made a moment earlier, and the last message wins;
- **secondary indexes and derived values** that have to move in step with the
  table they derive from: `netUUID`, `byAddr`, the gauge, `byName`, record counts;
- **leadership as a lease**: the server's view and the client's view of it end at
  different times, and a leader holding loops is deposed in between; nothing waits for
  the loops of a term to end before the next one starts;
- **signals**: they arrive during start-up, during a reload and between two deferred
  closes, and what each then does depends on what run has registered so far;
- **limits**: SetBackends' retries, etcd's 128 operations per transaction, the
  ten replicas Destroy probes, names that have to be guessed.

`hazards` in `PROJECT.json` lists them one by one, at the line where they bite, with
the property that would catch each going wrong.

What makes each part correct: the index answers lookups exactly and reports exactly
the networks that changed; no change of an address set goes without a republish, and
both loops converge to weft's table; deletion is final and leaves nothing behind; an
Ensure that succeeded has produced running micro-VMs; a resync makes up for failures;
the announce sets follow weft; names are unique; records have a zone and counts are right; and one instance at a
time leads, with someone leading in the end; the certificate served is a whole one and
the newest; a stop loses no call and completes.

## 2. Modules

| Module | Models | Kind |
|---|---|---|
| `FIPIndex` | the index and the gauge, over the terms of a process | one action per exported operation (each holds the lock throughout), a new term, a late write of an old one |
| `FIPSync` | subscriber, poller and callback over `FIPIndex` (EXTENDS it and composes its actions) | weft and NATS are environment |
| `LBRegister` | what a load-balancer table promises | abstract specification |
| `LBStore` | the etcd store and handlers, request by request | implements `LBRegister` |
| `MemoryTable` | the memory stores of load balancers, routers and rules | the contract of the etcd stores of routers and rules |
| `RouterStatus` | `rollupStatus`, from a set of peer states | pure operator |
| `RouterControl` | router handlers, resync, store, lifecycle, publisher, status updates, the floating-IP callback | EXTENDS `RouterStatus`; implements `MemoryTable` up to two races |
| `Republish` | callback, resync and CreateRouter publishing floating IPs, over terms and instances | composes the index, the loops, the slot and the election, each by what it promises |
| `DNSMemory` | the memory store | also the contract of the etcd one |
| `DNSStore` | the etcd store and handlers | implements `DNSMemory` where no CreateRecord or CreateZone races |
| `RuleStore` | scheduling rules in etcd | implements `MemoryTable` where no two Creates race |
| `LeaderElection` | sessions, campaigns, the gated loops | |
| `LookupSlot` | the publisher's `atomic.Value` | |
| `Daemon` | start-up, signals, TLS reload, graceful stop | |
| `FIPProofs`, `RepublishProofs`, `LBStoreProofs`, `DNSMemoryProofs`, `DNSStoreProofs`, `RuleStoreProofs`, `DaemonProofs`, `RouterControlProofs` | theorems | each EXTENDS the module it is about; `FIPProofs` covers `FIPIndex`, `FIPSync` and the election that decides where the two loops run, `LeaderElection` (whose `ElectionSpec`, `ElectionTypeOK` etc. are named apart for that) |
| `MC*` | constants, symmetry sets and network layouts for TLC | |

State and actions keep the source's names where TLA+ allows it (`indexLocked`,
`unindexLocked`, `handle`, `vmNamesFor`, `maxAttempts`...). Conventions:

- A handler is a program counter and its local variables, in one record per handler
  or instance (`job`, `req`). One request to etcd, NATS or weft is one step; between
  two requests anybody else may step. Code that runs under a mutex is one action.
- Two calls of one process share only etcd, NATS and weft, so a handler of the model
  stands for a call of any instance.
- UUIDs, names, addresses and backend lists are model values. A name stands for the
  pair (project, name). Fields no operation changes go with the name.
- A failed request is an action of its own: with no effect, or with its effect and
  the reply lost. A crash is an action too, where the code is meant to survive one.
- History variables (`deleted`, `gone`, `raced`, `contested`, `disturbed`, `ensured`, `told`,
  `left`, `elder`, `why`, `cut`) record what properties talk about. They are never read by a guard that models
  code, with one exception that stands for the environment: a deleted or minted
  UUID is never minted again.
- A definition preceded by a comment `Mutant:` is a deliberately wrong version of the
  definition below it (a dropped guard, a missing step). Nothing uses it; `mutants`
  in `PROJECT.json` says which property fails when it takes the right one's place, so
  that each property is known to depend on the code it is about.

Some correspondences a reader may look for:

- *FIPIndex.* A key missing from `byUUID` or `byAddr` maps to `NoEntry`/`NoFIP`, and
  one missing from `netUUID` to `{}`. ReplaceAll rebuilds the maps from the listing;
  where two rows share a (network, address), the later row wins, and as the order of
  a listing is not known, `Winners` ranges over all the outcomes. `delta` is what
  ReplaceAll returned. `NewTerm` is `fips.New` in a later term of the process: the index
  is empty again and the gauge is not. `LateRefresh` is what a loop of an ended term may
  still write to the gauge; what its own Index holds is not tracked, so any value is
  possible. `elder` has the labels set last in an earlier term, for networks on which no
  entry of the present Index has changed.
- *FIPSync.* A tick is `tickFetch`, `tickReplace`, one `tickNotify` per reported
  network, `tickDone`. `handle` applies an event and leaves the network it will call
  back for in `subTodo`; `handleNotify` is that call. `told[n]` is what the callback
  read for `n` last. The listing is a snapshot of `truth`, so it may be stale when it
  is applied. weft may map a FIP on another network than it was on; `left` has the
  networks that an event took an announced FIP off, until the callback is called for them.
- *RouterControl.* A router's kind and backend are its class: `"bgp"` (a desired state
  is published), `"mute"` (its external peer does not parse, so nothing is) or
  `"peer"` (no micro-VMs at all). `vms` and `running` are weft's.
  Ensure walks the names of the row's replica count; Destroy, which has no row,
  probes the bare name and the suffixed ones. The ten replicas of the code are the
  constant `maxReplicas`. The callback of the floating-IP loops (`FIPChanged`,
  `CallbackList`, `CallbackPublish`) is one more thing an instance does: it lists rows,
  any of which may stitch the network, and publishes each as it was listed. The instance
  stands for the leader, and for a process that also serves handlers: the two share
  nothing that either writes.
- *Republish.* Each instance has three threads: `Rpc` (the boot resync, then
  CreateRouter), and in a term `Sub` and `Poll`. An instance that leads again gets new
  loops at once; what the old ones were publishing goes on in `OldLoops`, numbered by the
  loss that ended their term (`NewLoops`). `PublishRead` is StateFor's lookup,
  `PublishSend` the message; between them anything may happen. `slot` survives the end
  of a term, as nothing resets it. A term is `"seed"`, `"seeding"`, `"live"`, or `"deaf"`
  when `startFIPLoops` gave up. `why` says what the last message or omission for a
  router was: `"foreign"` (an instance that does not lead), `"overtaken"` (the index moved
  after the lookup), `"failed"`, `"inherited"` (nothing since the term began), or `"none"`.
  The daemon has NATS, etcd and weft configured; without a weft socket there is no poller
  and no convergence to speak of.
- *Daemon.* `stage` is where run is, deferred calls included; `stopper`, `reloader` and
  `rpcs` are its goroutines. A generation of the certificate is a number; the operator
  replaces two files in either order and then sends SIGHUP, and may also send signals at
  any other time. A signal that is not registered takes Go's default action.
- *MemoryTable.* A row is its name, what is written once, and what SetBackends or
  UpdateStatus overwrites; `RuleStore` and `RouterControl` read the two maps off etcd.
- *DNSStore.* A cascade is refused when it needs more than `maxTxnOps` operations. The
  eight attempts of the decrement are the constant `maxAttempts`; when they run out the
  call returns and the count stays (`GivenUp`).
- *LeaderElection.* `keys` and `leases` are the server's view, `done` the client's;
  a campaign waits for the keys created before its own and does not look at its own
  again. `loops[i]` is the set of terms whose gated loops still run in instance `i`.

## 3. Runs

Every passing run explores its whole state space. `SYMMETRY` is used only in runs
whose properties are invariants or action properties.

| Run | Instance | What it shows |
|---|---|---|
| `fip_index` | 2 FIPs, 2 networks, 2 addresses, any number of terms | `netUUID` and the lookup agree with `byUUID` after any mix of operations, and so does the gauge, but for labels an earlier term set last; ReplaceAll's three lists name exactly the networks whose address set changed, including a swap that keeps the count; an assumption TLC evaluates says that the rebuild equals indexing row by row |
| `fip_sync` | 2 FIPs, one that moves between 2 networks and one that is on none or on one of them, 3 changes by weft | every change of an address set is republished or owed by a callback still to come, also while a tick has two networks to notify and the subscriber works in between, except on a network an event moved a FIP off; the index converges to weft's table, and so does what routers were told, with the same exception |
| `lb_store` | 2 handlers, 2 UUIDs, 5 calls | deletion is final, a conflict is reported only after three other writes, and the store implements `LBRegister` |
| `router_control` | 2 instances, a router of any class, 3 calls, 2 failures or crashes | a DeleteRouter that no call and no floating-IP callback holding the row overlaps leaves no micro-VM and no desired state; after a successful Ensure every replica runs; the boot resync brings up what was left undone; every change of the prefix is an operation of `MemoryTable`, except an UpdateStatus that puts back a row deleted since it was read |
| `republish` | 2 instances, a router on 2 networks, a FIP on one of them, 1 change by weft, 1 lease lost in a term, 1 trouble (a failed request, a stop, a term without loops) | a router's announce set differs from the leader's index only while a publish is owed or for a cause that is named; where none is the last word, it converges to weft's table |
| `dns_memory` | 3 zones, 4 records, 2 names | foreign keys, the name index and the counts hold; nothing is bounded but the sets |
| `dns_store` | 2 handlers, 2 zones, 3 records, a limit of 3 operations, 2 attempts, 8 calls, 1 failure | counts drift and records are orphaned only where a CreateRecord met another writer, a request failed, or a decrement was overtaken at every attempt; short of that, and of two CreateZones racing for one name, overlapping calls implement `DNSMemory` step by step |
| `rule_store` | 3 handlers, 4 rules, 2 names | a duplicate name comes only from Creates that were between scan and put together; short of those, overlapping calls implement `MemoryTable` step by step |
| `leader_election` | 2 instances, 4 sessions, 2 troubles | two sets of loops overlap only while one of their terms has already lost its key; a deposed leader's loops stop; in the end exactly one instance leads |
| `daemon` | 2 calls in flight, with and without TLS, 2 rotations, 2 other signals | a certificate is only served with its own key (part of the types) and the last pair installed is served in the end; calls finish before what they use is closed; no signal meets the closed channel; a stop completes |

Why the bounds are enough: each run admits one more actor, and one more operation, than
the shortest interleaving its properties are about. Two handlers and five calls let a
SetBackends of `lb_store` be overtaken until it gives up (`maxAttempts` is the code's).
A limit of three operations is reached by a zone with three records, which is where
etcd's 128 matter; two attempts and eight calls are the least that let a decrement run
out of attempts, and the theorems of `DNSStoreProofs` hold for any number of handlers. Two replicas distinguish the bare name from the suffixed ones, the
only distinction Destroy makes; one router is enough for TLC, because calls for two routers
share only the scan for the name, and `RouterControlProofs` covers any number of them. The loss and the trouble of `republish`
let a leader lose its lease after a publish failed and lead again while a loop of its first
term is still publishing, or its successor stop; each of the
four causes occurs, and `StaleIsExplained` fails if any one of them is left out of `why`.
Three changes by weft in `fip_sync` unmap an announced FIP, map it on the other network and
change the second FIP, with the events of each lost, late or overtaken by a listing; an
unmap whose event is lost, or comes after the listing, makes the next one a move. `fip_index` uses a VIEW without
`delta`, which is written and never read: the property about it is one of steps.
Two rotations and two signals in `daemon` let a SIGHUP arrive while a reload is under way
and another is waiting, over files that are half replaced. A second trouble of the
leader run lets a successor lose its lease before its predecessor noticed the first
loss. The bounds (`MaxOps`, `MaxCalls`, `MaxFailures`, `MaxSessions`, `MaxTroubles`,
`MaxLosses`, `MaxChanges`, `MaxRotations`, `MaxSignals`)
limit how often the environment acts; the one that guards a step of the code,
`MaxSessions`, leaves a session for every instance after every trouble. Runs with a
bound on calls say `CHECK_DEADLOCK FALSE`, as everything may be done in the end;
`fip_index`, `fip_sync` and `dns_memory` have no resting state and check for deadlock.

### Where the code and its comments differ

Each of these runs ends in a counterexample; the quoted line is in `findings`.

| Run | Property violated | The interleaving |
|---|---|---|
| `republish_track` | `AnnouncementsTrackWeft` | an instance that does not lead publishes a router, for CreateRouter or at boot, with the empty lookup it was started with; the leader's index does not change, so nothing publishes the router again |
| `lookup_slot` | `SwapSucceeds` | the slot was seeded with another concrete type, and `atomic.Value` panics on the first swap |

`lookup_slot` matters to the reading of the FIP runs: `FIPSync` and `Republish` describe the
loops that `startFIPLoops` starts after the swap, as they are written. `republish_track`
needs no failure and no change by weft.

Where a strong property fails, the passing run of the same module checks the sharpest
weaker one that holds: nothing but the interleaving it names breaks the strong one.
Read the other way round, these say what a maintainer should know:

- `LeaksAreExplained`: a DeleteRouter that overlaps an Ensure of the same router, of
  CreateRouter or of another instance's resync, may leave a micro-VM running, and so may
  one that fails half way; nothing looks for it again (`server/router.go:124`). And a
  complete DeleteRouter, Withdraw included, between the callback's listing and its publish
  (`main.go:60` and `:69`) leaves a desired state for a router that is gone. Those are the
  exceptions `Overlapped` and the failures name.
- `RouterControl`'s `ImplementsTable`: a DeleteRouter between UpdateStatus's get and its
  unguarded put is undone (`store/router/etcd.go:119`), although `router.go:76` counts on
  ErrNotFound to absorb that race. Nothing else brings a deleted router back. With more
  than one router a second exception appears, which the run has no room for and the theorem
  names (`NamesClash`): two Creates of one name that both scanned before either put, or a
  router that came back after its name was given away.
- `CountDriftIsExplained`, `OrphansAreExplained`: CreateRecord's last, unguarded put of
  the zone undoes another call's count, and puts back a zone deleted since it was read
  (`store/dns/etcd.go:200`); a record created between DeleteZone's listing and its
  transaction outlives the zone, which `etcd.go:100` rules out. Without any CreateRecord
  the count still drifts if a DeleteRecord is overtaken at each of its eight attempts:
  the loop ends and the call reports success (`etcd.go:220`).
- `DuplicatesAreContested`: two Creates of one name that scan before either puts both
  succeed (`store/scheduling/etcd.go:80`; the other stores' Create is the same).
- `OverlapOnlyAfterLoss`: "only ONE instance" (`main.go:416`) holds up to the time a
  client takes to notice that its lease is gone.
- `GaugeTracksUnlessElder`: the gauge does not always track the lookup
  (`fips/metrics.go:40`). It belongs to the process (`metrics.go:24`), `fips.New` does not
  reset it, and every term makes a new Index (`main.go:442`): a network emptied while
  somebody else led is in neither of the tables ReplaceAll compares, and its label keeps
  the old count until an entry on that network changes. So does a label that a loop of an
  ended term sets late.
- `NoMissedRepublish`, `SyncConverges`: an event that moves a floating IP calls back for
  the new network alone (`fips/subscriber.go:125`), and the poller, which then sees no
  change, does not repair it: the routers of the old one go on announcing it until
  something else changes there. Both properties except those networks (`left`); nothing
  else makes a change go unannounced.
- `StaleIsExplained`: besides the finding above, an announce set stays wrong until the
  network's next change after a publish or a listing failed (`main.go:62` and `:69`: "the
  next event catches up", and no sooner), after two publishes of one router went out in
  the order opposite to their lookups (`nats.go:116`), and where a network lost its last
  address while nobody led, since a new term compares with an empty index (`main.go:442`).
  A term whose `startFIPLoops` gave up keeps the key and runs no loop (`main.go:437`).
- `RPCsFinish`: SIGHUP to a daemon without TLS is not swallowed "harmlessly"
  (`main.go:532`): nothing is registered for it, so it ends the process with its calls in
  flight, and systemd's `Restart=on-failure` counts that signal as a clean exit. With TLS
  the same holds before `signal.Notify` and after `signal.Stop`, when no call is in flight.
  Calls are also cut when Serve fails, as the deferred closes wait for nobody.
- `StopCompletes` assumes that every handler returns; GracefulStop has no bound.

Some differences have no run, because nothing reads what they affect or the comment is
about one value: `unindexLocked` drops a `byAddr` key another entry still has
(`fips/index.go:265`; `byAddr` has no reader); `rollupStatus` answers `configuring` for a
peer in state Active where its comment says `down` (`statusreceiver/derive.go:32`);
`getCertificate` serves the cached pair where `tlsutil.go:68` has it re-read on every
handshake, and the client CA is never read again; leaderCtx is said to end when "the daemon
shuts" down (`main.go:91`), but its parent is cobra's background context, which no signal
cancels, so the campaign key lingers until its lease runs out.

## 4. Fairness

- `FIPSync`: weak fairness of `handle`, `handleNotify` and the four steps of a tick.
  Both loops are goroutines, the ticker fires every 30 s, and a fetch that fails is
  retried by the next tick; the fetch is assumed to succeed infinitely often. There is
  no fairness on weft, on the loss of events or on the subscription.
- `RouterControl` (`FairSpec`): a call in progress goes on; requests are answered.
  Nothing makes calls arrive, fail or crash.
- `LeaderElection` (`FairSpec`): the election loop and the loops' reaction to a
  cancelled context are goroutines; a lease nobody refreshes runs out; a client whose
  lease is gone finds out through its keep-alive; a stopped process is restarted by its
  supervisor. Lost leases and failed campaigns are never forced.

- `Republish` (`FairSpec`): threads are scheduled and their requests answered, the ticker
  fires, a stopped process is started again, the election elects somebody, a lease nobody
  refreshes ends and its former holder finds out. The loops left of earlier terms are
  goroutines like the others. Nothing is assumed of weft, of events, of clients or of
  failures.
- `Daemon` (`FairSpec`): run, the stopper and the reloader are goroutines, the metrics
  listener shuts down within five seconds, and every handler returns. Nothing is assumed
  of the operator, of signals or of new calls.

## 5. Proofs

All theorems hold for every value of the constants that meets the named assumptions:
the special values are not ordinary ones (nor a record of the kind stored beside them),
the sets of FIPs and of DNS records are finite (the gauge and the counts are
cardinalities), `maxAttempts` is positive, bounds are naturals. The sets of instances,
handlers, routers, zones, rules and names need not be finite. Each module states an
inductive invariant `IInv`, proves `Init => IInv` and, action by action, that a step keeps
it, and draws the theorems from it.

- **`FIPProofs`, the index.** `IInv` is `TypeOK`, `NetIndexInLockstep` and
  `GaugeTracksUnlessElder`. The last two need each other and the type: the gauge is
  recomputed from `netUUID`, for the touched networks only, so it is exact for a
  network only if `netUUID` is and if the untouched ones did not change. A label leaves
  `elder` only at an operation that changes an entry on its network, and every operation
  touches those networks (`GaugeCarriesOver`). Lemmas say what
  `unindexLocked`, `indexLocked` and the rebuild make of an index in lockstep. From
  `IInv` follow the lookup (`LookupIsExact`) and the action property
  `ReplaceAllIsExact`.
- **`FIPProofs`, the feeders.** `SyncInv` adds the types of both loops and `Homes`: every
  row in weft's table, in the index, in a listing and in an event is on a network its FIP
  may be on. The argument for `NothingMissed` goes by
  steps: `handle` changes the address sets of the event's network, which it leaves
  in `subTodo`, and of the network the FIP was on, which for an event that moves it is in
  `left` from then on; `tickReplace` leaves every network whose set changed in `delta`,
  by `ReplaceAllIsExact`'s lemma; a callback makes `told` current. `NobodyLeft` says that
  `left` stays empty if weft reports each FIP on one network only (`StableHomes`), so that
  there the exception is none. Two theorems are what
  `SyncConverges` rests on besides fairness: `SettledIsAnnounced` (with nothing owed, an
  index equal to weft's table means the routers were told that table, but for `left`) and `SettledStays` (nothing but weft itself undoes this, once no
  event of a FIP and no older listing is on its way).
- **`FIPProofs`, the election.** `ElectionInv` adds to the types that a session has one
  owner, that an instance
  has not led with a session it is still campaigning with, that keys have distinct ranks,
  and that a term whose key is in etcd has the first key (`WinnersAreFirst`); two such
  terms are then one. `AloneForGood` is the stable half of `SomeoneLeads`: a lone leader
  stays one at every step that is not a failure.
- **`RepublishProofs`.** `IInv` is `TypeOK`, `StaleIsExplained`, that a thread has a router
  and a lookup in hand exactly between the two halves of a publish (`JobsInShape`), and
  that a term with loops publishes from its own index and only a live one receives events
  (`TermsHaveIndex`). `StaleIsExplained` for a leader then survives each step: a change of
  its index leaves the network with the thread that made it, the thread's listing takes
  over the routers of that network, and a message leaves the router announcing a lookup
  that is current, or still owed by another thread, or gives the router a reason. A thread
  of an earlier term counts as any other (`NewLoopsTyped`): it publishes from the slot, which
  holds the new index. `NothingOwedIsExact` and
  `OnlyOthersDisturb` are the safety halves of `AnnouncementsConverge`: a leader with
  weft's table that owes nothing is announced, and what is announced is lost only to
  another instance's publish, a change of weft's table, or the end of the term.
- **`LBStoreProofs`.** The invariant adds to the types that UUIDs in flight are fresh,
  that no key's revision exceeds etcd's, that a revision a handler read identifies the
  row it read (otherwise the compare-and-swap would prove nothing), and that each failed
  attempt stands for a write by somebody else. It gives `DeletionIsFinal`,
  `ConflictsAreEarned` and, with one lemma per writing step,
  `StoreImplementsRegister`: reads and failures stutter, each effective transaction is
  an `Insert`, `Replace` or `Remove`.
- **`DNSMemoryProofs`.** The four properties are inductive together: a cascade is exact
  only if `recordsByZ` is, a name is freed only if it is the zone's own, and a count is
  right after a step only if the set it is taken from is.
- **`DNSStoreProofs`.** `IInv` adds to the types, per handler, that zones and records being
  created are new to everybody (`ZoneIsNew`, `RecordIsNew`), that a record which was read or
  listed does not move to another zone (`RecordsStay`) and that a revision identifies the
  row read (`RevisionTells`); per zone on which nothing raced, `Sound`: the calls past their
  record and short of the count (`Bumping`, `Counting`) make up exactly the difference
  between the count and the records, a CreateRecord holds the zone as it is, and a listing
  for the cascade is complete; and that free names stay free where nothing raced
  (`NamesOK`). `CountDriftExplained` is `Sound` with nothing owed; for
  `StoreImplementsMemory`, the count with what is owed *is* the number of records, so the
  put of the record is the memory store's CreateRecord, and the later writes of the count
  change nothing of it. `StoreKeepsMemoryInvariants` says it of the states: until something
  races, what etcd holds has the memory store's foreign keys, names and (with what calls in
  progress still owe) counts. The attempt
  to prove the refinement is what showed that a decrement that gives
  up is a cause of its own: `GivenUp` was missing from `raced`, and the run, then
  with too few calls, had not found it.
- **`RuleStoreProofs`.** `IInv` adds that UUIDs in flight are fresh and that a scanned name
  is free for as long as nobody contested it (`ScanStillTrue`).
- **`DaemonProofs`.** `IInv` adds what is registered, open and running at each stage of
  `run` (`Phases`), and that a call in flight is one the server waits for (`CallsAreServed`).
- **`RouterControlProofs`.** `IInv` adds that what is stored was minted, that UUIDs being
  created are known to one call only, and per call what it holds: the row it read
  (`HeldOK`), the micro-VMs an Ensure has brought up so far (`EnsureOK`), the names a
  Destroy has cleared so far (`DestroyOK`). `LeaksAreExplained` follows because a Destroy
  nobody disturbed has probed every name any row of that router can have had, whatever
  `maxReplicas` is. `StoreImplementsTable` has the exception `NamesClash`, which the run,
  with one router, could not ask for.

Only model-checked: all liveness (`SyncConverges`, `RestartRestores`, `DeposedLoopsStop`,
`SomeoneLeads`, `AnnouncementsConverge`, `RotationIsServed`, `StopCompletes`), which the
prover does not do; of `SyncConverges`, `AnnouncementsConverge` and `SomeoneLeads` the
theorems above prove that the state reached is the right one and stays. And
`RebuiltIsIndexingEachRow`, an assumption of `MCFIPIndex` that TLC evaluates and that
compares the rebuild with a fold over a listing (an induction over data).

## 6. Plan

Done: models and runs of every part that keeps state, and the proof of every invariant,
action property and refinement a passing run checks.

Left: liveness, which stays with TLC. The exceptions the properties name (`left`, `elder`,
the causes of `why`, the overlaps of `disturbed`) are the code's: each could be dropped
from its property, and the proof would say so, once the code closes it.

## 7. Not modelled

- The bodies of messages: prefixes of a desired state, the parsing of the external peer
  (only whether it parses), the peer-state text. They decide nothing about control.
- Validation of requests, which happens before any state is read; List and Get, which
  change nothing.
- The micro-VM that consumes the published states: other repositories' code.
- The fallbacks to Noop when NATS or weft cannot be reached at boot: the operations then
  do nothing. The listeners, the metrics other than the gauge, tracing, the command line,
  the embedded etcd of the tests, deployment files: I/O and configuration.
- The status handler and the floating-IP loops during a shutdown: nothing waits for them,
  and what they meet is a closed client's error, which they log.
- The reading of the client CA, once, at start-up.
- Forwarding of writes and the reconcilers of the README's architecture section: there
  is no such code at this commit.
