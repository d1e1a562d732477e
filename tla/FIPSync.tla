------------------------------- MODULE FIPSync -------------------------------
(***************************************************************************)
(* The two loops that feed the floating-IP index: fips.Subscriber, driven  *)
(* by NATS events, and fips.Poller, which every 30 s replaces the whole    *)
(* index by a listing of weft's store.  They run as two goroutines over    *)
(* one Index and one onChange callback, started by startFIPLoops: the      *)
(* poller's synchronous seed first, then both loops.                       *)
(*                                                                         *)
(* External parts: weft's floating-IP store and its events (truth, bus).   *)
(* NATS is at-most-once: an event may be lost, and one emitted before the  *)
(* subscription exists is.  The listing the poller fetches is truth at     *)
(* that moment; by the time ReplaceAll applies it, it may be stale.  In    *)
(* truth, mapped stands for weft's status "active", as the tick reads it.  *)
(* A FIP is mapped on any network of NetworksOf, whatever it was on.       *)
(*                                                                         *)
(* The callback is onChange(network): it re-reads the index and republishes *)
(* every router of that network.  told[n] is the address set it read the   *)
(* last time it was called for n.  One term is followed here, and the      *)
(* gauge, which outlives it, is FIPIndex's matter.                         *)
(***************************************************************************)
EXTENDS FIPIndex, Sequences

CONSTANTS
    NetworksOf,  \* the networks weft may report a FIP on, over its life
    MaxOps       \* bound on the changes weft makes

ASSUME NetworksOfAssumption ==
    NetworksOf \in [FIPs -> SUBSET (Networks \union {NoNetwork})]

ASSUME MaxOpsAssumption == MaxOps \in Nat

VARIABLES
    truth,       \* weft's floating-IP table (external)
    released,    \* FIPs released for good: weft never reuses a UUID
    ops,         \* changes weft has made
    bus,         \* events on their way to the subscriber, in order
    subscribed,  \* Subscriber.Run's subscription is active
    subTodo,     \* handle: networks still to hand to onChange (at most one)
    pollPC,      \* Poller.tick: "idle", "fetched" or "notify"
    snapshot,    \* the listing the tick fetched
    seeded,      \* the seed tick has ended, well or badly
    told,        \* per network, what the callback read last
    left         \* history: networks an event moved an announced FIP off, and
                 \* that the callback has not been called for since

weftVars == <<truth, released, ops>>
subVars  == <<subscribed, subTodo>>
pollVars == <<pollPC, snapshot, seeded>>
callVars == <<told, left>>
syncVars == <<indexVars, weftVars, bus, subVars, pollVars, callVars>>

EmptyTable == [f \in FIPs |-> NoEntry]

Kinds == {"allocated", "mapped", "unmapped", "released", "other"}

Event == [kind    : Kinds,
          fip     : FIPs,
          network : Networks \union {NoNetwork},
          address : Addresses \union {NoAddress}]

SyncInit ==
    /\ Init
    /\ truth \in [FIPs -> {NoEntry} \union [network : Networks \union {NoNetwork},
                                            address : Addresses, mapped : BOOLEAN]]
    /\ \A f \in FIPs : truth[f] # NoEntry => truth[f].network \in NetworksOf[f]
    /\ \A f, g \in FIPs : (f # g /\ truth[f] # NoEntry /\ truth[g] # NoEntry)
                             => truth[f].address # truth[g].address
    /\ released = {}
    /\ ops = 0
    /\ bus = <<>>
    /\ subscribed = FALSE
    /\ subTodo = {}
    /\ pollPC = "idle"
    /\ snapshot = EmptyTable
    /\ seeded = FALSE
    /\ told = [n \in Networks |-> {}]
    /\ left = {}

-----------------------------------------------------------------------------
(* weft: the store and its events (external) *)

(* An event reaches the bus only if the subscription exists. *)
Emit(kind, f, e) ==
    bus' = IF subscribed
           THEN Append(bus, [kind |-> kind, fip |-> f,
                             network |-> e.network, address |-> e.address])
           ELSE bus

WeftChange(kind, f, e) ==
    /\ ops < MaxOps
    /\ ops' = ops + 1
    /\ Emit(kind, f, e)
    /\ UNCHANGED <<indexVars, subVars, pollVars, callVars>>

AddressFree(f, a) == \A g \in FIPs \ {f} : truth[g] # NoEntry => truth[g].address # a

Allocate(f) ==
    /\ truth[f] = NoEntry /\ f \notin released
    /\ \E n \in NetworksOf[f], a \in Addresses :
         LET e == [network |-> n, address |-> a, mapped |-> FALSE]
         IN /\ AddressFree(f, a)
            /\ truth' = [truth EXCEPT ![f] = e]
            /\ WeftChange("allocated", f, e)
    /\ UNCHANGED released

Map(f) ==
    /\ truth[f] # NoEntry /\ ~truth[f].mapped
    /\ \E n \in NetworksOf[f] :
         LET e == [network |-> n, address |-> truth[f].address, mapped |-> TRUE]
         IN truth' = [truth EXCEPT ![f] = e] /\ WeftChange("mapped", f, e)
    /\ UNCHANGED released

Unmap(f) ==
    /\ truth[f] # NoEntry /\ truth[f].mapped
    /\ LET e == [network |-> truth[f].network, address |-> truth[f].address, mapped |-> FALSE]
       IN truth' = [truth EXCEPT ![f] = e] /\ WeftChange("unmapped", f, e)
    /\ UNCHANGED released

Release(f) ==
    /\ truth[f] # NoEntry
    /\ truth' = [truth EXCEPT ![f] = NoEntry]
    /\ released' = released \union {f}
    /\ WeftChange("released", f, truth[f])

(* A sibling event under the wildcard, or a payload that does not decode. *)
OtherEvent(f) ==
    /\ WeftChange("other", f, [network |-> NoNetwork, address |-> NoAddress])
    /\ UNCHANGED <<truth, released>>

LoseEvent ==
    /\ bus # <<>>
    /\ bus' = Tail(bus)
    /\ UNCHANGED <<indexVars, weftVars, subVars, pollVars, callVars>>

-----------------------------------------------------------------------------
(* The callback: republish what the index now says of network n. *)
onChange(n) == /\ told' = [told EXCEPT ![n] = activeAddrs(idx, n)]
               /\ left' = left \ {n}

(* Subscriber *)

(* Run: subscribe and flush, once the seed has ended. *)
Subscribe ==
    /\ seeded /\ ~subscribed
    /\ subscribed' = TRUE
    /\ UNCHANGED <<indexVars, weftVars, bus, subTodo, pollVars, callVars>>

(* The network that an event which puts f on network m takes f off, if f   *)
(* was announced there: handle names m only.                               *)
MovedOff(f, m) == {n \in Networks \ {m} : /\ f \in idx.netUUID[n]
                                          /\ activeAddrs(idx, n) # activeAddrs(idx', n)}

(* Mutant: a release does not call the callback. *)
handleSilentRelease ==
    /\ bus # <<>> /\ subTodo = {}
    /\ bus' = Tail(bus)
    /\ LET ev == Head(bus)
           entry == [network |-> ev.network, address |-> ev.address,
                     mapped |-> ev.kind = "mapped"]
       IN \/ /\ ev.kind \in {"allocated", "mapped", "unmapped"}
             /\ Upsert(ev.fip, entry)
             /\ subTodo' = {entry.network} \ {NoNetwork}
             /\ left' = left \union MovedOff(ev.fip, entry.network)
          \/ /\ ev.kind = "released"
             /\ Delete(ev.fip)
             /\ UNCHANGED <<subTodo, left>>
          \/ /\ ev.kind = "other"
             /\ UNCHANGED <<indexVars, subTodo, left>>
    /\ UNCHANGED <<weftVars, subscribed, pollVars, told>>

(* handle, up to the callback: decode, update the index, name the network. *)
handle ==
    /\ bus # <<>> /\ subTodo = {}
    /\ bus' = Tail(bus)
    /\ LET ev == Head(bus)
           entry == [network |-> ev.network, address |-> ev.address,
                     mapped |-> ev.kind = "mapped"]
           prev == idx.byUUID[ev.fip]
       IN \/ /\ ev.kind \in {"allocated", "mapped", "unmapped"}
             /\ Upsert(ev.fip, entry)
             /\ subTodo' = {entry.network} \ {NoNetwork}
             /\ left' = left \union MovedOff(ev.fip, entry.network)
          \/ /\ ev.kind = "released"
             /\ Delete(ev.fip)
             /\ subTodo' = (IF prev = NoEntry THEN {} ELSE {prev.network}) \ {NoNetwork}
             /\ UNCHANGED left
          \/ /\ ev.kind = "other"
             /\ UNCHANGED <<indexVars, subTodo, left>>
    /\ UNCHANGED <<weftVars, subscribed, pollVars, told>>

handleNotify ==
    /\ \E n \in subTodo : onChange(n) /\ subTodo' = subTodo \ {n}
    /\ UNCHANGED <<indexVars, weftVars, bus, subscribed, pollVars>>

-----------------------------------------------------------------------------
(* Poller.tick: fetch, replace, then the callback once per network. *)

tickFetch ==
    /\ pollPC = "idle"
    /\ snapshot' = truth
    /\ pollPC' = "fetched"
    /\ UNCHANGED <<indexVars, weftVars, bus, subVars, seeded, callVars>>

(* The source failed: the tick (the seed included) ends, the index stays.  *)
tickError ==
    /\ pollPC = "idle"
    /\ seeded' = TRUE
    /\ UNCHANGED <<indexVars, weftVars, bus, subVars, pollPC, snapshot, callVars>>

(* Mutant: an empty listing is taken for a failure of the source. *)
tickReplaceUnlessEmpty ==
    /\ pollPC = "fetched"
    /\ IF snapshot = EmptyTable THEN UNCHANGED indexVars ELSE ReplaceAll(snapshot)
    /\ snapshot' = EmptyTable
    /\ pollPC' = "notify"
    /\ UNCHANGED <<weftVars, bus, subVars, seeded, callVars>>

tickReplace ==
    /\ pollPC = "fetched"
    /\ ReplaceAll(snapshot)
    /\ snapshot' = EmptyTable
    /\ pollPC' = "notify"
    /\ UNCHANGED <<weftVars, bus, subVars, seeded, callVars>>

Handed(d, n) == [added |-> d.added \ {n}, removed |-> d.removed \ {n},
                 churned |-> d.churned \ {n}]

(* delta holds the networks of the tick not yet handed to the callback. *)
tickNotify ==
    /\ pollPC = "notify"
    /\ \E n \in Reported(delta) : onChange(n) /\ delta' = Handed(delta, n)
    /\ UNCHANGED <<idx, gauge, later, elder, weftVars, bus, subVars, pollVars>>

(* Mutant: the tick ends before it has called back for every network. *)
tickDoneEarly ==
    /\ pollPC = "notify"
    /\ pollPC' = "idle"
    /\ seeded' = TRUE
    /\ UNCHANGED <<indexVars, weftVars, bus, subVars, snapshot, callVars>>

tickDone ==
    /\ pollPC = "notify" /\ Reported(delta) = {}
    /\ pollPC' = "idle"
    /\ seeded' = TRUE
    /\ UNCHANGED <<indexVars, weftVars, bus, subVars, snapshot, callVars>>

-----------------------------------------------------------------------------
Weft == \E f \in FIPs : Allocate(f) \/ Map(f) \/ Unmap(f) \/ Release(f) \/ OtherEvent(f)

Subscriber == Subscribe \/ handle \/ handleNotify

Poller == tickFetch \/ tickError \/ tickReplace \/ tickNotify \/ tickDone

SyncNext == Weft \/ LoseEvent \/ Subscriber \/ Poller

SyncSpec == SyncInit /\ [][SyncNext]_syncVars

(* The goroutines are scheduled, the ticker keeps firing and weft answers  *)
(* a listing again some day.  Nothing is assumed of weft's own changes, of *)
(* the bus or of the subscription.                                         *)
Fairness == /\ WF_syncVars(handle) /\ WF_syncVars(handleNotify)
            /\ WF_syncVars(tickFetch) /\ WF_syncVars(tickReplace)
            /\ WF_syncVars(tickNotify) /\ WF_syncVars(tickDone)

FairSyncSpec == SyncSpec /\ Fairness

-----------------------------------------------------------------------------
(* Properties *)

(* The types of both loops' state: subTodo never holds more than the one   *)
(* network a handler found changed, and a tick's leftover networks exist   *)
(* only while it notifies.                                                 *)
SyncTypeOK ==
    /\ TypeOK
    /\ truth \in Tables /\ snapshot \in Tables
    /\ released \subseteq FIPs
    /\ ops \in 0..MaxOps
    /\ bus \in Seq(Event)
    /\ subscribed \in BOOLEAN /\ seeded \in BOOLEAN
    /\ subTodo = {} \/ \E n \in Networks : subTodo = {n}
    /\ pollPC \in {"idle", "fetched", "notify"}
    /\ Reported(delta) # {} => pollPC = "notify"
    /\ told \in [Networks -> SUBSET Addresses] /\ left \subseteq Networks

(* Whatever the interleaving of the two loops, a network whose announce    *)
(* set differs from what the callback read last is still owed a call: no   *)
(* change of the index goes unannounced, but one.  An event that moves a   *)
(* FIP calls back for the network it is on now; the one it left waits for  *)
(* its next change (subscriber.go:117-129).                                *)
NoMissedRepublish ==
    \A n \in Networks \ left : told[n] # activeAddrs(idx, n)
                                  => n \in subTodo \union Reported(delta)

(* No FIP is ever reported on two networks. *)
StableHomes == \A f \in FIPs : \A m, n \in NetworksOf[f] : m = n

(* poller.go:41-45: a missed event, or a stale listing applied over a newer *)
(* event, is repaired: once weft stops changing, the index is weft's table *)
(* and every network's routers, those a FIP was moved off by an event      *)
(* excepted, have been republished with the addresses weft says are active *)
(* on it, and so it stays.                                                 *)
SyncConverges == <>[](/\ idx.byUUID = truth
                      /\ \A n \in Networks \ left : told[n] = TableAddrs(truth, n))
=============================================================================
