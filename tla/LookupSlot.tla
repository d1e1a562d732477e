------------------------------ MODULE LookupSlot ------------------------------
(***************************************************************************)
(* The publisher's floating-IP lookup slot (internal/publisher/nats.go):   *)
(* an atomic.Value seeded by NewNATS, swapped by SetFIPLookup when a term  *)
(* of leadership starts the FIP loops (cmd/weft-network/main.go) and read  *)
(* by every Publish.                                                       *)
(*                                                                         *)
(* External: sync/atomic's Value.Store panics when the concrete type of    *)
(* its argument differs from that of the value stored first; nothing       *)
(* recovers, so the process ends and is started again.                     *)
(***************************************************************************)
EXTENDS Naturals

CONSTANT MaxBoots  \* bound on the times the process is started

NoopFIPLookup == "publisher.NoopFIPLookup"
Index         == "*fips.Index"
Empty         == "nil"

VARIABLES
    slot,      \* the concrete type in the atomic.Value
    up,        \* the process runs
    panicked,  \* it ended in a panic
    boots      \* times it was started

vars == <<slot, up, panicked, boots>>

Init == slot = Empty /\ up = FALSE /\ panicked = FALSE /\ boots = 0

(* Store of a value of type t. *)
Store(t) ==
    IF slot \in {Empty, t}
    THEN slot' = t /\ UNCHANGED <<up, panicked>>
    ELSE slot' = Empty /\ up' = FALSE /\ panicked' = TRUE

(* The process starts: NewNATS seeds the slot. *)
NewNATS ==
    /\ ~up /\ boots < MaxBoots
    /\ boots' = boots + 1
    /\ slot' = NoopFIPLookup
    /\ up' = TRUE
    /\ UNCHANGED panicked

(* startFIPLoops, at the start of a term: a fresh Index becomes the lookup. *)
SetFIPLookup ==
    /\ up
    /\ Store(Index)
    /\ UNCHANGED boots

Stop == up /\ up' = FALSE /\ slot' = Empty /\ UNCHANGED <<panicked, boots>>

Next == NewNATS \/ SetFIPLookup \/ Stop

Spec == Init /\ [][Next]_vars

-----------------------------------------------------------------------------
(* nats.go:38-39: the slot "is swapped from a leader-election callback     *)
(* after the server is already serving traffic": installing the index at   *)
(* the start of a term does not end the process.                           *)
SwapSucceeds == ~panicked
=============================================================================
