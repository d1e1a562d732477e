----------------------------- MODULE RouterStatus -----------------------------
(***************************************************************************)
(* The status of a router as the status receiver derives it from the       *)
(* states of its BGP peers (internal/statusreceiver/derive.go).  Neither   *)
(* the order nor the number of peers in a state matters, so a report is    *)
(* the set of their states.                                                *)
(***************************************************************************)
Statuses == {"configuring", "active", "down"}

PeerStates == {"Established", "OpenSent", "OpenConfirm", "Active", "Idle", "Connect"}

rollupStatus(peers) ==
    IF peers = {} THEN "configuring"
    ELSE IF "Established" \in peers THEN "active"
    ELSE IF peers \intersect {"OpenSent", "OpenConfirm", "Active"} # {} THEN "configuring"
    ELSE "down"
=============================================================================
