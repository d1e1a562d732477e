------------------------------ MODULE MCFIPSync ------------------------------
(* FIPSync on small instances. *)
EXTENDS FIPSync, TLC

CONSTANTS f1, f2, n1, n2

(* One FIP may move between the networks; the other is on none until it is *)
(* mapped, and both may be on one.                                         *)
Layout == (f1 :> {n1, n2} @@ f2 :> {NoNetwork, n2})
=============================================================================
