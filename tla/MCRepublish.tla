----------------------------- MODULE MCRepublish -----------------------------
(* Republish on small instances. *)
EXTENDS Republish, TLC

CONSTANTS f1, n1, n2, r1

(* A floating IP on the first of two networks. *)
OneHome == (f1 :> n1)

(* A router that stitches both. *)
OneRouter == (r1 :> {n1, n2})
=============================================================================
