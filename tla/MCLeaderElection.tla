--------------------------- MODULE MCLeaderElection ---------------------------
(* LeaderElection on small instances.  Each session that ends costs one    *)
(* trouble, so MaxSessions = Cardinality(Instances) + MaxTroubles never    *)
(* keeps an instance from campaigning again.                               *)
EXTENDS LeaderElection
=============================================================================
