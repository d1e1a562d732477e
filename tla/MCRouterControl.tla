--------------------------- MODULE MCRouterControl ---------------------------
(* RouterControl on small instances.  One router is enough: what calls for *)
(* two routers share is the scan for the name, which RuleStore covers.     *)
EXTENDS RouterControl
=============================================================================
