------------------------------ MODULE MCDNSStore ------------------------------
(* DNSStore on small instances. *)
EXTENDS DNSStore, TLC

(* Zones, records and handlers are interchangeable: the choice of a name's *)
(* owner, in ImplementsMemory, is only made where there is one.            *)
Symmetry == Permutations(Zones) \union Permutations(Records) \union Permutations(Handlers)
=============================================================================
