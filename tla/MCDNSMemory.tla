----------------------------- MODULE MCDNSMemory -----------------------------
(* DNSMemory on a small instance: more zones than names, so that names are *)
(* contended, and enough records for two zones to hold several.            *)
EXTENDS DNSMemory
=============================================================================
