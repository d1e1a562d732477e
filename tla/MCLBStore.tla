------------------------------ MODULE MCLBStore ------------------------------
(* LBStore on a small instance. *)
EXTENDS LBStore, TLC

Symmetry == Permutations(Handlers) \union Permutations(LBs)
              \union Permutations(Names) \union Permutations(BackendLists)
=============================================================================
