----------------------------- MODULE MCFIPIndex -----------------------------
(* FIPIndex on a small instance. *)
EXTENDS FIPIndex, TLC

SX == INSTANCE SequencesExt

(* FIPs, networks and addresses are interchangeable. *)
Symmetry == Permutations(FIPs) \union Permutations(Networks) \union Permutations(Addresses)

(* ReplaceAll's result is written and never read, and what is claimed of   *)
(* it is claimed of the step that writes it, so it tells no two states     *)
(* apart.                                                                  *)
WithoutDelta == <<idx, gauge, later, elder>>

(* Indexing the rows of a listing one by one from an empty Index, in any   *)
(* order, gives what ReplaceAll's closed form Rebuilt says it gives.       *)
ASSUME RebuiltIsIndexingEachRow ==
    \A table \in Tables :
        \A order \in SX!SetToSeqs({f \in FIPs : table[f] # NoEntry}) :
            SX!FoldLeft(LAMBDA i, f : indexLocked(i, f, table[f]), New, order)
                \in {Rebuilt(table, w) : w \in Winners}
=============================================================================
