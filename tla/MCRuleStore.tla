----------------------------- MODULE MCRuleStore -----------------------------
(* RuleStore on a small instance. *)
EXTENDS RuleStore, TLC

(* Rules, names and handlers are interchangeable. *)
Symmetry == Permutations(Rules) \union Permutations(Names) \union Permutations(Handlers)
=============================================================================
