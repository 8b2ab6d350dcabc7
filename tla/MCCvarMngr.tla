----------------------------- MODULE MCCvarMngr -----------------------------
(* CvarMngr for TLC: variables of plugins and forwards are interchangeable. *)
EXTENDS CvarMngr

Symmetry == Permutations(Ptrs) \cup Permutations(Hooks)

=============================================================================
