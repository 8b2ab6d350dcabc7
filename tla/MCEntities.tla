----------------------------- MODULE MCEntities -----------------------------
(* Entities for TLC: edicts and players are interchangeable. *)
EXTENDS Entities

Symmetry == Permutations(Entities) \cup Permutations(Players)

=============================================================================
