-------------------------- MODULE MCPersonaGenomes --------------------------
(* Symmetry for the run of PersonaGenomes: identifiers and contents are
   interchangeable. *)
EXTENDS PersonaGenomes, TLC

Symmetry ==
  Permutations(Genome) \cup Permutations(Traits) \cup Permutations(Name)
    \cup Permutations(Preferences) \cup Permutations(Operation)
=============================================================================
