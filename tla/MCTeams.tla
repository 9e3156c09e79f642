------------------------------ MODULE MCTeams ------------------------------
(* Symmetry for the runs of Teams. *)
EXTENDS Teams, TLC

Symmetry ==
  Permutations(Team) \cup Permutations(Session) \cup Permutations(Host)
    \cup Permutations(Companion) \cup Permutations(Generation)
=============================================================================
