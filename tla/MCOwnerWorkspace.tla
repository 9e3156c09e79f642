-------------------------- MODULE MCOwnerWorkspace --------------------------
(* Symmetry for the runs of OwnerWorkspace: identifiers are interchangeable. *)
EXTENDS OwnerWorkspace, TLC

Symmetry ==
  Permutations(Owner) \cup Permutations(Companion) \cup Permutations(Realm)
    \cup Permutations(Binding) \cup Permutations(Device) \cup Permutations(Name)
=============================================================================
