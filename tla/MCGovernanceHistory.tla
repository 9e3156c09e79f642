------------------------ MODULE MCGovernanceHistory ------------------------
(* Symmetry for the safety runs of AuditOutbox and GovernanceHistory. *)
EXTENDS GovernanceHistory, TLC

Symmetry ==
  Permutations(Deliverable) \cup Permutations(Event \ Deliverable) \cup Permutations(Dispatcher)
=============================================================================
