---------------------------- MODULE MCProvisioning ----------------------------
(* One operation id, used for onboarding and for adding; ids of every kind that *)
(* no operation draws beside the derived ones.                                  *)
EXTENDS Provisioning, TLC

CONSTANTS op1, o1, c1, c2, r1, r2

MCIds == op1 :> [owner |-> o1, companion |-> c1, realm |-> r1, added |-> c2, addedRealm |-> r2]
=============================================================================
