--------------------------- MODULE MCVoiceprints ---------------------------
(* One Person with a whole life, and one that discovery adds beside it. *)
EXTENDS Voiceprints, TLC

CONSTANTS p1, p2, t1, t2

MCDerivedPerson == [t \in Turn |-> IF t = t1 THEN p1 ELSE p2]
MCMaxRevision == [p \in Person |-> IF p = p1 THEN 4 ELSE 1]
MCPolicy ==
  {[provisional |-> b, prepare_on_promotion |-> b] : b \in BOOLEAN}
Symmetry == Permutations(Enrollment) \cup Permutations(Profile)
=============================================================================
