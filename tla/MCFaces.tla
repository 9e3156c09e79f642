------------------------------- MODULE MCFaces -------------------------------
(* The three kinds of images share no row and no key, only the Owner: the run  *)
(* explores each kind with everything that happens to the Owner, one at a time. *)
EXTENDS Faces, TLC

VARIABLE kind

MCInit == Init /\ kind \in {"photos", "faces", "profile"}
MCNext ==
  /\ \/ kind = "photos" /\ Photos
     \/ kind = "faces" /\ Faced
     \/ kind = "profile" /\ Profiles
     \/ OwnerStep
  /\ UNCHANGED kind
MCSpec == MCInit /\ [][MCNext]_<<vars, kind>>

Symmetry == Permutations(Companion) \cup Permutations(Picture) \cup Permutations(Setter)
=============================================================================
