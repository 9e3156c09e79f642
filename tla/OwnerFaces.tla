------------------------------ MODULE OwnerFaces ------------------------------
(***************************************************************************)
(* The face profile of one Owner                                            *)
(* (eidolon_data/repositories/owner_face_profiles.py): revisions numbered   *)
(* from 1, one of them desired, drafts that collect references and are      *)
(* activated, revisions that say the profile is cleared.  A command reads   *)
(* first and writes after, on the one connection of the pool.               *)
(*                                                                         *)
(* A revision has at most one reference for a pose, so the pose stands for  *)
(* the reference.  The images are written and removed by the capture        *)
(* service, which is not part of this repository.                           *)
(***************************************************************************)
EXTENDS Naturals, Sequences, FiniteSets

CONSTANTS
  Pose,
  RequiredPoses,        \* OWNER_FACE_PROFILE_REQUIRED_POSES
  MinReferences,        \* OWNER_FACE_PROFILE_MIN_REFERENCES
  MaxReferences,        \* OWNER_FACE_PROFILE_MAX_REFERENCES
  MaxRevisions          \* bound on the revisions of the profile

ASSUME PoseAssumption ==
  /\ IsFiniteSet(Pose) /\ RequiredPoses \subseteq Pose
  /\ MinReferences \in Nat /\ MaxReferences \in Nat /\ MinReferences <= MaxReferences
  /\ MaxRevisions \in Nat

VARIABLES
  profile,      \* rows of owner_face_profile_revisions, by revision
  working       \* commands that have read and not written

ownerFaceVars == <<profile, working>>

Revision == [state : {"draft", "desired", "superseded"}, cleared : BOOLEAN,
             poses : SUBSET Pose]
Command == [op : {"draft", "clear", "activate"}, revision : 1..MaxRevisions + 1]

Supersede(states) ==
  [n \in DOMAIN profile |->
     IF profile[n].state \in states THEN [profile[n] EXCEPT !.state = "superseded"]
     ELSE profile[n]]

\* Faulty: a pool of two connections.
TwoConnections == Cardinality(working) < 2
\* settings.sqlite_pool_size: one connection, so one command at a time.
FreeConnection == working = {}

Begin(op, n) ==
  /\ FreeConnection
  /\ working' = working \cup {[op |-> op, revision |-> n]}
  /\ UNCHANGED profile
End(command) == working' = working \ {command}

-----------------------------------------------------------------------------
(* create_draft and clear: the next revision is computed from the latest. *)

BeginDraft == Len(profile) < MaxRevisions /\ Begin("draft", Len(profile) + 1)
BeginClear == Len(profile) < MaxRevisions /\ Begin("clear", Len(profile) + 1)

Draft == [state |-> "draft", cleared |-> FALSE, poses |-> {}]
Cleared == [state |-> "desired", cleared |-> TRUE, poses |-> {}]

\* Rolled back when the number was taken meanwhile.
Add(command, states, row) ==
  /\ profile' = IF command.revision = Len(profile) + 1
                  THEN Append(Supersede(states), row) ELSE profile
  /\ End(command)
FinishClear(command) == command.op = "clear" /\ Add(command, {"draft", "desired"}, Cleared)
FinishDraft(command) == command.op = "draft" /\ Add(command, {"draft"}, Draft)

-----------------------------------------------------------------------------
(* activate. *)

Complete(poses) ==
  /\ Cardinality(poses) \in MinReferences..MaxReferences
  /\ RequiredPoses \subseteq poses

BeginActivate(n) ==
  /\ n \in DOMAIN profile
  /\ profile[n].state = "draft"
  /\ Complete(profile[n].poses)
  /\ Begin("activate", n)

FinishActivate(command) ==
  /\ command.op = "activate"
  /\ profile' = [Supersede({"desired"}) EXCEPT ![command.revision].state = "desired"]
  /\ End(command)

\* The command fails before its transaction commits.
GiveUp(command) == End(command) /\ UNCHANGED profile

-----------------------------------------------------------------------------
(* References. *)

AddReference(n, pose) ==
  /\ FreeConnection
  /\ n \in DOMAIN profile
  /\ profile[n].state = "draft"
  /\ pose \notin profile[n].poses
  /\ Cardinality(profile[n].poses) < MaxReferences
  /\ profile' = [profile EXCEPT ![n].poses = @ \cup {pose}]
  /\ UNCHANGED working

\* Faulty: the caller's list is believed.
DeleteListed(n, poses) ==
  /\ FreeConnection
  /\ n \in DOMAIN profile
  /\ profile' = [profile EXCEPT ![n].poses = @ \ poses]
  /\ UNCHANGED working
\* The caller lists superseded references, removes the images, and then the
\* rows; one statement, which looks at the state again.
DeleteSupersededReferences(n, poses) ==
  /\ FreeConnection
  /\ n \in DOMAIN profile
  /\ profile[n].state = "superseded"
  /\ poses # {} /\ poses \subseteq profile[n].poses
  /\ profile' = [profile EXCEPT ![n].poses = @ \ poses]
  /\ UNCHANGED working

RemoveProfile == FreeConnection /\ profile' = <<>> /\ UNCHANGED working

-----------------------------------------------------------------------------
OwnerFaceInit == profile = <<>> /\ working = {}

OwnerFaceStep ==
  \/ BeginDraft \/ BeginClear
  \/ \E command \in working :
       FinishDraft(command) \/ FinishClear(command) \/ FinishActivate(command) \/ GiveUp(command)
  \/ \E n \in 1..MaxRevisions :
       \/ BeginActivate(n)
       \/ \E pose \in Pose : AddReference(n, pose)
       \/ \E poses \in SUBSET Pose : DeleteSupersededReferences(n, poses)

-----------------------------------------------------------------------------
OwnerFaceTypeOK ==
  /\ profile \in Seq(Revision)
  /\ Len(profile) <= MaxRevisions
  /\ working \subseteq Command

Desired == {n \in DOMAIN profile : profile[n].state = "desired"}

\* What devices are told to recognize is one complete profile: it never loses a
\* reference while it is desired, whatever is purged, drafted or activated
\* meanwhile.
DesiredIsComplete ==
  /\ Cardinality(Desired) <= 1
  /\ \A n \in Desired : profile[n].cleared \/ Complete(profile[n].poses)

\* An Owner who has the profile cleared is not recognized by anything captured
\* before: no draft of that time can be activated any more, and the clearing is
\* only replaced by a profile drafted after it.
ClearingStands ==
  \A m, n \in DOMAIN profile :
    profile[n].cleared /\ m < n => profile[m].state = "superseded"
=============================================================================
