-------------------------------- MODULE Faces --------------------------------
(***************************************************************************)
(* The images an Owner keeps: the photos of its Persons, the faces of its   *)
(* Companions and its own face profile, with the commands on the Owner that *)
(* reach all three (services/owner_workspace.py, services/owner_deletion.py)*)
(* and the caller that removes the files a deletion names.                  *)
(***************************************************************************)
EXTENDS PersonFaces, CompanionFaces, OwnerFaces

\* The keys of the three kinds of files have prefixes of their own.
ASSUME KeyAssumption ==
  /\ None \notin PhotoKey \cup Change /\ NoKey \notin Picture \cup Clip
  /\ PhotoKey \cap (Picture \cup Clip) = {} /\ Picture \cap Clip = {}

vars == <<storeVars, personFaceVars, companionFaceVars, ownerFaceVars>>

\* The keys delete_owner returns, those of the face profile aside.
OwnerKeys == AllFaceKeys \cup PhotoKeys

DeleteOwner ==
  /\ owner # "absent"
  /\ owner' = "absent"
  /\ reported' = reported \cup OwnerKeys
  /\ DeleteFaces(Companion)
  /\ RemovePersonRows
  /\ RemoveProfile
  /\ UNCHANGED <<blobs, purged, lost>>

ArchiveOwner ==
  /\ owner = "active"
  /\ owner' = "archived"
  /\ companions' = [c \in Companion |->
       IF companions[c] = "active" THEN "inactive" ELSE companions[c]]
  /\ UNCHANGED <<blobs, reported, purged, lost, faces, setting,
                 personFaceVars, ownerFaceVars>>

CreateOwner ==
  /\ owner = "absent"
  /\ owner' = "active"
  /\ UNCHANGED <<blobs, reported, purged, lost, personFaceVars, companionFaceVars, ownerFaceVars>>

OwnerStep ==
  \/ ArchiveOwner \/ DeleteOwner \/ CreateOwner
  \/ /\ \E k \in PhotoKey \cup Picture \cup Clip : Purge(k)
     /\ UNCHANGED <<personFaceVars, companionFaceVars, ownerFaceVars>>

-----------------------------------------------------------------------------
Init == StoreInit /\ PersonFaceInit /\ CompanionFaceInit /\ OwnerFaceInit

Photos    == PersonFaceStep /\ UNCHANGED <<companionFaceVars, ownerFaceVars>>
Faced     == CompanionFaceStep /\ UNCHANGED <<personFaceVars, ownerFaceVars>>
Profiles  == owner # "absent" /\ OwnerFaceStep /\ UNCHANGED <<storeVars, personFaceVars, companionFaceVars>>

Next == Photos \/ Faced \/ Profiles \/ OwnerStep

Spec == Init /\ [][Next]_vars

-----------------------------------------------------------------------------
\* No file is forgotten: replacements, failed commits and deletions of a photo, a
\* Companion or the Owner leave each file with a row, a request under way, or the
\* keys somebody was given to remove.
ImagesAccountedFor == PhotosAccountedFor /\ FacesAccountedFor
=============================================================================
