----------------------------- MODULE PersonFaces -----------------------------
(***************************************************************************)
(* The photo of each Person (eidolon_data/services/person_faces.py, and the *)
(* face in Persons.archive): one row with the key of one file.  A change    *)
(* writes the new file inside its transaction and removes the old one after *)
(* it; an archive removes the file inside its transaction.  The transaction *)
(* may fail at its commit, and the process may die between any two steps.   *)
(*                                                                         *)
(* A client names the revision of the row it read; one that is not current  *)
(* is refused, and the action stands for a client that read the current one.*)
(* What else happens to a Person is in Persons.                             *)
(***************************************************************************)
EXTENDS ObjectStore

CONSTANTS
  Person,
  PhotoKey,     \* the keys a request may draw: each is new
  None

VARIABLES
  people,       \* status of each Person
  photos,       \* rows of person_face_profiles: the storage_key, or None
  change,       \* the open transaction that touches a file
  leftovers,    \* files a request still has to remove, its transaction ended
  reading,      \* the key a request for an image read and did not open yet
  cut           \* Persons whose archive removed the file and did not commit

personFaceVars == <<people, photos, change, leftovers, reading, cut>>

PersonStatus == {"none", "active", "inactive", "archived"}
Change == [op : {"change", "archive"}, person : Person,
           new : PhotoKey \cup {None}, old : PhotoKey \cup {None}]

Held(k) == {k} \ {None}
PhotoKeys == UNION {Held(photos[p]) : p \in Person}
InChange == IF change = None THEN {} ELSE Held(change.new)
Fresh(k) == k \notin blobs \cup reported \cup lost \cup leftovers \cup PhotoKeys

\* Faulty: a pool with a connection for each request.
AlwaysConnection == change = None
\* The pool's one connection (settings.sqlite_pool_size).
Connection == change = None /\ reading = None

Here(p) == owner = "active" /\ people[p] \in {"active", "inactive"}

-----------------------------------------------------------------------------
(* replace and delete. *)

\* The file is written before the row names it.
StartReplace(p, k) ==
  /\ Connection /\ Here(p) /\ people[p] = "active"
  /\ Fresh(k)
  /\ Put(k)
  /\ change' = [op |-> "change", person |-> p, new |-> k, old |-> photos[p]]
  /\ UNCHANGED <<owner, reported, people, photos, leftovers, reading, cut>>

StartDelete(p) ==
  /\ Connection /\ Here(p)
  /\ change' = [op |-> "change", person |-> p, new |-> None, old |-> photos[p]]
  /\ UNCHANGED <<storeVars, people, photos, leftovers, reading, cut>>

CommitChange ==
  /\ change # None /\ change.op = "change"
  /\ photos' = [photos EXCEPT ![change.person] = change.new]
  /\ leftovers' = leftovers \cup Held(change.old)
  /\ cut' = cut \ {change.person}
  /\ change' = None
  /\ UNCHANGED <<storeVars, people, reading>>

\* The commit fails: the new file goes again.
AbortChange ==
  /\ change # None /\ change.op = "change"
  /\ leftovers' = leftovers \cup Held(change.new)
  /\ change' = None
  /\ UNCHANGED <<storeVars, people, photos, reading, cut>>

RemoveLeftover(k) ==
  /\ k \in leftovers
  /\ Discard({k})
  /\ leftovers' = leftovers \ {k}
  /\ UNCHANGED <<owner, reported, purged, lost, people, photos, change, reading, cut>>
\* The file system refuses: the request fails, and nobody tries again.
FailToRemove(k) ==
  /\ k \in leftovers
  /\ lost' = lost \cup {k}
  /\ leftovers' = leftovers \ {k}
  /\ UNCHANGED <<owner, blobs, reported, purged, people, photos, change, reading, cut>>

\* image: the row is read, then the file.
StartRead(p) ==
  /\ Connection /\ Here(p)
  /\ photos[p] # None
  /\ reading' = photos[p]
  /\ UNCHANGED <<storeVars, people, photos, change, leftovers, cut>>
EndRead ==
  /\ reading # None
  /\ reading' = None
  /\ UNCHANGED <<storeVars, people, photos, change, leftovers, cut>>

-----------------------------------------------------------------------------
(* Persons. *)

\* archive removes the file while its transaction is open; when that fails the
\* archive is refused.
StartArchive(p) ==
  /\ Connection /\ Here(p)
  /\ Discard(Held(photos[p]))
  /\ change' = [op |-> "archive", person |-> p, new |-> None, old |-> photos[p]]
  /\ UNCHANGED <<owner, reported, purged, lost, people, photos, leftovers, reading, cut>>
CommitArchive ==
  /\ change # None /\ change.op = "archive"
  /\ people' = [people EXCEPT ![change.person] = "archived"]
  /\ photos' = [photos EXCEPT ![change.person] = None]
  /\ cut' = cut \ {change.person}
  /\ change' = None
  /\ UNCHANGED <<storeVars, leftovers, reading>>
CutShort(p) == cut' = IF photos[p] # None THEN cut \cup {p} ELSE cut
AbortArchive ==
  /\ change # None /\ change.op = "archive"
  /\ CutShort(change.person)
  /\ change' = None
  /\ UNCHANGED <<storeVars, people, photos, leftovers, reading>>

\* create, update and restore, as a photo sees them.
Moves == [none |-> {"active"}, active |-> {"inactive"}, inactive |-> {"active"},
          archived |-> {"inactive"}]
MovePerson(p, status) ==
  /\ Connection /\ owner = "active"
  /\ status \in Moves[people[p]]
  /\ people' = [people EXCEPT ![p] = status]
  /\ UNCHANGED <<storeVars, photos, change, leftovers, reading, cut>>

\* The process dies: an open transaction is rolled back and its request, like
\* those with a file still to remove, is gone.
CrashPersonFaces ==
  /\ \/ change # None \/ leftovers # {}
  /\ lost' = lost \cup leftovers \cup InChange
  /\ IF change # None /\ change.op = "archive" THEN CutShort(change.person) ELSE UNCHANGED cut
  /\ change' = None /\ leftovers' = {} /\ reading' = None
  /\ UNCHANGED <<owner, blobs, reported, purged, people, photos>>

\* The rows of an Owner that is deleted.
RemovePersonRows ==
  /\ Connection
  /\ people' = [p \in Person |-> "none"]
  /\ photos' = [p \in Person |-> None]
  /\ cut' = {}
  /\ UNCHANGED <<change, leftovers, reading>>

-----------------------------------------------------------------------------
PersonFaceInit ==
  /\ people = [p \in Person |-> "none"]
  /\ photos = [p \in Person |-> None]
  /\ change = None /\ leftovers = {} /\ reading = None /\ cut = {}

PersonFaceStep ==
  \/ \E p \in Person :
       \/ \E k \in PhotoKey : StartReplace(p, k)
       \/ StartDelete(p) \/ StartRead(p) \/ StartArchive(p)
       \/ \E status \in PersonStatus : MovePerson(p, status)
  \/ CommitChange \/ AbortChange \/ CommitArchive \/ AbortArchive
  \/ EndRead \/ CrashPersonFaces
  \/ \E k \in PhotoKey : RemoveLeftover(k) \/ FailToRemove(k)

-----------------------------------------------------------------------------
PersonFaceTypeOK ==
  /\ people \in [Person -> PersonStatus]
  /\ photos \in [Person -> PhotoKey \cup {None}]
  /\ change \in Change \cup {None}
  /\ leftovers \subseteq PhotoKey
  /\ reading \in PhotoKey \cup {None}
  /\ cut \subseteq Person

\* Through replacement, deletion, failed commits and crashes, a row that names a
\* file has it, and a request that read the key still finds the file when it
\* opens it.  The one exception is an archive that did not commit: its Person
\* keeps the row and has lost the file.
PhotoIsThere ==
  /\ \A p \in Person : photos[p] # None =>
       photos[p] \in blobs \/ p \in cut \/ (change # None /\ change.op = "archive" /\ change.person = p)
  /\ reading # None => reading \in blobs \/ \E p \in cut : photos[p] = reading

\* No file is forgotten while the process lives: each is named by a row, by a
\* request that is under way or will remove it, or by the keys a deletion
\* returned.  What stays for good is what a crash or a failed removal left.
PhotosAccountedFor ==
  blobs \cap PhotoKey \subseteq PhotoKeys \cup InChange \cup leftovers \cup reported \cup lost
=============================================================================
