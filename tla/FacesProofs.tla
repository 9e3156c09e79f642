----------------------------- MODULE FacesProofs -----------------------------
(***************************************************************************)
(* Proofs about Faces: no request, failed commit, crash or late removal     *)
(* leaves a row without its file or a file without somebody to remove it,   *)
(* and the desired face profile is complete, for any number of Persons,     *)
(* Companions, requests, keys and revisions.                                *)
(***************************************************************************)
EXTENDS Faces, TLAPS, FiniteSetTheorems, SequenceTheorems

-----------------------------------------------------------------------------
(* Photos. *)

\* What an open transaction knows is so, and an archive has removed its file.
ChangeIsOpen ==
  change # None =>
    /\ change.old = photos[change.person]
    /\ Held(change.new) \subseteq blobs
    /\ change.op = "archive" => change.new = None /\ Held(change.old) \cap blobs = {}

\* A request that reads holds the connection.
ReadIsOpen == reading # None => change = None /\ reading \in PhotoKeys

OnePhoto == \A p, q \in Person : photos[p] = photos[q] /\ photos[p] # None => p = q

\* Keys that wait for removal are named by no row and no transaction.
KeysApart ==
  /\ (PhotoKeys \cup InChange) \cap (leftovers \cup reported) = {}
  /\ InChange \cap PhotoKeys = {}

PhotoInv ==
  /\ PersonFaceTypeOK /\ ChangeIsOpen /\ ReadIsOpen /\ OnePhoto /\ KeysApart
  /\ PhotoIsThere /\ PhotosAccountedFor

LEMMA PhotoKeysAre ==
  /\ \A k : k \in PhotoKeys <=> k # None /\ \E p \in Person : photos[p] = k
  /\ \A k : k \in PhotoKeys' <=> k # None /\ \E p \in Person : photos'[p] = k
BY DEF PhotoKeys, Held

LEMMA InChangeIs ==
  /\ \A k : k \in InChange <=> change # None /\ k # None /\ k = change.new
  /\ \A k : k \in InChange' <=> change' # None /\ k # None /\ k = change'.new
BY DEF InChange, Held

LEMMA StartReplaceKeeps ==
  ASSUME PhotoInv, NEW p \in Person, NEW k \in PhotoKey, StartReplace(p, k)
  PROVE  PhotoInv'
<1>1. PersonFaceTypeOK'
  BY DEF StartReplace, Change, PhotoInv, PersonFaceTypeOK
<1>2. ChangeIsOpen'
  BY DEF StartReplace, Put, Held, ChangeIsOpen
<1>3. ReadIsOpen'
  BY DEF StartReplace, Connection, ReadIsOpen
<1>4. OnePhoto'
  BY DEF StartReplace, PhotoInv, OnePhoto
<1>5. KeysApart'
  BY PhotoKeysAre, InChangeIs DEF StartReplace, Fresh, PhotoInv, KeysApart
<1>6. PhotoIsThere'
  BY DEF StartReplace, Connection, Put, PhotoInv, PhotoIsThere
<1>7. PhotosAccountedFor'
  BY KeyAssumption, PhotoKeysAre, InChangeIs
     DEF StartReplace, Put, Change, PhotoInv, PersonFaceTypeOK, PhotosAccountedFor, Connection
<1>8. QED
  BY <1>1, <1>2, <1>3, <1>4, <1>5, <1>6, <1>7 DEF PhotoInv

LEMMA StartDeleteKeeps ==
  ASSUME PhotoInv, NEW p \in Person, StartDelete(p)
  PROVE  PhotoInv'
<1>1. PersonFaceTypeOK'
  BY DEF StartDelete, Change, PhotoInv, PersonFaceTypeOK
<1>2. ChangeIsOpen'
  BY DEF StartDelete, Held, ChangeIsOpen
<1>3. ReadIsOpen'
  BY DEF StartDelete, Connection, ReadIsOpen
<1>4. OnePhoto'
  BY DEF StartDelete, PhotoInv, OnePhoto
<1>5. KeysApart'
  BY PhotoKeysAre, InChangeIs DEF StartDelete, storeVars, PhotoInv, KeysApart
<1>6. PhotoIsThere'
  BY DEF StartDelete, Connection, storeVars, PhotoInv, PhotoIsThere
<1>7. PhotosAccountedFor'
  BY PhotoKeysAre, InChangeIs DEF StartDelete, Connection, storeVars, PhotoInv, PhotosAccountedFor
<1>8. QED
  BY <1>1, <1>2, <1>3, <1>4, <1>5, <1>6, <1>7 DEF PhotoInv

LEMMA CommitChangeKeeps ==
  ASSUME PhotoInv, CommitChange
  PROVE  PhotoInv'
<1>1. PersonFaceTypeOK'
  BY DEF CommitChange, Change, Held, PhotoInv, PersonFaceTypeOK
<1>2. ChangeIsOpen'
  BY DEF CommitChange, ChangeIsOpen
<1>3. ReadIsOpen'
  BY DEF CommitChange, PhotoInv, ReadIsOpen
<1>4. OnePhoto'
  BY PhotoKeysAre, InChangeIs DEF CommitChange, PhotoInv, OnePhoto, KeysApart
<1>5. KeysApart'
  BY PhotoKeysAre, InChangeIs
     DEF CommitChange, Change, storeVars, Held, PhotoInv, PersonFaceTypeOK, ChangeIsOpen,
         OnePhoto, KeysApart
<1>6. PhotoIsThere'
  BY
     DEF CommitChange, storeVars, Held, PhotoInv, PersonFaceTypeOK, ChangeIsOpen, ReadIsOpen,
         PhotoIsThere
<1>7. PhotosAccountedFor'
  BY PhotoKeysAre, InChangeIs
     DEF CommitChange, Change, storeVars, Held, PhotoInv, PersonFaceTypeOK, ChangeIsOpen,
         PhotosAccountedFor
<1>8. QED
  BY <1>1, <1>2, <1>3, <1>4, <1>5, <1>6, <1>7 DEF PhotoInv

LEMMA AbortChangeKeeps ==
  ASSUME PhotoInv, AbortChange
  PROVE  PhotoInv'
<1>1. PersonFaceTypeOK'
  BY DEF AbortChange, Change, Held, PhotoInv, PersonFaceTypeOK
<1>2. ChangeIsOpen'
  BY DEF AbortChange, ChangeIsOpen
<1>3. ReadIsOpen'
  BY DEF AbortChange, PhotoInv, ReadIsOpen
<1>4. OnePhoto'
  BY DEF AbortChange, PhotoInv, OnePhoto
<1>5. KeysApart'
  BY PhotoKeysAre, InChangeIs DEF AbortChange, storeVars, Held, PhotoInv, KeysApart
<1>6. PhotoIsThere'
  BY DEF AbortChange, storeVars, PhotoInv, PhotoIsThere
<1>7. PhotosAccountedFor'
  BY PhotoKeysAre, InChangeIs DEF AbortChange, storeVars, Held, PhotoInv, PhotosAccountedFor
<1>8. QED
  BY <1>1, <1>2, <1>3, <1>4, <1>5, <1>6, <1>7 DEF PhotoInv

LEMMA RemoveLeftoverKeeps ==
  ASSUME PhotoInv, NEW k \in PhotoKey, RemoveLeftover(k)
  PROVE  PhotoInv'
<1>1. PersonFaceTypeOK'
  BY DEF RemoveLeftover, PhotoInv, PersonFaceTypeOK
<1>2. ChangeIsOpen'
  BY InChangeIs DEF RemoveLeftover, Discard, PhotoInv, ChangeIsOpen, KeysApart, Held
<1>3. ReadIsOpen'
  BY PhotoKeysAre DEF RemoveLeftover, PhotoInv, ReadIsOpen
<1>4. OnePhoto'
  BY DEF RemoveLeftover, PhotoInv, OnePhoto
<1>5. KeysApart'
  BY PhotoKeysAre, InChangeIs DEF RemoveLeftover, PhotoInv, KeysApart
<1>6. PhotoIsThere'
  BY PhotoKeysAre DEF RemoveLeftover, Discard, PhotoInv, ReadIsOpen, KeysApart, PhotoIsThere
<1>7. PhotosAccountedFor'
  BY PhotoKeysAre, InChangeIs DEF RemoveLeftover, Discard, PhotoInv, PhotosAccountedFor
<1>8. QED
  BY <1>1, <1>2, <1>3, <1>4, <1>5, <1>6, <1>7 DEF PhotoInv

LEMMA FailToRemoveKeeps ==
  ASSUME PhotoInv, NEW k \in PhotoKey, FailToRemove(k)
  PROVE  PhotoInv'
<1>1. PersonFaceTypeOK'
  BY DEF FailToRemove, PhotoInv, PersonFaceTypeOK
<1>2. ChangeIsOpen'
  BY DEF FailToRemove, PhotoInv, ChangeIsOpen
<1>3. ReadIsOpen'
  BY PhotoKeysAre DEF FailToRemove, PhotoInv, ReadIsOpen
<1>4. OnePhoto'
  BY DEF FailToRemove, PhotoInv, OnePhoto
<1>5. KeysApart'
  BY PhotoKeysAre, InChangeIs DEF FailToRemove, PhotoInv, KeysApart
<1>6. PhotoIsThere'
  BY DEF FailToRemove, PhotoInv, PhotoIsThere
<1>7. PhotosAccountedFor'
  BY PhotoKeysAre, InChangeIs DEF FailToRemove, PhotoInv, PhotosAccountedFor
<1>8. QED
  BY <1>1, <1>2, <1>3, <1>4, <1>5, <1>6, <1>7 DEF PhotoInv

LEMMA StartReadKeeps ==
  ASSUME PhotoInv, NEW p \in Person, StartRead(p)
  PROVE  PhotoInv'
<1>1. PersonFaceTypeOK'
  BY DEF StartRead, PhotoInv, PersonFaceTypeOK
<1>2. ChangeIsOpen'
  BY DEF StartRead, Connection, ChangeIsOpen
<1>3. ReadIsOpen'
  BY PhotoKeysAre DEF StartRead, Connection, ReadIsOpen
<1>4. OnePhoto'
  BY DEF StartRead, PhotoInv, OnePhoto
<1>5. KeysApart'
  BY PhotoKeysAre, InChangeIs DEF StartRead, storeVars, PhotoInv, KeysApart
<1>6. PhotoIsThere'
  BY DEF StartRead, Connection, storeVars, PhotoInv, PhotoIsThere
<1>7. PhotosAccountedFor'
  BY PhotoKeysAre, InChangeIs DEF StartRead, storeVars, PhotoInv, PhotosAccountedFor
<1>8. QED
  BY <1>1, <1>2, <1>3, <1>4, <1>5, <1>6, <1>7 DEF PhotoInv

LEMMA EndReadKeeps ==
  ASSUME PhotoInv, EndRead
  PROVE  PhotoInv'
<1>1. PersonFaceTypeOK'
  BY DEF EndRead, PhotoInv, PersonFaceTypeOK
<1>2. ChangeIsOpen'
  BY DEF EndRead, storeVars, PhotoInv, ChangeIsOpen
<1>3. ReadIsOpen'
  BY DEF EndRead, ReadIsOpen
<1>4. OnePhoto'
  BY DEF EndRead, PhotoInv, OnePhoto
<1>5. KeysApart'
  BY PhotoKeysAre, InChangeIs DEF EndRead, storeVars, PhotoInv, KeysApart
<1>6. PhotoIsThere'
  BY DEF EndRead, storeVars, PhotoInv, PhotoIsThere
<1>7. PhotosAccountedFor'
  BY PhotoKeysAre, InChangeIs DEF EndRead, storeVars, PhotoInv, PhotosAccountedFor
<1>8. QED
  BY <1>1, <1>2, <1>3, <1>4, <1>5, <1>6, <1>7 DEF PhotoInv

LEMMA StartArchiveKeeps ==
  ASSUME PhotoInv, NEW p \in Person, StartArchive(p)
  PROVE  PhotoInv'
<1>1. PersonFaceTypeOK'
  BY DEF StartArchive, Change, PhotoInv, PersonFaceTypeOK
<1>2. ChangeIsOpen'
  BY DEF StartArchive, Discard, Held, ChangeIsOpen
<1>3. ReadIsOpen'
  BY DEF StartArchive, Connection, ReadIsOpen
<1>4. OnePhoto'
  BY DEF StartArchive, PhotoInv, OnePhoto
<1>5. KeysApart'
  BY PhotoKeysAre, InChangeIs DEF StartArchive, PhotoInv, KeysApart
<1>6. PhotoIsThere'
  BY KeyAssumption
     DEF StartArchive, Connection, Discard, Held, PhotoInv, PersonFaceTypeOK, OnePhoto,
         PhotoIsThere, Change
<1>7. PhotosAccountedFor'
  BY PhotoKeysAre, InChangeIs DEF StartArchive, Connection, Discard, PhotoInv, PhotosAccountedFor
<1>8. QED
  BY <1>1, <1>2, <1>3, <1>4, <1>5, <1>6, <1>7 DEF PhotoInv

LEMMA CommitArchiveKeeps ==
  ASSUME PhotoInv, CommitArchive
  PROVE  PhotoInv'
<1>1. PersonFaceTypeOK'
  BY DEF CommitArchive, PersonStatus, PhotoInv, PersonFaceTypeOK
<1>2. ChangeIsOpen'
  BY DEF CommitArchive, ChangeIsOpen
<1>3. ReadIsOpen'
  BY DEF CommitArchive, PhotoInv, ReadIsOpen
<1>4. OnePhoto'
  BY DEF CommitArchive, PhotoInv, OnePhoto
<1>5. KeysApart'
  BY PhotoKeysAre, InChangeIs DEF CommitArchive, storeVars, PhotoInv, KeysApart
<1>6. PhotoIsThere'
  BY DEF CommitArchive, storeVars, PhotoInv, PersonFaceTypeOK, ReadIsOpen, PhotoIsThere
<1>7. PhotosAccountedFor'
  BY PhotoKeysAre, InChangeIs
     DEF CommitArchive, storeVars, PhotoInv, ChangeIsOpen, PhotosAccountedFor, Held
<1>8. QED
  BY <1>1, <1>2, <1>3, <1>4, <1>5, <1>6, <1>7 DEF PhotoInv

LEMMA AbortArchiveKeeps ==
  ASSUME PhotoInv, AbortArchive
  PROVE  PhotoInv'
<1>1. PersonFaceTypeOK'
  BY DEF AbortArchive, CutShort, Change, PhotoInv, PersonFaceTypeOK
<1>2. ChangeIsOpen'
  BY DEF AbortArchive, ChangeIsOpen
<1>3. ReadIsOpen'
  BY DEF AbortArchive, PhotoInv, ReadIsOpen
<1>4. OnePhoto'
  BY DEF AbortArchive, PhotoInv, OnePhoto
<1>5. KeysApart'
  BY PhotoKeysAre, InChangeIs DEF AbortArchive, storeVars, PhotoInv, KeysApart
<1>6. PhotoIsThere'
  BY DEF AbortArchive, CutShort, storeVars, PhotoInv, PhotoIsThere
<1>7. PhotosAccountedFor'
  BY PhotoKeysAre, InChangeIs
     DEF AbortArchive, storeVars, PhotoInv, ChangeIsOpen, PhotosAccountedFor
<1>8. QED
  BY <1>1, <1>2, <1>3, <1>4, <1>5, <1>6, <1>7 DEF PhotoInv

LEMMA MovePersonKeeps ==
  ASSUME PhotoInv, NEW p \in Person, NEW status \in PersonStatus, MovePerson(p, status)
  PROVE  PhotoInv'
<1>1. PersonFaceTypeOK'
  BY DEF MovePerson, PhotoInv, PersonFaceTypeOK
<1>2. ChangeIsOpen'
  BY DEF MovePerson, Connection, ChangeIsOpen
<1>3. ReadIsOpen'
  BY DEF MovePerson, Connection, ReadIsOpen
<1>4. OnePhoto'
  BY DEF MovePerson, PhotoInv, OnePhoto
<1>5. KeysApart'
  BY PhotoKeysAre, InChangeIs DEF MovePerson, storeVars, PhotoInv, KeysApart
<1>6. PhotoIsThere'
  BY DEF MovePerson, storeVars, PhotoInv, PhotoIsThere
<1>7. PhotosAccountedFor'
  BY PhotoKeysAre, InChangeIs DEF MovePerson, storeVars, PhotoInv, PhotosAccountedFor
<1>8. QED
  BY <1>1, <1>2, <1>3, <1>4, <1>5, <1>6, <1>7 DEF PhotoInv

LEMMA CrashPersonFacesKeeps ==
  ASSUME PhotoInv, CrashPersonFaces
  PROVE  PhotoInv'
<1>1. PersonFaceTypeOK'
  BY DEF CrashPersonFaces, CutShort, Change, PhotoInv, PersonFaceTypeOK
<1>2. ChangeIsOpen'
  BY DEF CrashPersonFaces, ChangeIsOpen
<1>3. ReadIsOpen'
  BY DEF CrashPersonFaces, ReadIsOpen
<1>4. OnePhoto'
  BY DEF CrashPersonFaces, PhotoInv, OnePhoto
<1>5. KeysApart'
  BY PhotoKeysAre, InChangeIs DEF CrashPersonFaces, PhotoInv, KeysApart
<1>6. PhotoIsThere'
  BY DEF CrashPersonFaces, CutShort, PhotoInv, PhotoIsThere
<1>7. PhotosAccountedFor'
  BY PhotoKeysAre DEF CrashPersonFaces, PhotoInv, PhotosAccountedFor
<1>8. QED
  BY <1>1, <1>2, <1>3, <1>4, <1>5, <1>6, <1>7 DEF PhotoInv

\* What a step leaves of the files under the keys K.
Untouched(K) ==
  \A k \in K :
    /\ k \in blobs' <=> k \in blobs
    /\ k \in reported' <=> k \in reported
    /\ k \in purged' <=> k \in purged
    /\ k \in lost => k \in lost'

LEMMA UntouchedPhotos ==
  ASSUME PhotoInv, UNCHANGED personFaceVars, Untouched(PhotoKey)
  PROVE  PhotoInv'
<1>1. PersonFaceTypeOK' /\ ReadIsOpen' /\ OnePhoto'
  BY PhotoKeysAre DEF PhotoInv, personFaceVars, PersonFaceTypeOK, ReadIsOpen, OnePhoto
<1>2. ChangeIsOpen'
  BY <1>1 DEF PhotoInv, personFaceVars, PersonFaceTypeOK, ChangeIsOpen, Change, Held, Untouched
<1>3. KeysApart'
  BY <1>1, PhotoKeysAre, InChangeIs
     DEF PhotoInv, personFaceVars, PersonFaceTypeOK, KeysApart, Change, Untouched
<1>4. PhotoIsThere'
  BY <1>1 DEF PhotoInv, personFaceVars, PersonFaceTypeOK, PhotoIsThere, Untouched
<1>5. PhotosAccountedFor'
  BY PhotoKeysAre, InChangeIs DEF PhotoInv, personFaceVars, PhotosAccountedFor, Untouched
<1>6. QED
  BY <1>1, <1>2, <1>3, <1>4, <1>5 DEF PhotoInv

\* A key that was reported is named by no photo.
LEMMA PurgeKeepsPhotos ==
  ASSUME PhotoInv, NEW k, Purge(k), UNCHANGED personFaceVars
  PROVE  PhotoInv'
<1>1. PersonFaceTypeOK' /\ ReadIsOpen' /\ OnePhoto'
  BY PhotoKeysAre DEF PhotoInv, personFaceVars, PersonFaceTypeOK, ReadIsOpen, OnePhoto
<1>2. k \notin PhotoKeys \cup InChange
  BY DEF PhotoInv, KeysApart, Purge
<1>3. ChangeIsOpen'
  BY <1>2, InChangeIs DEF PhotoInv, personFaceVars, ChangeIsOpen, Held, Purge, Discard
<1>4. KeysApart'
  BY PhotoKeysAre, InChangeIs DEF PhotoInv, personFaceVars, KeysApart, Purge
<1>5. PhotoIsThere'
  BY <1>2, PhotoKeysAre DEF PhotoInv, personFaceVars, PhotoIsThere, Purge, Discard, ReadIsOpen
<1>6. PhotosAccountedFor'
  BY PhotoKeysAre, InChangeIs DEF PhotoInv, personFaceVars, PhotosAccountedFor, Purge, Discard
<1>7. QED
  BY <1>1, <1>3, <1>4, <1>5, <1>6 DEF PhotoInv

\* Every photo of an Owner that is deleted is among the keys returned.
LEMMA DeleteOwnerKeepsPhotos ==
  ASSUME PhotoInv, DeleteOwner
  PROVE  PhotoInv'
<1>1. change = None /\ reading = None /\ UNCHANGED <<change, leftovers, reading, blobs, lost>>
  BY DEF DeleteOwner, RemovePersonRows, Connection
<1>2. photos' = [p \in Person |-> None] /\ people' = [p \in Person |-> "none"] /\ cut' = {}
  BY DEF DeleteOwner, RemovePersonRows
<1>3. PhotoKeys \cup reported \subseteq reported'
  BY DEF DeleteOwner, OwnerKeys
<1>4. PersonFaceTypeOK'
  BY <1>1, <1>2 DEF PhotoInv, PersonFaceTypeOK, PersonStatus
<1>5. ChangeIsOpen' /\ ReadIsOpen' /\ OnePhoto' /\ KeysApart' /\ PhotoIsThere'
  BY <1>1, <1>2, PhotoKeysAre, InChangeIs
     DEF ChangeIsOpen, ReadIsOpen, OnePhoto, KeysApart, PhotoIsThere
<1>6. PhotosAccountedFor'
  BY <1>1, <1>3, InChangeIs DEF PhotoInv, PhotosAccountedFor
<1>7. QED
  BY <1>4, <1>5, <1>6 DEF PhotoInv

LEMMA PersonFaceStepKeeps ==
  ASSUME PhotoInv, PersonFaceStep
  PROVE  PhotoInv'
BY StartReplaceKeeps, StartDeleteKeeps, CommitChangeKeeps, AbortChangeKeeps, RemoveLeftoverKeeps,
   FailToRemoveKeeps, StartReadKeeps, EndReadKeeps, StartArchiveKeeps, CommitArchiveKeeps,
   AbortArchiveKeeps, MovePersonKeeps, CrashPersonFacesKeeps
   DEF PersonFaceStep

-----------------------------------------------------------------------------
(* Companion faces. *)

FaceKey == Picture \cup Clip

\* A request that has stored its picture finds it there.
StoredIsThere ==
  \A q \in Setter : setting[q].at = "stored" => setting[q].picture \in blobs \cup purged

PurgedIsGone == FaceKey \cap blobs \cap purged = {}

FaceInv ==
  /\ CompanionFaceTypeOK /\ StoredIsThere /\ PurgedIsGone
  /\ FaceIsThere /\ FacesAccountedFor

\* The key k is named by a version among those of rows.
Names(rows, k) == \E v \in DOMAIN rows : k = rows[v].key \/ (k = rows[v].clip /\ k # NoKey)

LEMMA FaceKeysAre ==
  ASSUME CompanionFaceTypeOK
  PROVE  /\ \A c \in Companion : \A k : k \in FaceKeys(c) <=> Names(faces[c], k)
         /\ \A k : k \in AllFaceKeys <=> \E c \in Companion : Names(faces[c], k)
<1>1. \A c \in Companion : faces[c] \in Seq(Face)
  BY DEF CompanionFaceTypeOK
<1>2. \A c \in Companion : \A v \in DOMAIN faces[c] : faces[c][v].key # NoKey
  <2>1. SUFFICES ASSUME NEW c \in Companion, NEW v \in DOMAIN faces[c]
                 PROVE  faces[c][v].key # NoKey
    OBVIOUS
  <2>2. faces[c][v] \in Face
    BY <1>1, LenProperties, ElementOfSeq
  <2>3. QED
    BY <2>2, KeyAssumption DEF Face
<1>3. \A c \in Companion : \A k : k \in FaceKeys(c) <=> Names(faces[c], k)
  BY <1>2 DEF FaceKeys, Versions, Names
<1>4. QED
  BY <1>3 DEF AllFaceKeys

LEMMA FaceKeysAreNext ==
  ASSUME CompanionFaceTypeOK'
  PROVE  /\ \A c \in Companion : \A k : k \in FaceKeys(c)' <=> Names(faces'[c], k)
         /\ \A k : k \in AllFaceKeys' <=> \E c \in Companion : Names(faces'[c], k)
<1>1. \A c \in Companion : faces'[c] \in Seq(Face)
  BY DEF CompanionFaceTypeOK
<1>2. \A c \in Companion : \A v \in DOMAIN faces'[c] : faces'[c][v].key # NoKey
  <2>1. SUFFICES ASSUME NEW c \in Companion, NEW v \in DOMAIN faces'[c]
                 PROVE  faces'[c][v].key # NoKey
    OBVIOUS
  <2>2. faces'[c][v] \in Face
    BY <1>1, LenProperties, ElementOfSeq
  <2>3. QED
    BY <2>2, KeyAssumption DEF Face
<1>3. \A c \in Companion : \A k : k \in FaceKeys(c)' <=> Names(faces'[c], k)
  BY <1>2 DEF FaceKeys, Versions, Names
<1>4. QED
  BY <1>3 DEF AllFaceKeys

LEMMA FaceKeysInFaceKey ==
  ASSUME CompanionFaceTypeOK
  PROVE  AllFaceKeys \subseteq FaceKey /\ \A c \in Companion : FaceKeys(c) \subseteq FaceKey
<1>1. ASSUME NEW c \in Companion, NEW v \in DOMAIN faces[c]
      PROVE  faces[c][v] \in Face
  BY LenProperties, ElementOfSeq DEF CompanionFaceTypeOK
<1>2. \A c \in Companion : FaceKeys(c) \subseteq FaceKey
  BY <1>1 DEF FaceKeys, Versions, FaceKey, Face
<1>3. QED
  BY <1>2 DEF AllFaceKeys

LEMMA InSettingIs ==
  \A k : k \in InSetting <=> \E q \in Setter : setting[q].at = "stored" /\ setting[q].picture = k
BY DEF InSetting, Stored
LEMMA InSettingIsNext ==
  \A k : k \in InSetting' <=> \E q \in Setter : setting'[q].at = "stored" /\ setting'[q].picture = k
BY DEF InSetting, Stored

LEMMA NextFacesAre ==
  ASSUME CompanionFaceTypeOK, NEW c \in Companion, NEW x \in Picture
  PROVE  /\ NextFaces(c, x) \in Seq(Face)
         /\ \A k : Names(NextFaces(c, x), k) <=> Names(faces[c], k) \/ k = x
<1> DEFINE rows == faces[c]
           old == Superseded(rows)
<1>1. rows \in Seq(Face)
  BY DEF CompanionFaceTypeOK
<1>2. /\ Len(rows) \in Nat /\ DOMAIN rows = 1..Len(rows)
      /\ \A v \in 1..Len(rows) : rows[v] \in Face
  BY <1>1
<1>3. /\ old \in [1..Len(rows) -> Face]
      /\ \A v \in DOMAIN rows : old[v].key = rows[v].key /\ old[v].clip = rows[v].clip
  BY <1>2 DEF Superseded, Face
<1>4. old \in Seq(Face) /\ Len(old) = Len(rows)
  BY <1>2, <1>3
<1>5. Worn(x) \in Face /\ Worn(x).key = x /\ Worn(x).clip = NoKey
  BY DEF Worn, Face
<1> HIDE DEF rows, old
<1>6. Append(old, Worn(x)) \in Seq(Face)
  BY <1>4, <1>5
<1>7. \A k : Names(Append(old, Worn(x)), k) <=> Names(rows, k) \/ k = x
  <2>1. DOMAIN Append(old, Worn(x)) = 1..Len(rows) + 1
    BY <1>4, <1>5
  <2>2. Append(old, Worn(x))[Len(rows) + 1] = Worn(x)
    BY <1>4, <1>5
  <2>3. \A v \in 1..Len(rows) : Append(old, Worn(x))[v] = old[v]
    BY <1>2, <1>4, <1>5
  <2>4. 1..Len(rows) + 1 = 1..Len(rows) \cup {Len(rows) + 1}
    BY <1>2
  <2>5. QED
    BY <1>2, <1>3, <1>5, <2>1, <2>2, <2>3, <2>4 DEF Names
<1>8. QED
  BY <1>6, <1>7 DEF NextFaces, rows, old

\* A step that leaves the faces and the requests alone, and what becomes of files.
LEMMA SameFacesHold ==
  ASSUME FaceInv, UNCHANGED <<faces, setting>>,
         companions' \in [Companion -> CompanionState], Untouched(FaceKey)
  PROVE  FaceInv'
<1>1. CompanionFaceTypeOK'
  BY DEF FaceInv, CompanionFaceTypeOK
<1>2. \A k : k \in AllFaceKeys' <=> k \in AllFaceKeys
  BY <1>1, FaceKeysAre, FaceKeysAreNext DEF FaceInv
<1>3. \A c \in Companion : FaceKeys(c)' = FaceKeys(c)
  BY DEF FaceKeys, Versions
<1>4. InSetting' = InSetting
  BY DEF InSetting, Stored
<1>5. AllFaceKeys \subseteq FaceKey /\ \A c \in Companion : FaceKeys(c) \subseteq FaceKey
  BY FaceKeysInFaceKey DEF FaceInv
<1>6. \A q \in Setter : setting[q].at = "stored" => setting[q].picture \in FaceKey
  BY DEF FaceInv, CompanionFaceTypeOK, SettingState, Idle, FaceKey
<1>7. StoredIsThere' /\ PurgedIsGone'
  BY <1>6 DEF FaceInv, StoredIsThere, PurgedIsGone, Untouched
<1>8. FaceIsThere'
  BY <1>3, <1>5 DEF FaceInv, FaceIsThere, Untouched
<1>9. FacesAccountedFor'
  BY <1>2, <1>4 DEF FaceInv, FacesAccountedFor, Untouched, FaceKey
<1>10. QED
  BY <1>1, <1>7, <1>8, <1>9 DEF FaceInv

LEMMA CheckCompanionKeeps ==
  ASSUME FaceInv, NEW q \in Setter, NEW c \in Companion, NEW x \in Picture, CheckCompanion(q, c, x)
  PROVE  FaceInv'
<1>1. setting[q] = Idle /\ UNCHANGED <<storeVars, companions, faces>>
  BY DEF CheckCompanion
<1>2. setting' = [setting EXCEPT ![q] = [at |-> "checked", companion |-> c, picture |-> x]]
  BY DEF CheckCompanion
<1>3. \A r \in Setter : setting'[r].at = "stored" <=> setting[r].at = "stored"
  BY <1>1, <1>2 DEF FaceInv, CompanionFaceTypeOK, Idle
<1>4. \A r \in Setter : setting[r].at = "stored" => setting'[r] = setting[r]
  BY <1>1, <1>2 DEF FaceInv, CompanionFaceTypeOK, Idle
<1>5. CompanionFaceTypeOK'
  BY <1>1, <1>2 DEF FaceInv, CompanionFaceTypeOK, SettingState
<1>6. \A k : k \in InSetting' <=> k \in InSetting
  BY <1>3, <1>4, InSettingIs, InSettingIsNext
<1>7. AllFaceKeys' = AllFaceKeys /\ \A d \in Companion : FaceKeys(d)' = FaceKeys(d)
  BY <1>1 DEF AllFaceKeys, FaceKeys, Versions
<1>8. QED
  BY <1>1, <1>3, <1>4, <1>5, <1>6, <1>7
     DEF FaceInv, StoredIsThere, PurgedIsGone, FaceIsThere, FacesAccountedFor, storeVars

LEMMA StorePictureKeeps ==
  ASSUME FaceInv, NEW q \in Setter, StorePicture(q)
  PROVE  FaceInv'
<1> DEFINE x == setting[q].picture
<1>1. x \in Picture /\ setting[q] \in [at : {"checked", "stored"}, companion : Companion, picture : Picture]
  BY DEF FaceInv, CompanionFaceTypeOK, StorePicture, SettingState, Idle
<1>2. /\ blobs' = blobs \cup {x} /\ purged' = purged \ {x} /\ lost' = lost \ {x}
      /\ UNCHANGED <<owner, reported, companions, faces>>
  BY DEF StorePicture, Put
<1>3. setting' = [setting EXCEPT ![q] = [setting[q] EXCEPT !.at = "stored"]]
  BY DEF StorePicture, FaceInv, CompanionFaceTypeOK
<1> HIDE DEF x
<1>4. setting'[q].at = "stored" /\ setting'[q].picture = x
  BY <1>1, <1>3 DEF x, FaceInv, CompanionFaceTypeOK
<1>5. \A r \in Setter \ {q} : setting'[r] = setting[r]
  BY <1>3 DEF FaceInv, CompanionFaceTypeOK
<1>6. CompanionFaceTypeOK'
  BY <1>1, <1>2, <1>3 DEF FaceInv, CompanionFaceTypeOK, SettingState
<1>7. \A k : k \in InSetting => k \in InSetting'
  <2>1. setting[q].at # "stored"
    BY DEF StorePicture
  <2>2. QED
    BY <2>1, <1>5, InSettingIs, InSettingIsNext
<1>8. x \in InSetting'
  BY <1>4, InSettingIsNext
<1>9. AllFaceKeys' = AllFaceKeys /\ \A d \in Companion : FaceKeys(d)' = FaceKeys(d)
  BY <1>2 DEF AllFaceKeys, FaceKeys, Versions
<1>10. StoredIsThere'
  BY <1>2, <1>4, <1>5 DEF FaceInv, StoredIsThere
<1>11. PurgedIsGone' /\ FaceIsThere' /\ FacesAccountedFor'
  BY <1>2, <1>7, <1>8, <1>9 DEF FaceInv, PurgedIsGone, FaceIsThere, FacesAccountedFor
<1>12. QED
  BY <1>6, <1>10, <1>11 DEF FaceInv

\* A request that ends.
LEMMA SettingEnds ==
  ASSUME CompanionFaceTypeOK, NEW q \in Setter, setting' = [setting EXCEPT ![q] = Idle]
  PROVE  /\ setting' \in [Setter -> SettingState]
         /\ \A r \in Setter : setting'[r].at = "stored" <=> r # q /\ setting[r].at = "stored"
         /\ \A r \in Setter \ {q} : setting'[r] = setting[r]
BY DEF CompanionFaceTypeOK, SettingState, Idle

LEMMA SetFaceKeeps ==
  ASSUME FaceInv, NEW q \in Setter, SetFace(q)
  PROVE  FaceInv'
<1> DEFINE c == setting[q].companion
           x == setting[q].picture
<1>1. c \in Companion /\ x \in Picture /\ setting[q].at = "stored"
  BY DEF FaceInv, CompanionFaceTypeOK, SetFace, SettingState, Idle
<1>2. /\ faces' = [faces EXCEPT ![c] = NextFaces(c, x)]
      /\ setting' = [setting EXCEPT ![q] = Idle]
      /\ UNCHANGED <<storeVars, companions>>
  BY DEF SetFace
<1>3. x \in blobs \cup purged
  BY <1>1 DEF FaceInv, StoredIsThere
<1>4. \A k : k \in InSetting => k \in InSetting' \/ k = x
  BY <1>2, SettingEnds, InSettingIs, InSettingIsNext DEF FaceInv
<1> HIDE DEF c, x
<1>5. CompanionFaceTypeOK'
  BY <1>1, <1>2, SettingEnds, NextFacesAre DEF FaceInv, CompanionFaceTypeOK
<1>6. \A d \in Companion : \A k :
        k \in FaceKeys(d)' <=> k \in FaceKeys(d) \/ (d = c /\ k = x)
  BY <1>1, <1>2, <1>5, NextFacesAre, FaceKeysAre, FaceKeysAreNext DEF FaceInv, CompanionFaceTypeOK
<1>7. \A k : k \in AllFaceKeys' <=> k \in AllFaceKeys \/ k = x
  BY <1>1, <1>6 DEF AllFaceKeys
<1>8. StoredIsThere' /\ PurgedIsGone'
  BY <1>2, SettingEnds DEF FaceInv, StoredIsThere, PurgedIsGone, storeVars
<1>9. FaceIsThere'
  BY <1>2, <1>3, <1>6 DEF FaceInv, FaceIsThere, storeVars
<1>10. FacesAccountedFor'
  BY <1>2, <1>4, <1>7 DEF FaceInv, FacesAccountedFor, storeVars
<1>11. QED
  BY <1>5, <1>8, <1>9, <1>10 DEF FaceInv

\* What a request leaves behind is lost unless somebody knows the file.
LEMMA LeavingKeeps ==
  ASSUME FaceInv, NEW q \in Setter, setting[q].at = "stored", Leave(q),
         setting' = [setting EXCEPT ![q] = Idle],
         UNCHANGED <<owner, blobs, reported, purged, companions, faces>>
  PROVE  FaceInv'
<1> DEFINE x == setting[q].picture
<1>1. CompanionFaceTypeOK' /\ StoredIsThere' /\ PurgedIsGone'
  BY SettingEnds DEF FaceInv, CompanionFaceTypeOK, StoredIsThere, PurgedIsGone
<1>2. AllFaceKeys' = AllFaceKeys /\ \A d \in Companion : FaceKeys(d)' = FaceKeys(d)
  BY DEF AllFaceKeys, FaceKeys, Versions
<1>3. FaceIsThere'
  BY <1>2 DEF FaceInv, FaceIsThere
<1>4. Stored(Setter \ {q}) \subseteq InSetting'
  BY SettingEnds, InSettingIsNext DEF FaceInv, Stored
<1>5. InSetting \subseteq InSetting' \cup {x}
  BY SettingEnds, InSettingIs, InSettingIsNext DEF FaceInv
<1>6. x \in lost' \cup AllFaceKeys \cup reported \cup purged \cup InSetting'
  BY <1>4 DEF Leave
<1>7. lost \subseteq lost'
  BY DEF Leave
<1>8. FacesAccountedFor'
  BY <1>2, <1>5, <1>6, <1>7 DEF FaceInv, FacesAccountedFor, PurgedIsGone, FaceKey
<1>9. QED
  BY <1>1, <1>3, <1>8 DEF FaceInv

LEMMA ClearFaceKeeps ==
  ASSUME FaceInv, NEW c \in Companion, ClearFace(c)
  PROVE  FaceInv'
<1> DEFINE rows == faces[c]
           old == Superseded(rows)
<1>1. /\ Len(rows) \in Nat /\ DOMAIN rows = 1..Len(rows)
      /\ \A v \in 1..Len(rows) : rows[v] \in Face
  BY LenProperties, ElementOfSeq DEF FaceInv, CompanionFaceTypeOK
<1>2. /\ old \in [1..Len(rows) -> Face]
      /\ \A v \in DOMAIN rows : old[v].key = rows[v].key /\ old[v].clip = rows[v].clip
  BY <1>1 DEF Superseded, Face
<1>3. old \in Seq(Face)
  BY <1>1, <1>2
<1>4. \A k : Names(old, k) <=> Names(rows, k)
  BY <1>1, <1>2 DEF Names
<1>5. faces' = [faces EXCEPT ![c] = old] /\ UNCHANGED <<storeVars, companions, setting>>
  BY DEF ClearFace
<1> HIDE DEF old
<1>6. CompanionFaceTypeOK'
  BY <1>3, <1>5 DEF FaceInv, CompanionFaceTypeOK
<1>7. \A d \in Companion : \A k : k \in FaceKeys(d)' <=> k \in FaceKeys(d)
  BY <1>4, <1>5, <1>6, FaceKeysAre, FaceKeysAreNext DEF FaceInv, CompanionFaceTypeOK
<1>8. \A k : k \in AllFaceKeys' <=> k \in AllFaceKeys
  BY <1>7 DEF AllFaceKeys
<1>9. InSetting' = InSetting
  BY <1>5 DEF InSetting, Stored
<1>10. QED
  BY <1>5, <1>6, <1>7, <1>8, <1>9
     DEF FaceInv, StoredIsThere, PurgedIsGone, FaceIsThere, FacesAccountedFor, storeVars

LEMMA SetIdleClipKeeps ==
  ASSUME FaceInv, NEW c \in Companion, NEW v, NEW k \in Clip, SetIdleClip(c, v, k)
  PROVE  FaceInv'
<1> DEFINE rows == faces[c]
           before == rows[v].clip
           new == [rows EXCEPT ![v].clip = k]
<1>1. rows \in Seq(Face) /\ v \in 1..Len(rows) /\ DOMAIN rows = 1..Len(rows) /\ Len(rows) \in Nat
  BY LenProperties DEF FaceInv, CompanionFaceTypeOK, SetIdleClip, Versions
<1>2. rows[v] \in Face
  BY <1>1, ElementOfSeq
<1>3. [rows[v] EXCEPT !.clip = k] \in Face
  BY <1>2 DEF Face
<1>4. new = [rows EXCEPT ![v] = [rows[v] EXCEPT !.clip = k]]
  BY <1>1
<1>5. new \in Seq(Face)
  BY <1>1, <1>3, <1>4, ExceptSeq
<1>6. /\ faces' = [faces EXCEPT ![c] = new]
      /\ blobs' = blobs \cup {k} /\ purged' = purged \ {k}
      /\ lost' = (lost \ {k}) \cup ({before} \ {NoKey})
      /\ UNCHANGED <<owner, reported, companions, setting>>
  BY <1>1 DEF SetIdleClip, FaceInv, CompanionFaceTypeOK
<1>7. new[v].clip = k /\ new[v].key = rows[v].key
  BY <1>1, <1>2, <1>4 DEF Face
<1>8. \A w \in DOMAIN rows \ {v} : new[w] = rows[w]
  BY <1>1, <1>4
<1>9. DOMAIN new = DOMAIN rows
  BY <1>4
<1> HIDE DEF new, before
<1>10. k # NoKey
  BY KeyAssumption
<1>11. \A j : Names(new, j) => Names(rows, j) \/ j = k
  BY <1>7, <1>8, <1>9 DEF Names
<1>12. \A j : Names(rows, j) => Names(new, j) \/ (j = before /\ j # NoKey)
  BY <1>7, <1>8, <1>9 DEF Names, before
<1>13. Names(new, k)
  BY <1>1, <1>7, <1>9, <1>10 DEF Names
<1>14. CompanionFaceTypeOK'
  BY <1>5, <1>6 DEF FaceInv, CompanionFaceTypeOK
<1>15. \A d \in Companion : \A j : j \in FaceKeys(d)' => j \in FaceKeys(d) \/ j = k
  BY <1>6, <1>11, <1>14, FaceKeysAre, FaceKeysAreNext DEF FaceInv, CompanionFaceTypeOK
<1>16. \A j : j \in AllFaceKeys => j \in AllFaceKeys' \/ (j = before /\ j # NoKey)
  BY <1>6, <1>12, <1>14, FaceKeysAre, FaceKeysAreNext DEF FaceInv, CompanionFaceTypeOK
<1>17. k \in AllFaceKeys'
  BY <1>6, <1>13, <1>14, FaceKeysAreNext DEF FaceInv, CompanionFaceTypeOK
<1>18. StoredIsThere' /\ PurgedIsGone' /\ FaceIsThere'
  BY <1>6, <1>15 DEF FaceInv, StoredIsThere, PurgedIsGone, FaceIsThere
<1>19. InSetting' = InSetting
  BY <1>6 DEF InSetting, Stored
<1>20. FacesAccountedFor'
  BY <1>6, <1>16, <1>17, <1>19 DEF FaceInv, FacesAccountedFor
<1>21. QED
  BY <1>14, <1>18, <1>20 DEF FaceInv

\* The keys of the Companions that go are reported.
LEMMA DeleteFacesKeeps ==
  ASSUME FaceInv, NEW C \in SUBSET Companion, DeleteFaces(C),
         UNCHANGED <<blobs, purged, lost>>, reported \subseteq reported',
         \A c \in C : FaceKeys(c) \subseteq reported'
  PROVE  FaceInv'
<1>1. faces' = [c \in Companion |-> IF c \in C THEN <<>> ELSE faces[c]] /\ UNCHANGED setting
  BY DEF DeleteFaces
<1>2. CompanionFaceTypeOK'
  BY DEF FaceInv, CompanionFaceTypeOK, DeleteFaces, CompanionState
<1>3. \A c \in Companion \ C : FaceKeys(c)' = FaceKeys(c)
  BY <1>1 DEF FaceKeys, Versions
<1>4. \A c \in C : FaceKeys(c)' = {}
  BY <1>1 DEF FaceKeys, Versions
<1>5. \A k : k \in AllFaceKeys => k \in AllFaceKeys' \cup reported'
  BY <1>3 DEF AllFaceKeys
<1>6. InSetting' = InSetting
  BY <1>1 DEF InSetting, Stored
<1>7. StoredIsThere' /\ PurgedIsGone' /\ FaceIsThere'
  BY <1>1, <1>3, <1>4 DEF FaceInv, StoredIsThere, PurgedIsGone, FaceIsThere
<1>8. FacesAccountedFor'
  BY <1>5, <1>6 DEF FaceInv, FacesAccountedFor
<1>9. QED
  BY <1>2, <1>7, <1>8 DEF FaceInv

LEMMA PurgeKeepsFaces ==
  ASSUME FaceInv, NEW k, Purge(k), UNCHANGED companionFaceVars
  PROVE  FaceInv'
<1>1. AllFaceKeys' = AllFaceKeys /\ InSetting' = InSetting
  BY DEF companionFaceVars, AllFaceKeys, FaceKeys, Versions, InSetting, Stored
<1>2. \A c \in Companion : FaceKeys(c)' = FaceKeys(c)
  BY DEF companionFaceVars, FaceKeys, Versions
<1>3. CompanionFaceTypeOK'
  BY DEF companionFaceVars, FaceInv, CompanionFaceTypeOK
<1>4. StoredIsThere' /\ PurgedIsGone'
  BY DEF companionFaceVars, FaceInv, StoredIsThere, PurgedIsGone, Purge, Discard
<1>5. FaceIsThere'
  BY <1>2 DEF FaceInv, FaceIsThere, Purge, Discard
<1>6. FacesAccountedFor'
  BY <1>1 DEF FaceInv, FacesAccountedFor, Purge, Discard
<1>7. QED
  BY <1>3, <1>4, <1>5, <1>6 DEF FaceInv

LEMMA CompanionFaceStepKeeps ==
  ASSUME FaceInv, CompanionFaceStep
  PROVE  FaceInv'
<1>1. ASSUME NEW q \in Setter, RefuseFace(q) \/ AbandonFace(q)
      PROVE  FaceInv'
  BY <1>1, LeavingKeeps DEF RefuseFace, AbandonFace
<1>2. ASSUME NEW c \in Companion, NEW state, MoveCompanion(c, state)
      PROVE  FaceInv'
  <2>1. companions' \in [Companion -> CompanionState] /\ UNCHANGED <<faces, setting>>
    BY <1>2 DEF MoveCompanion, FaceInv, CompanionFaceTypeOK, CompanionState
  <2>2. Untouched(FaceKey)
    BY <1>2 DEF MoveCompanion, storeVars, Untouched
  <2>3. QED
    BY <2>1, <2>2, SameFacesHold
<1>3. ASSUME NEW c \in Companion, DeleteCompanion(c)
      PROVE  FaceInv'
  BY <1>3, DeleteFacesKeeps DEF DeleteCompanion, KeysOf
<1>4. QED
  BY <1>1, <1>2, <1>3, CheckCompanionKeeps, StorePictureKeeps, SetFaceKeeps, ClearFaceKeeps, SetIdleClipKeeps
     DEF CompanionFaceStep

-----------------------------------------------------------------------------
(* The kinds of files do not touch one another. *)

LEMMA PersonFaceStepElsewhere ==
  ASSUME PhotoInv, PersonFaceStep
  PROVE  Untouched(FaceKey)
<1>1. \A k \in FaceKey : k \notin PhotoKey
  BY KeyAssumption DEF FaceKey
<1>2. /\ \A p \in Person : Held(photos[p]) \subseteq PhotoKey
      /\ InChange \subseteq PhotoKey /\ leftovers \subseteq PhotoKey
  BY InChangeIs DEF PhotoInv, PersonFaceTypeOK, Held, Change
<1>3. ASSUME NEW p \in Person, NEW k \in PhotoKey, StartReplace(p, k)
      PROVE  Untouched(FaceKey)
  BY <1>1, <1>3 DEF StartReplace, Put, Untouched
<1>4. ASSUME NEW p \in Person, StartDelete(p) \/ StartRead(p) \/ \E status : MovePerson(p, status)
      PROVE  Untouched(FaceKey)
  BY <1>4 DEF StartDelete, StartRead, MovePerson, storeVars, Untouched
<1>5. ASSUME NEW p \in Person, StartArchive(p)
      PROVE  Untouched(FaceKey)
  BY <1>1, <1>2, <1>5 DEF StartArchive, Discard, Untouched
<1>6. ASSUME CommitChange \/ AbortChange \/ CommitArchive \/ AbortArchive \/ EndRead
      PROVE  Untouched(FaceKey)
  BY <1>6 DEF CommitChange, AbortChange, CommitArchive, AbortArchive, EndRead, storeVars, Untouched
<1>7. ASSUME CrashPersonFaces
      PROVE  Untouched(FaceKey)
  BY <1>7 DEF CrashPersonFaces, Untouched
<1>8. ASSUME NEW k \in PhotoKey, RemoveLeftover(k) \/ FailToRemove(k)
      PROVE  Untouched(FaceKey)
  BY <1>1, <1>8 DEF RemoveLeftover, FailToRemove, Discard, Untouched
<1>9. QED
  BY <1>3, <1>4, <1>5, <1>6, <1>7, <1>8 DEF PersonFaceStep

LEMMA CompanionFaceStepElsewhere ==
  ASSUME FaceInv, CompanionFaceStep
  PROVE  Untouched(PhotoKey)
<1>1. \A k \in PhotoKey : k \notin FaceKey
  BY KeyAssumption DEF FaceKey
<1>2. \A c \in Companion : FaceKeys(c) \subseteq FaceKey
  BY FaceKeysInFaceKey DEF FaceInv
<1>3. \A q \in Setter : setting[q].at # "idle" => setting[q].picture \in FaceKey
  BY DEF FaceInv, CompanionFaceTypeOK, SettingState, Idle, FaceKey
<1>4. ASSUME NEW q \in Setter, StorePicture(q)
      PROVE  Untouched(PhotoKey)
  BY <1>1, <1>3, <1>4 DEF StorePicture, Put, Untouched
<1>5. ASSUME NEW q \in Setter, (\E c, x : CheckCompanion(q, c, x)) \/ SetFace(q)
      PROVE  Untouched(PhotoKey)
  BY <1>5 DEF CheckCompanion, SetFace, storeVars, Untouched
<1>6. ASSUME NEW q \in Setter, RefuseFace(q) \/ AbandonFace(q)
      PROVE  Untouched(PhotoKey)
  BY <1>6 DEF RefuseFace, AbandonFace, Leave, Untouched
<1>7. ASSUME NEW c \in Companion, ClearFace(c) \/ \E state : MoveCompanion(c, state)
      PROVE  Untouched(PhotoKey)
  BY <1>7 DEF ClearFace, MoveCompanion, storeVars, Untouched
<1>8. ASSUME NEW c \in Companion, DeleteCompanion(c)
      PROVE  Untouched(PhotoKey)
  BY <1>1, <1>2, <1>8 DEF DeleteCompanion, KeysOf, Untouched
<1>9. ASSUME NEW c \in Companion, NEW v, NEW k \in Clip, SetIdleClip(c, v, k)
      PROVE  Untouched(PhotoKey)
  BY <1>1, <1>9 DEF SetIdleClip, FaceKey, Untouched
<1>10. QED
  BY <1>4, <1>5, <1>6, <1>7, <1>8, <1>9 DEF CompanionFaceStep

-----------------------------------------------------------------------------
(* The face profile of the Owner. *)

\* One command has the connection, and what it has read is still so.
WorkingKnows ==
  /\ \A x, y \in working : x = y
  /\ \A x \in working :
       IF x.op = "activate"
         THEN /\ x.revision \in DOMAIN profile
              /\ profile[x.revision].state = "draft"
              /\ ~profile[x.revision].cleared
              /\ Complete(profile[x.revision].poses)
         ELSE x.revision <= MaxRevisions

DraftsAreNotCleared ==
  \A n \in DOMAIN profile : profile[n].state = "draft" => ~profile[n].cleared

OneDesired == \A m, n \in Desired : m = n
DesiredComplete == \A n \in Desired : profile[n].cleared \/ Complete(profile[n].poses)

ProfileInv ==
  /\ OwnerFaceTypeOK /\ WorkingKnows /\ DraftsAreNotCleared
  /\ OneDesired /\ DesiredComplete /\ ClearingStands

\* What every command keeps is about rows; these are the rows of a profile.
RowsInv(rows) ==
  /\ rows \in Seq(Revision) /\ Len(rows) <= MaxRevisions
  /\ \A n \in DOMAIN rows : rows[n].state = "draft" => ~rows[n].cleared
  /\ \A m, n \in DOMAIN rows : rows[m].state = "desired" /\ rows[n].state = "desired" => m = n
  /\ \A n \in DOMAIN rows :
       rows[n].state = "desired" => rows[n].cleared \/ Complete(rows[n].poses)
  /\ \A m, n \in DOMAIN rows : rows[n].cleared /\ m < n => rows[m].state = "superseded"

LEMMA RowsInvIsIt ==
  /\ ProfileInv <=> RowsInv(profile) /\ working \subseteq Command /\ WorkingKnows
  /\ ProfileInv' <=> RowsInv(profile') /\ working' \subseteq Command /\ WorkingKnows'
BY DEF ProfileInv, RowsInv, OwnerFaceTypeOK, DraftsAreNotCleared, OneDesired, DesiredComplete,
       ClearingStands, Desired

LEMMA RowsOf ==
  ASSUME NEW rows \in Seq(Revision)
  PROVE  /\ Len(rows) \in Nat /\ DOMAIN rows = 1..Len(rows)
         /\ \A n \in 1..Len(rows) : rows[n] \in Revision
BY LenProperties, ElementOfSeq

\* A command that only ends, or only begins.
LEMMA SameProfileHolds ==
  ASSUME ProfileInv, UNCHANGED profile, working' \subseteq Command, WorkingKnows'
  PROVE  ProfileInv'
BY RowsInvIsIt

LEMMA GiveUpKeeps ==
  ASSUME ProfileInv, NEW command \in working, GiveUp(command)
  PROVE  ProfileInv'
<1>1. UNCHANGED profile /\ working' \subseteq working
  BY DEF GiveUp, End
<1>2. working' \subseteq Command /\ WorkingKnows'
  BY <1>1 DEF ProfileInv, OwnerFaceTypeOK, WorkingKnows
<1>3. QED
  BY <1>1, <1>2, SameProfileHolds

LEMMA BeginKeeps ==
  ASSUME ProfileInv, BeginDraft \/ BeginClear \/ \E n \in 1..MaxRevisions : BeginActivate(n)
  PROVE  ProfileInv'
<1>1. profile \in Seq(Revision) /\ Len(profile) \in Nat /\ DOMAIN profile = 1..Len(profile)
  BY RowsOf DEF ProfileInv, OwnerFaceTypeOK
<1>2. ASSUME NEW op \in {"draft", "clear"}, Len(profile) < MaxRevisions, Begin(op, Len(profile) + 1)
      PROVE  ProfileInv'
  <2>1. UNCHANGED profile /\ working' = {[op |-> op, revision |-> Len(profile) + 1]}
    BY <1>2 DEF Begin, FreeConnection
  <2>2. working' \subseteq Command /\ WorkingKnows'
    BY <1>1, <1>2, <2>1, PoseAssumption DEF Command, WorkingKnows
  <2>3. QED
    BY <2>1, <2>2, SameProfileHolds
<1>3. ASSUME NEW n \in 1..MaxRevisions, BeginActivate(n)
      PROVE  ProfileInv'
  <2>1. UNCHANGED profile /\ working' = {[op |-> "activate", revision |-> n]}
    BY <1>3 DEF BeginActivate, Begin, FreeConnection
  <2>2. n \in DOMAIN profile /\ profile[n].state = "draft" /\ Complete(profile[n].poses)
    BY <1>3 DEF BeginActivate
  <2>3. ~profile[n].cleared
    BY <2>2 DEF ProfileInv, DraftsAreNotCleared
  <2>4. working' \subseteq Command
    BY <2>1, PoseAssumption DEF Command
  <2>5. WorkingKnows'
    BY <2>1, <2>2, <2>3 DEF WorkingKnows, Complete
  <2>6. QED
    BY <2>1, <2>4, <2>5, SameProfileHolds
<1>4. QED
  BY <1>2, <1>3 DEF BeginDraft, BeginClear

\* Rows some of which are superseded.
LEMMA SupersedeKeeps ==
  ASSUME ProfileInv, NEW states
  PROVE  /\ Supersede(states) \in Seq(Revision) /\ Len(Supersede(states)) = Len(profile)
         /\ \A n \in DOMAIN profile :
              /\ Supersede(states)[n].cleared = profile[n].cleared
              /\ Supersede(states)[n].poses = profile[n].poses
              /\ Supersede(states)[n].state =
                   IF profile[n].state \in states THEN "superseded" ELSE profile[n].state
<1>1. /\ Len(profile) \in Nat /\ DOMAIN profile = 1..Len(profile)
      /\ \A n \in 1..Len(profile) : profile[n] \in Revision
  BY RowsOf DEF ProfileInv, OwnerFaceTypeOK
<1>2. \A n \in 1..Len(profile) :
        /\ [profile[n] EXCEPT !.state = "superseded"] \in Revision
        /\ [profile[n] EXCEPT !.state = "superseded"].state = "superseded"
        /\ [profile[n] EXCEPT !.state = "superseded"].cleared = profile[n].cleared
        /\ [profile[n] EXCEPT !.state = "superseded"].poses = profile[n].poses
  BY <1>1 DEF Revision
<1>3. Supersede(states) \in [1..Len(profile) -> Revision]
  BY <1>1, <1>2 DEF Supersede
<1>4. Supersede(states) \in Seq(Revision) /\ Len(Supersede(states)) = Len(profile)
  BY <1>1, <1>3
<1>5. QED
  BY <1>1, <1>2, <1>4 DEF Supersede

\* The new row of a draft or of a clearing, behind rows it supersedes.
LEMMA AddKeeps ==
  ASSUME ProfileInv, NEW command \in working, command.op # "activate", NEW states, NEW row,
         Add(command, states, row),
         \/ states = {"draft"} /\ row = Draft
         \/ states = {"draft", "desired"} /\ row = Cleared
  PROVE  ProfileInv'
<1> DEFINE old == Supersede(states)
           rows == Append(old, row)
           N == Len(profile)
<1>1. /\ N \in Nat /\ DOMAIN profile = 1..N
      /\ \A n \in 1..N : profile[n] \in Revision
  BY RowsOf DEF ProfileInv, OwnerFaceTypeOK
<1>2. working' = {}
  BY DEF Add, End, ProfileInv, WorkingKnows
<1>3. working' \subseteq Command /\ WorkingKnows'
  BY <1>2 DEF WorkingKnows
<1>4. CASE command.revision # Len(profile) + 1
  BY <1>3, <1>4, SameProfileHolds DEF Add
<1>5. CASE command.revision = Len(profile) + 1
  <2>1. profile' = rows
    BY <1>5 DEF Add
  <2>2. /\ old \in Seq(Revision) /\ Len(old) = N
        /\ \A n \in 1..N :
              /\ old[n].cleared = profile[n].cleared
              /\ old[n].poses = profile[n].poses
              /\ old[n].state = IF profile[n].state \in states THEN "superseded" ELSE profile[n].state
    BY <1>1, SupersedeKeeps
  <2>3. row \in Revision
    <3>1. Draft \in Revision /\ Cleared \in Revision
      BY DEF Draft, Cleared, Revision
    <3>2. QED
      BY <3>1
  <2> HIDE DEF old
  <2>4. rows \in Seq(Revision) /\ Len(rows) = N + 1 /\ DOMAIN rows = 1..N + 1
    BY <1>1, <2>2, <2>3
  <2>5. rows[N + 1] = row /\ \A n \in 1..N : rows[n] = old[n]
    BY <1>1, <2>2, <2>3
  <2>6. N + 1 <= MaxRevisions
    BY <1>5 DEF ProfileInv, WorkingKnows
  <2> HIDE DEF rows, N
  <2>7. 1..N + 1 = 1..N \cup {N + 1} /\ \A n \in 1..N : n < N + 1 /\ n # N + 1
    BY <1>1
  <2>8. /\ \A n \in 1..N : profile[n].state \in {"draft", "desired", "superseded"}
        /\ \A n \in 1..N : profile[n].state = "draft" => ~profile[n].cleared
        /\ \A m, n \in 1..N : profile[m].state = "desired" /\ profile[n].state = "desired" => m = n
        /\ \A n \in 1..N :
             profile[n].state = "desired" => profile[n].cleared \/ Complete(profile[n].poses)
        /\ \A m, n \in 1..N : profile[n].cleared /\ m < n => profile[m].state = "superseded"
    BY <1>1, RowsInvIsIt DEF RowsInv, Revision
  <2>9. \A n \in 1..N : rows[n].state # "draft"
    BY <2>2, <2>5, <2>8
  <2>10. \/ row.state = "draft" /\ ~row.cleared
         \/ /\ row.state = "desired" /\ row.cleared
            /\ \A n \in 1..N : rows[n].state = "superseded"
    BY <2>2, <2>5, <2>8 DEF Draft, Cleared
  <2>11. \A m, n \in 1..N + 1 : rows[n].cleared /\ m < n => rows[m].state = "superseded"
    BY <1>1, <2>2, <2>5, <2>7, <2>8, <2>10
  <2>12. \A m, n \in 1..N + 1 : rows[m].state = "desired" /\ rows[n].state = "desired" => m = n
    BY <2>2, <2>5, <2>7, <2>8, <2>10
  <2>13. \A n \in 1..N + 1 : rows[n].state = "desired" => rows[n].cleared \/ Complete(rows[n].poses)
    BY <2>2, <2>5, <2>7, <2>8, <2>10
  <2>14. \A n \in 1..N + 1 : rows[n].state = "draft" => ~rows[n].cleared
    BY <2>5, <2>7, <2>9, <2>10
  <2>15. RowsInv(rows)
    BY <2>4, <2>6, <2>11, <2>12, <2>13, <2>14 DEF RowsInv
  <2>16. QED
    BY <1>3, <2>1, <2>15, RowsInvIsIt
<1>6. QED
  BY <1>4, <1>5

LEMMA FinishActivateKeeps ==
  ASSUME ProfileInv, NEW command \in working, FinishActivate(command)
  PROVE  ProfileInv'
<1> DEFINE old == Supersede({"desired"})
           k == command.revision
           rows == [old EXCEPT ![k] = [old[k] EXCEPT !.state = "desired"]]
           N == Len(profile)
<1>1. /\ N \in Nat /\ DOMAIN profile = 1..N
      /\ \A n \in 1..N : profile[n] \in Revision
  BY RowsOf DEF ProfileInv, OwnerFaceTypeOK
<1>2. working' = {}
  BY DEF FinishActivate, End, ProfileInv, WorkingKnows
<1>3. working' \subseteq Command /\ WorkingKnows'
  BY <1>2 DEF WorkingKnows
<1>4. /\ k \in 1..N /\ profile[k].state = "draft"
      /\ ~profile[k].cleared /\ Complete(profile[k].poses)
  BY <1>1 DEF FinishActivate, ProfileInv, WorkingKnows
<1>5. /\ old \in Seq(Revision) /\ Len(old) = N
      /\ \A n \in 1..N :
            /\ old[n].cleared = profile[n].cleared
            /\ old[n].poses = profile[n].poses
            /\ old[n].state = IF profile[n].state = "desired" THEN "superseded" ELSE profile[n].state
  BY <1>1, SupersedeKeeps
<1> HIDE DEF old
<1>6. old[k] \in Revision
  BY <1>4, <1>5, ElementOfSeq
<1>7. /\ [old[k] EXCEPT !.state = "desired"] \in Revision
      /\ [old[k] EXCEPT !.state = "desired"].state = "desired"
      /\ [old[k] EXCEPT !.state = "desired"].cleared = profile[k].cleared
      /\ [old[k] EXCEPT !.state = "desired"].poses = profile[k].poses
  BY <1>4, <1>5, <1>6 DEF Revision
<1>8. profile' = rows
  BY <1>4, <1>5 DEF FinishActivate, old
<1>9. rows \in Seq(Revision) /\ Len(rows) = N /\ DOMAIN rows = 1..N
  BY <1>1, <1>4, <1>5, <1>7, ExceptSeq, LenProperties
<1>10. /\ rows[k].state = "desired" /\ ~rows[k].cleared /\ Complete(rows[k].poses)
       /\ \A n \in 1..N \ {k} : rows[n] = old[n]
  BY <1>4, <1>5, <1>7
<1> HIDE DEF rows, N, k
<1>11. /\ N <= MaxRevisions
       /\ \A n \in 1..N : profile[n].state \in {"draft", "desired", "superseded"}
       /\ \A n \in 1..N : profile[n].state = "draft" => ~profile[n].cleared
       /\ \A m, n \in 1..N : profile[n].cleared /\ m < n => profile[m].state = "superseded"
  BY <1>1, RowsInvIsIt DEF RowsInv, Revision, N
<1>12. \A n \in 1..N \ {k} :
         /\ rows[n].state # "desired"
         /\ rows[n].state = "draft" <=> profile[n].state = "draft"
         /\ rows[n].cleared = profile[n].cleared
  BY <1>5, <1>10, <1>11
<1>13. \A m, n \in 1..N : rows[n].cleared /\ m < n => rows[m].state = "superseded"
  BY <1>1, <1>4, <1>5, <1>10, <1>11, <1>12
<1>14. RowsInv(rows)
  BY <1>9, <1>10, <1>11, <1>12, <1>13 DEF RowsInv
<1>15. QED
  BY <1>3, <1>8, <1>14, RowsInvIsIt

\* The references of one revision change: of a draft, which may lack some, or of
\* one that is superseded.
LEMMA ReferencesKeep ==
  ASSUME ProfileInv, working = {}, NEW n \in DOMAIN profile, profile[n].state # "desired",
         NEW poses \in SUBSET Pose, profile' = [profile EXCEPT ![n].poses = poses],
         UNCHANGED working
  PROVE  ProfileInv'
<1> DEFINE row == [profile[n] EXCEPT !.poses = poses]
           N == Len(profile)
<1>1. /\ N \in Nat /\ DOMAIN profile = 1..N /\ profile \in Seq(Revision)
      /\ \A m \in 1..N : profile[m] \in Revision
  BY RowsOf DEF ProfileInv, OwnerFaceTypeOK
<1>2. row \in Revision /\ row.state = profile[n].state /\ row.cleared = profile[n].cleared
  BY <1>1 DEF Revision
<1>3. profile' = [profile EXCEPT ![n] = row]
  BY <1>1
<1> HIDE DEF row
<1>4. profile' \in Seq(Revision) /\ Len(profile') = N /\ DOMAIN profile' = 1..N
  BY <1>1, <1>2, <1>3, ExceptSeq, LenProperties
<1>5. \A m \in 1..N :
        /\ profile'[m].state = profile[m].state /\ profile'[m].cleared = profile[m].cleared
        /\ m # n => profile'[m].poses = profile[m].poses
  BY <1>1, <1>2, <1>3
<1>6. RowsInv(profile)
  BY RowsInvIsIt
<1>7. RowsInv(profile')
  BY <1>1, <1>4, <1>5, <1>6 DEF RowsInv
<1>8. working' \subseteq Command /\ WorkingKnows'
  BY DEF WorkingKnows
<1>9. QED
  BY <1>7, <1>8, RowsInvIsIt

LEMMA RemoveProfileKeeps ==
  ASSUME ProfileInv, RemoveProfile
  PROVE  ProfileInv'
<1>1. profile' = <<>> /\ working = {} /\ working' = {}
  BY DEF RemoveProfile, FreeConnection
<1>2. <<>> \in Seq(Revision) /\ Len(<<>>) = 0 /\ DOMAIN <<>> = {}
  OBVIOUS
<1>3. RowsInv(profile')
  BY <1>1, <1>2, PoseAssumption DEF RowsInv
<1>4. QED
  BY <1>1, <1>3, RowsInvIsIt DEF WorkingKnows

LEMMA OwnerFaceStepKeeps ==
  ASSUME ProfileInv, OwnerFaceStep
  PROVE  ProfileInv'
<1>1. ASSUME NEW command \in working, FinishDraft(command) \/ FinishClear(command)
      PROVE  ProfileInv'
  BY <1>1, AddKeeps DEF FinishDraft, FinishClear
<1>2. ASSUME NEW n \in 1..MaxRevisions, NEW pose \in Pose, AddReference(n, pose)
      PROVE  ProfileInv'
  <2>1. /\ working = {} /\ UNCHANGED working
        /\ n \in DOMAIN profile /\ profile[n].state # "desired"
        /\ profile' = [profile EXCEPT ![n].poses = profile[n].poses \cup {pose}]
    BY <1>2 DEF AddReference, FreeConnection
  <2>2. profile[n] \in Revision
    BY <2>1, RowsOf DEF ProfileInv, OwnerFaceTypeOK
  <2>3. profile[n].poses \cup {pose} \in SUBSET Pose
    BY <2>2 DEF Revision
  <2>4. QED
    BY <2>1, <2>3, ReferencesKeep
<1>3. ASSUME NEW n \in 1..MaxRevisions, NEW poses \in SUBSET Pose, DeleteSupersededReferences(n, poses)
      PROVE  ProfileInv'
  <2>1. /\ working = {} /\ UNCHANGED working
        /\ n \in DOMAIN profile /\ profile[n].state # "desired"
        /\ profile' = [profile EXCEPT ![n].poses = profile[n].poses \ poses]
    BY <1>3 DEF DeleteSupersededReferences, FreeConnection
  <2>2. profile[n] \in Revision
    BY <2>1, RowsOf DEF ProfileInv, OwnerFaceTypeOK
  <2>3. profile[n].poses \ poses \in SUBSET Pose
    BY <2>2 DEF Revision
  <2>4. QED
    BY <2>1, <2>3, ReferencesKeep
<1>4. QED
  BY <1>1, <1>2, <1>3, BeginKeeps, FinishActivateKeeps, GiveUpKeeps DEF OwnerFaceStep

LEMMA ProfileInvIsIt == ProfileInv => DesiredIsComplete
<1> SUFFICES ASSUME ProfileInv PROVE DesiredIsComplete
  OBVIOUS
<1>2. Desired = {} \/ \E n : Desired = {n}
  BY DEF ProfileInv, OneDesired
<1>3. Cardinality(Desired) <= 1
  <2>1. CASE Desired = {}
    BY <2>1, FS_EmptySet
  <2>2. ASSUME NEW n, Desired = {n}
        PROVE  Cardinality(Desired) <= 1
    <3>1. Cardinality({n}) = 1
      BY FS_Singleton
    <3>2. QED
      BY <2>2, <3>1
  <2>3. QED
    BY <1>2, <2>1, <2>2
<1>4. QED
  BY <1>3 DEF ProfileInv, DesiredComplete, DesiredIsComplete

-----------------------------------------------------------------------------
(* The three together. *)

IInv == PhotoInv /\ FaceInv /\ ProfileInv

LEMMA InitHolds == Init => IInv
<1> SUFFICES ASSUME Init PROVE IInv
  OBVIOUS
<1>2. PhotoInv
  <2>1. \A k : k \notin PhotoKeys
    BY PhotoKeysAre DEF Init, PersonFaceInit
  <2>2. QED
    BY <2>1, InChangeIs
       DEF Init, StoreInit, PersonFaceInit, PhotoInv, PersonFaceTypeOK, PersonStatus,
         ChangeIsOpen, ReadIsOpen, OnePhoto, KeysApart, PhotoIsThere, PhotosAccountedFor
<1>3. FaceInv
  <2>1. CompanionFaceTypeOK
    BY DEF Init, CompanionFaceInit, CompanionFaceTypeOK, CompanionState, SettingState
  <2>2. \A c \in Companion : FaceKeys(c) = {}
    BY DEF Init, CompanionFaceInit, FaceKeys, Versions
  <2>3. QED
    BY <2>1, <2>2
       DEF Init, StoreInit, CompanionFaceInit, Idle, FaceInv, StoredIsThere, PurgedIsGone,
         FaceIsThere, FacesAccountedFor
<1>4. ProfileInv
  <2>1. profile = <<>> /\ working = {}
    BY DEF Init, OwnerFaceInit
  <2>2. <<>> \in Seq(Revision) /\ Len(<<>>) = 0 /\ DOMAIN <<>> = {}
    OBVIOUS
  <2>3. RowsInv(profile)
    BY <2>1, <2>2, PoseAssumption DEF RowsInv
  <2>4. QED
    BY <2>1, <2>3, RowsInvIsIt DEF WorkingKnows
<1>5. QED
  BY <1>2, <1>3, <1>4 DEF IInv

LEMMA UntouchedByOwner ==
  ASSUME UNCHANGED <<blobs, reported, purged, lost>>
  PROVE  Untouched(PhotoKey) /\ Untouched(FaceKey)
BY DEF Untouched

LEMMA SameProfile ==
  ASSUME ProfileInv, UNCHANGED ownerFaceVars
  PROVE  ProfileInv'
<1>1. working' \subseteq Command /\ WorkingKnows'
  BY DEF ownerFaceVars, ProfileInv, OwnerFaceTypeOK, WorkingKnows
<1>2. QED
  BY <1>1, SameProfileHolds DEF ownerFaceVars

LEMMA SameFaces ==
  ASSUME FaceInv, UNCHANGED companionFaceVars, Untouched(FaceKey)
  PROVE  FaceInv'
BY SameFacesHold DEF companionFaceVars, FaceInv, CompanionFaceTypeOK

LEMMA OwnerStepKeeps ==
  ASSUME IInv, OwnerStep
  PROVE  IInv'
<1>1. CASE ArchiveOwner
  <2>1. companions' \in [Companion -> CompanionState] /\ UNCHANGED <<faces, setting>>
    BY <1>1 DEF ArchiveOwner, IInv, FaceInv, CompanionFaceTypeOK, CompanionState
  <2>2. QED
    BY <1>1, <2>1, UntouchedByOwner, UntouchedPhotos, SameFacesHold, SameProfile
       DEF ArchiveOwner, IInv
<1>2. CASE DeleteOwner
  <2>1. reported \subseteq reported' /\ \A c \in Companion : FaceKeys(c) \subseteq reported'
    BY <1>2 DEF DeleteOwner, OwnerKeys, AllFaceKeys
  <2>2. FaceInv'
    BY <1>2, <2>1, DeleteFacesKeeps DEF DeleteOwner, IInv
  <2>3. QED
    BY <1>2, <2>2, DeleteOwnerKeepsPhotos, RemoveProfileKeeps DEF DeleteOwner, IInv
<1>3. CASE CreateOwner
  BY <1>3, UntouchedByOwner, UntouchedPhotos, SameFaces, SameProfile DEF CreateOwner, IInv
<1>4. ASSUME NEW k, Purge(k), UNCHANGED <<personFaceVars, companionFaceVars, ownerFaceVars>>
      PROVE  IInv'
  BY <1>4, PurgeKeepsPhotos, PurgeKeepsFaces, SameProfile DEF IInv
<1>5. QED
  BY <1>1, <1>2, <1>3, <1>4 DEF OwnerStep

LEMMA NextKeeps ==
  ASSUME IInv, [Next]_vars
  PROVE  IInv'
<1>1. CASE Photos
  BY <1>1, PersonFaceStepKeeps, PersonFaceStepElsewhere, SameFaces, SameProfile DEF Photos, IInv
<1>2. CASE Faced
  BY <1>2, CompanionFaceStepKeeps, CompanionFaceStepElsewhere, UntouchedPhotos, SameProfile
     DEF Faced, IInv
<1>3. CASE Profiles
  BY <1>3, OwnerFaceStepKeeps, UntouchedByOwner, UntouchedPhotos, SameFaces
     DEF Profiles, IInv, storeVars
<1>4. CASE UNCHANGED vars
  BY <1>4, UntouchedByOwner, UntouchedPhotos, SameFaces, SameProfile DEF vars, IInv, storeVars
<1>5. QED
  BY <1>1, <1>2, <1>3, <1>4, OwnerStepKeeps DEF Next

LEMMA Inductive == Spec => []IInv
<1>1. Init => IInv
  BY InitHolds
<1>2. IInv /\ [Next]_vars => IInv'
  BY NextKeeps
<1>3. QED
  BY <1>1, <1>2, PTL DEF Spec

-----------------------------------------------------------------------------
(* Theorems. *)

\* Rows, requests and commands keep their types, for any number of them.
THEOREM TypeCorrect == Spec => [](PersonFaceTypeOK /\ CompanionFaceTypeOK /\ OwnerFaceTypeOK)
<1>1. IInv => PersonFaceTypeOK /\ CompanionFaceTypeOK /\ OwnerFaceTypeOK
  BY DEF IInv, PhotoInv, FaceInv, ProfileInv
<1>2. QED
  BY <1>1, Inductive, PTL

\* A Person's row names a file that is there, and a request that read its key finds
\* it, except after an archive that removed the file and did not commit.
THEOREM PhotosAreThere == Spec => []PhotoIsThere
<1>1. IInv => PhotoIsThere
  BY DEF IInv, PhotoInv
<1>2. QED
  BY <1>1, Inductive, PTL

\* A recorded face loses its file only to a late removal of a key that was reported.
THEOREM FacesAreThere == Spec => []FaceIsThere
<1>1. IInv => FaceIsThere
  BY DEF IInv, FaceInv
<1>2. QED
  BY <1>1, Inductive, PTL

\* Each file is named by a row, a request under way or the keys somebody was given
\* to remove, unless a request died or a removal failed on it.
THEOREM NothingIsForgotten == Spec => []ImagesAccountedFor
<1>1. IInv => ImagesAccountedFor
  BY DEF IInv, PhotoInv, FaceInv, ImagesAccountedFor
<1>2. QED
  BY <1>1, Inductive, PTL

\* The profile devices recognize is one and complete, whatever is drafted, activated
\* or purged meanwhile.
THEOREM DesiredStaysComplete == Spec => []DesiredIsComplete
<1>1. IInv => DesiredIsComplete
  BY ProfileInvIsIt DEF IInv
<1>2. QED
  BY <1>1, Inductive, PTL

\* Nothing captured before a clearing is recognized after it.
THEOREM ClearingsStand == Spec => []ClearingStands
<1>1. IInv => ClearingStands
  BY DEF IInv, ProfileInv
<1>2. QED
  BY <1>1, Inductive, PTL
=============================================================================
