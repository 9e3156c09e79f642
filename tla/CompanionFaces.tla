--------------------------- MODULE CompanionFaces ---------------------------
(***************************************************************************)
(* The faces the Companions of one Owner have worn                          *)
(* (eidolon_data/repositories/companion_face_assets.py and the face routes  *)
(* of api/companion_authority.py).  The key of a file is its content under  *)
(* the Owner, so a picture stands for its key.  Setting a face checks the   *)
(* Companion in one session, stores the file, and records the row in        *)
(* another; the whole body of the request is read in between.               *)
(* The status of an idle clip's generation, which nothing here reads, is    *)
(* left out.                                                                *)
(***************************************************************************)
EXTENDS ObjectStore, Naturals, Sequences

CONSTANTS
  Companion,
  Picture,      \* the bytes a client may choose
  Clip,         \* the keys of generated idle clips
  Setter,       \* requests that set a face
  NoKey,        \* SQL NULL
  MaxVersion    \* bound on the versions of one Companion's face

VARIABLES
  companions,   \* state of each Companion
  faces,        \* rows of companion_face_assets: each Companion's, by version
  setting       \* what each request to set a face knows

companionFaceVars == <<companions, faces, setting>>

CompanionState == {"absent", "active", "inactive"}
Face == [state : {"active", "superseded"}, key : Picture, clip : Clip \cup {NoKey}]
Idle == [at |-> "idle"]
SettingState ==
  {Idle} \cup [at : {"checked", "stored"}, companion : Companion, picture : Picture]

Versions(c) == DOMAIN faces[c]
Current(c) == {v \in Versions(c) : faces[c][v].state = "active"}
FaceKeys(c) == UNION {{faces[c][v].key, faces[c][v].clip} \ {NoKey} : v \in Versions(c)}
AllFaceKeys == UNION {FaceKeys(c) : c \in Companion}
Stored(Q) == {setting[q].picture : q \in {s \in Q : setting[s].at = "stored"}}
InSetting == Stored(Setter)

\* cond_storage_key is unique over every row, superseded ones too.
Taken(x) == \E c \in Companion : \E v \in Versions(c) : faces[c][v].key = x

Superseded(rows) == [v \in DOMAIN rows |-> [rows[v] EXCEPT !.state = "superseded"]]
Worn(x) == [state |-> "active", key |-> x, clip |-> NoKey]

-----------------------------------------------------------------------------
(* PUT companions/{id}/face. *)

CheckCompanion(q, c, x) ==
  /\ setting[q] = Idle
  /\ companions[c] = "active"
  /\ setting' = [setting EXCEPT ![q] =
       [at |-> "checked", companion |-> c, picture |-> x]]
  /\ UNCHANGED <<storeVars, companions, faces>>

\* Faulty: the file is left for later.
StoreNothing(q) ==
  /\ setting[q].at = "checked"
  /\ setting' = [setting EXCEPT ![q].at = "stored"]
  /\ UNCHANGED <<storeVars, companions, faces>>
StorePicture(q) ==
  /\ setting[q].at = "checked"
  /\ Put(setting[q].picture)
  /\ setting' = [setting EXCEPT ![q].at = "stored"]
  /\ UNCHANGED <<owner, reported, companions, faces>>

NextFaces(c, x) == Append(Superseded(faces[c]), Worn(x))

\* set_face.  The write lock is taken before the version is read, and the state
\* of the Companion is not read again.
SetFace(q) ==
  LET c == setting[q].companion
      x == setting[q].picture
  IN  /\ setting[q].at = "stored"
      /\ companions[c] # "absent" /\ ~Taken(x)
      /\ Len(faces[c]) < MaxVersion
      /\ faces' = [faces EXCEPT ![c] = NextFaces(c, x)]
      /\ setting' = [setting EXCEPT ![q] = Idle]
      /\ UNCHANGED <<storeVars, companions>>

\* Nothing but this request knew its file.
Leave(q) ==
  lost' = lost \cup ({setting[q].picture}
                      \ (AllFaceKeys \cup reported \cup purged \cup Stored(Setter \ {q})))

\* The row is refused; the file stays where it was put.
RefuseFace(q) ==
  LET c == setting[q].companion
      x == setting[q].picture
  IN  /\ setting[q].at = "stored"
      /\ companions[c] = "absent" \/ Taken(x)
      /\ setting' = [setting EXCEPT ![q] = Idle]
      /\ Leave(q)
      /\ UNCHANGED <<owner, blobs, reported, purged, companions, faces>>

\* The store or the process fails after the file was put.
AbandonFace(q) ==
  /\ setting[q].at = "stored"
  /\ setting' = [setting EXCEPT ![q] = Idle]
  /\ Leave(q)
  /\ UNCHANGED <<owner, blobs, reported, purged, companions, faces>>

-----------------------------------------------------------------------------
(* The other commands. *)

ClearFace(c) ==
  /\ Current(c) # {}
  /\ faces' = [faces EXCEPT ![c] = Superseded(faces[c])]
  /\ UNCHANGED <<storeVars, companions, setting>>

\* The generator, which is not part of this repository, stored the clip before;
\* the key of an earlier clip of this version is forgotten with its file.
SetIdleClip(c, v, k) ==
  /\ v \in Versions(c)
  /\ k \notin AllFaceKeys \cup blobs
  /\ faces' = [faces EXCEPT ![c][v].clip = k]
  /\ blobs' = blobs \cup {k}
  /\ lost' = (lost \ {k}) \cup ({faces[c][v].clip} \ {NoKey})
  /\ purged' = purged \ {k}
  /\ UNCHANGED <<owner, reported, companions, setting>>

\* Lifecycle and provisioning, as a face sees them (see OwnerWorkspace).
MoveCompanion(c, state) ==
  /\ owner # "absent"
  /\ companions[c] = "absent" => owner = "active" /\ state = "active"
  /\ state \in {"active", "inactive"} \ {companions[c]}
  /\ companions' = [companions EXCEPT ![c] = state]
  /\ UNCHANGED <<storeVars, faces, setting>>

\* Faulty: only the face that is worn is reported.
CurrentKeys(c) == {faces[c][v].key : v \in Current(c)}
KeysOf(c) == FaceKeys(c)
DeleteFaces(C) ==
  /\ companions' = [c \in Companion |-> IF c \in C THEN "absent" ELSE companions[c]]
  /\ faces' = [c \in Companion |-> IF c \in C THEN <<>> ELSE faces[c]]
  /\ UNCHANGED setting

DeleteCompanion(c) ==
  /\ companions[c] # "absent"
  /\ reported' = reported \cup KeysOf(c)
  /\ DeleteFaces({c})
  /\ UNCHANGED <<owner, blobs, purged, lost>>

-----------------------------------------------------------------------------
CompanionFaceInit ==
  /\ companions = [c \in Companion |-> "absent"]
  /\ faces = [c \in Companion |-> <<>>]
  /\ setting = [q \in Setter |-> Idle]

CompanionFaceStep ==
  \/ \E q \in Setter :
       \/ \E c \in Companion, x \in Picture : CheckCompanion(q, c, x)
       \/ StorePicture(q) \/ SetFace(q) \/ RefuseFace(q) \/ AbandonFace(q)
  \/ \E c \in Companion :
       \/ ClearFace(c) \/ DeleteCompanion(c)
       \/ \E v \in 1..MaxVersion, k \in Clip : SetIdleClip(c, v, k)
       \/ \E state \in CompanionState : MoveCompanion(c, state)

-----------------------------------------------------------------------------
CompanionFaceTypeOK ==
  /\ companions \in [Companion -> CompanionState]
  /\ faces \in [Companion -> Seq(Face)]
  /\ setting \in [Setter -> SettingState]

\* A face that was recorded can be shown, also when its Companion was deleted or
\* another wore the same picture meanwhile.  What takes its file away is the
\* removal of a key an earlier deletion returned, by a caller that came late.
FaceIsThere ==
  \A c \in Companion : \A k \in FaceKeys(c) : k \in blobs \cup purged

\* No file is forgotten: it belongs to a version, to a request that is about to
\* record it, or to the keys a deletion returned.  What stays for good is the
\* file of a request that was refused or died after it had put it, and a clip
\* that was replaced.
FacesAccountedFor ==
  blobs \cap (Picture \cup Clip) \subseteq AllFaceKeys \cup InSetting \cup reported \cup lost

-----------------------------------------------------------------------------
(* What set_face says and does not do. *)

\* "ValueError on invalid inputs or a concurrent-modification conflict (the
\* caller should retry)": the row of a Companion that is there is refused only
\* while another request is at work.
OnlyConflictsAreRefused ==
  [][\A q \in Setter : RefuseFace(q) =>
       \/ companions[setting[q].companion] = "absent"
       \/ \E other \in Setter \ {q} : setting[other] # Idle]_<<storeVars, companionFaceVars>>
=============================================================================
