---------------------------- MODULE Voiceprints ----------------------------
(***************************************************************************)
(* Voices of the people of one Owner (eidolon_data/services/voiceprints.py): *)
(* profiles, the enrollments that record them, and the turns by which       *)
(* recognition discovers candidates and confirms them.  Clients enroll,     *)
(* cancel and delete in any order and late; sessions report turns; time     *)
(* passes.  Every command holds SQLite's write lock and is one action.      *)
(*                                                                         *)
(* A recording and a template are written with the profile row that names   *)
(* their enrollment and are not modelled apart from it.                     *)
(***************************************************************************)
EXTENDS Persons

CONSTANTS
  Enrollment,     \* ids, which the code derives from operation ids
  Profile,        \* ids, drawn at random by the code
  Turn,           \* turns of sessions, each with audio of its own
  DerivedPerson,  \* the identity discovery gives the speaker of a turn
  Required,       \* samples of an enrollment, 3 in the code
  MinTurns,       \* turns the promotion policy asks for
  MaxVoice        \* bound on the revision an enrollment may begin with

ASSUME VoiceAssumption ==
  /\ DerivedPerson \in [Turn -> Person]
  /\ Required \in Nat \ {0} /\ MinTurns \in Nat \ {0} /\ MaxVoice \in Nat
ASSUME TurnAssumption == IsFiniteSet(Turn)

VARIABLES profiles, enrollments, observations

voiceVars == <<profiles, enrollments, observations>>
vars == <<personVars, voiceVars>>

\* enrollment: None for a profile that an observation was the source of.
ProfileRow ==
  [person : Person, revision : Nat \ {0}, enrollment : Enrollment \cup {None}]
\* target: _target_revision, of the profile the enrollment began with.
\* samples: vectors held; a ready enrollment holds them until it is replaced.
EnrollmentRow ==
  [person : Person, profile : Profile, target : Nat,
   state : {"collecting", "expired", "cancelled", "ready"},
   samples : 0..Required, overdue : BOOLEAN]
\* matched: the turn was matched with this revision of the profile.
ObservationRow ==
  [person : Person, profile : Profile, revision : Nat \ {0}, matched : BOOLEAN]

ASSUME VoiceNoneAssumption ==
  None \notin Enrollment \cup ProfileRow \cup EnrollmentRow \cup ObservationRow

HasRow(table, id) == table[id] # None
ProfilesOf(p) == {v \in Profile : HasRow(profiles, v) /\ profiles[v].person = p}
RevisionOf(v) == IF HasRow(profiles, v) THEN profiles[v].revision ELSE 0
\* Nothing names this profile id.
Fresh(v) ==
  /\ ~HasRow(profiles, v)
  /\ \A e \in Enrollment : HasRow(enrollments, e) => enrollments[e].profile # v
  /\ \A t \in Turn : HasRow(observations, t) => observations[t].profile # v

-----------------------------------------------------------------------------
(* Enrollments. *)

\* A replay answers the enrollment as it is.
NotBegun(e) == ~HasRow(enrollments, e)

CreateEnrollment(e, p, v) ==
  /\ NotBegun(e)
  /\ Active(p)
  /\ IF ProfilesOf(p) = {} THEN Fresh(v) ELSE v \in ProfilesOf(p)
  /\ enrollments' = [enrollments EXCEPT ![e] =
       [person |-> p, profile |-> v, target |-> RevisionOf(v), state |-> "collecting",
        samples |-> 0, overdue |-> FALSE]]
  /\ UNCHANGED <<personVars, profiles, observations>>

\* Its half hour is over.
PassTime(e) ==
  /\ HasRow(enrollments, e) /\ enrollments[e].state = "collecting"
  /\ ~enrollments[e].overdue
  /\ enrollments' = [enrollments EXCEPT ![e].overdue = TRUE]
  /\ UNCHANGED <<personVars, profiles, observations>>

Overdue(e) ==
  HasRow(enrollments, e) /\ enrollments[e].state = "collecting" /\ enrollments[e].overdue
Ended(row, state) == [row EXCEPT !.state = state, !.samples = 0]

\* A client that reads an overdue enrollment ends it.
ReadEnrollment(e) ==
  /\ Overdue(e)
  /\ enrollments' = [enrollments EXCEPT ![e] = Ended(enrollments[e], "expired")]
  /\ UNCHANGED <<personVars, profiles, observations>>

\* Every minute the maintenance loop ends all of them.
ExpireEnrollments ==
  /\ \E e \in Enrollment : Overdue(e)
  /\ enrollments' = [e \in Enrollment |->
       IF Overdue(e) THEN Ended(enrollments[e], "expired") ELSE enrollments[e]]
  /\ UNCHANGED <<personVars, profiles, observations>>

Cancel(e) ==
  /\ HasRow(enrollments, e) /\ enrollments[e].state # "ready"
  /\ enrollments' = [enrollments EXCEPT ![e] = Ended(enrollments[e], "cancelled")]
  /\ UNCHANGED <<personVars, profiles, observations>>

Collecting(e) ==
  HasRow(enrollments, e) /\ enrollments[e].state = "collecting" /\ ~enrollments[e].overdue

AddSample(e) ==
  /\ Collecting(e) /\ enrollments[e].samples < Required
  /\ enrollments' = [enrollments EXCEPT ![e].samples = @ + 1]
  /\ UNCHANGED <<personVars, profiles, observations>>

\* Faulty: whatever the profile has become since the enrollment began.
AnyRevision(row) == ProfilesOf(row.person) \subseteq {row.profile}
\* The Person's voice is the one the enrollment began with.
Unchanged(row) ==
  ProfilesOf(row.person) \subseteq {row.profile} /\ RevisionOf(row.profile) = row.target

\* Faulty: what an earlier enrollment of the profile left stays.
OnlyReady(e) == [enrollments EXCEPT ![e].state = "ready"]
\* The enrollment keeps its evidence, and the one it replaces loses it.
Replaced(e) ==
  [f \in Enrollment |->
     IF f = e THEN [enrollments[e] EXCEPT !.state = "ready"]
     ELSE IF /\ HasRow(enrollments, f) /\ enrollments[f].state = "ready"
             /\ enrollments[f].profile = enrollments[e].profile
       THEN [enrollments[f] EXCEPT !.samples = 0] ELSE enrollments[f]]
Complete(e) ==
  /\ Collecting(e) /\ enrollments[e].samples = Required
  /\ Active(enrollments[e].person)
  /\ Unchanged(enrollments[e])
  /\ enrollments[e].target < MaxVoice
  /\ profiles' = [profiles EXCEPT ![enrollments[e].profile] =
       [person |-> enrollments[e].person,
        revision |-> RevisionOf(enrollments[e].profile) + 1, enrollment |-> e]]
  /\ enrollments' = Replaced(e)
  /\ UNCHANGED <<personVars, observations>>

-----------------------------------------------------------------------------
(* The end of voices. *)

Without(table, gone) == [id \in DOMAIN table |-> IF id \in gone THEN None ELSE table[id]]
EnrollmentsFor(v) ==
  {e \in Enrollment : HasRow(enrollments, e) /\ enrollments[e].profile = v}
RowsOf(table, p) == {id \in DOMAIN table : HasRow(table, id) /\ table[id].person = p}

DeleteProfile(v) ==
  /\ HasRow(profiles, v)
  /\ profiles' = Without(profiles, {v})
  /\ enrollments' = Without(enrollments, EnrollmentsFor(v))
  /\ UNCHANGED <<personVars, observations>>

\* Faulty: an enrollment goes on for an archived Person.
EraseProfiles(p) ==
  profiles' = Without(profiles, RowsOf(profiles, p)) /\ UNCHANGED enrollments
EraseVoice(p) ==
  /\ profiles' = Without(profiles, RowsOf(profiles, p))
  /\ enrollments' = Without(enrollments, RowsOf(enrollments, p))

Archive(p) == ArchivePerson(p) /\ EraseVoice(p) /\ UNCHANGED observations

\* The Person's rows take along, by their foreign keys, what names it.
CompleteDeletion(p) ==
  /\ RemovePerson(p)
  /\ EraseVoice(p)
  /\ observations' = Without(observations, RowsOf(observations, p))

-----------------------------------------------------------------------------
(* Turns. *)

\* An unknown speaker becomes a candidate Person, with a voice and a memory.
Discover(t, v) ==
  /\ ~HasRow(observations, t)
  /\ Unused(DerivedPerson[t]) /\ Fresh(v)
  /\ HasCapacity
  /\ InsertPerson(DerivedPerson[t], "candidate")
  /\ profiles' = [profiles EXCEPT ![v] =
       [person |-> DerivedPerson[t], revision |-> 1, enrollment |-> None]]
  /\ observations' = [observations EXCEPT ![t] =
       [person |-> DerivedPerson[t], profile |-> v, revision |-> 1, matched |-> FALSE]]
  /\ UNCHANGED <<receipts, defaults, enrollments>>

\* Faulty: turns matched with any voice the Person has had.
MatchedEver(v) ==
  {t \in Turn : /\ HasRow(observations, t) /\ observations[t].matched
                /\ observations[t].person = profiles[v].person}
\* Turns matched with the present voice.
Matched(v) ==
  {t \in Turn : /\ HasRow(observations, t) /\ observations[t].matched
                /\ observations[t].profile = v
                /\ observations[t].revision = profiles[v].revision}

\* eligible: what the promotion policy accepts of these turns by its threshold,
\* the quality and the age of the evidence.  Without the newest there is no
\* promotion.
RecordEvidence(t, v, eligible) ==
  /\ ~HasRow(observations, t) /\ HasRow(profiles, v)
  /\ LET p == profiles[v].person IN
     /\ Exists(p) /\ InPool(people[p])
     /\ observations' = [observations EXCEPT ![t] =
          [person |-> p, profile |-> v, revision |-> profiles[v].revision, matched |-> TRUE]]
     /\ IF t \in eligible /\ Cardinality(eligible) >= MinTurns
        THEN /\ SetRow(p, [people[p] EXCEPT !.maturity = "established"])
             /\ realms' = [realms EXCEPT ![p] = Prepared(realms[p])]
        ELSE UNCHANGED <<people, realms>>
  /\ UNCHANGED <<receipts, defaults, profiles, enrollments>>

-----------------------------------------------------------------------------
Init ==
  /\ PersonInit
  /\ profiles = [v \in Profile |-> None]
  /\ enrollments = [e \in Enrollment |-> None]
  /\ observations = [t \in Turn |-> None]

EnrollmentStep ==
  \/ \E e \in Enrollment :
       \/ \E p \in Person, v \in Profile : CreateEnrollment(e, p, v)
       \/ PassTime(e) \/ ReadEnrollment(e) \/ Cancel(e) \/ AddSample(e) \/ Complete(e)
  \/ ExpireEnrollments
TurnStep ==
  \E t \in Turn, v \in Profile :
    \/ Discover(t, v)
    \/ HasRow(profiles, v) /\ \E eligible \in SUBSET (Matched(v) \cup {t}) : RecordEvidence(t, v, eligible)

Next ==
  \/ PersonStep /\ UNCHANGED voiceVars
  \/ EnrollmentStep
  \/ \E v \in Profile : DeleteProfile(v)
  \/ \E p \in Person : Archive(p) \/ CompleteDeletion(p)
  \/ TurnStep

Spec == Init /\ [][Next]_vars

-----------------------------------------------------------------------------
\* Every table holds what its columns allow.
TypeOK ==
  /\ PersonTypeOK
  /\ profiles \in [Profile -> ProfileRow \cup {None}]
  /\ enrollments \in [Enrollment -> EnrollmentRow \cup {None}]
  /\ observations \in [Turn -> ObservationRow \cup {None}]

\* A Person has one voice, and no voice or enrollment survives its archive.
OneVoice ==
  /\ \A v, w \in Profile :
       HasRow(profiles, v) /\ HasRow(profiles, w) /\ profiles[v].person = profiles[w].person
         => v = w
  /\ \A v \in Profile : HasRow(profiles, v) => Present(profiles[v].person)
  /\ \A e \in Enrollment : HasRow(enrollments, e) => Present(enrollments[e].person)

\* Vectors of a voice are held by an enrollment that collects, and by the one
\* the Person's present voice was made of: not by one that was cancelled, ran
\* out or was replaced, nor after the voice was deleted.
EvidenceHasVoice ==
  /\ \A e \in Enrollment : HasRow(enrollments, e) /\ enrollments[e].samples > 0 =>
       \/ enrollments[e].state = "collecting"
       \/ /\ enrollments[e].state = "ready"
          /\ HasRow(profiles, enrollments[e].profile)
          /\ profiles[enrollments[e].profile].enrollment = e
  /\ \A v \in Profile : HasRow(profiles, v) /\ profiles[v].enrollment # None =>
       LET e == profiles[v].enrollment IN
       HasRow(enrollments, e) /\ enrollments[e].state = "ready" /\ enrollments[e].profile = v

\* Each revision of a voice was made by one enrollment, on top of the revision
\* it began with: none was overwritten by a recording that had not seen it.
RevisionsMadeOnce ==
  \A e, f \in Enrollment :
      /\ HasRow(enrollments, e) /\ enrollments[e].state = "ready"
      /\ HasRow(enrollments, f) /\ enrollments[f].state = "ready"
      /\ enrollments[e].profile = enrollments[f].profile
      /\ enrollments[e].target = enrollments[f].target
    => e = f

\* An enrollment ends once: a late sample, completion or cancellation does not
\* reopen it or turn it into something else.
EnrollmentEndsOnceStep ==
  \A e \in Enrollment :
    HasRow(enrollments, e) /\ enrollments'[e] # None =>
      /\ enrollments[e].state = "ready" => enrollments'[e].state = "ready"
      /\ enrollments[e].state \in {"expired", "cancelled"} =>
           enrollments'[e].state \in {enrollments[e].state, "cancelled"}
EnrollmentEndsOnce == [][EnrollmentEndsOnceStep]_vars

\* A candidate becomes established by enough different turns that were all
\* matched with the voice it has then, never with one it had before.
ConfirmingTurns(p) ==
  {t \in Turn : \E v \in Profile :
    /\ HasRow(profiles, v) /\ profiles[v].person = p
    /\ observations'[t] # None /\ observations'[t].matched
    /\ observations'[t].profile = v /\ observations'[t].revision = profiles[v].revision}
PromotedByPresentVoiceStep ==
  \A p \in Person :
    Exists(p) /\ people[p].maturity = "candidate" /\ people'[p] # None
      /\ people'[p].maturity = "established" => Cardinality(ConfirmingTurns(p)) >= MinTurns
PromotedByPresentVoice == [][PromotedByPresentVoiceStep]_vars
=============================================================================
