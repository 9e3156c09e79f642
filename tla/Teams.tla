------------------------------- MODULE Teams -------------------------------
(***************************************************************************)
(* The saved teams of one Owner (eidolon_data/services/teams.py): immutable *)
(* configuration revisions, the one session that holds a team, the durable  *)
(* start records, and the execution snapshot frozen for each start.  Each   *)
(* command takes the write lock with its first UPDATE and is one action;    *)
(* commands may come in any order, late or twice, as retries do.            *)
(*                                                                         *)
(* External to the repository are the coordinator that issues the commands  *)
(* and the media Provider that runs a session; they follow what reserve_start*)
(* and confirm_closed demand of them: a session is dispatched only with a    *)
(* committed start and its frozen snapshot, and confirm_closed is called     *)
(* only once the Provider has reported the session's end.                    *)
(***************************************************************************)
EXTENDS Naturals

CONSTANTS
  Team,         \* team ids
  Session,      \* session ids, which identify starts across the Owner's teams
  Host,         \* host ids
  Companion,    \* the Owner's Companions
  Generation,   \* what a resolver reads of the devices: claims, trust epochs
  None,         \* SQL NULL
  MaxRevision   \* bound on team revisions

ASSUME TeamsNoneAssumption == None \notin Session \cup Team \cup Host
ASSUME TeamsBoundAssumption == MaxRevision \in Nat \ {0}

VARIABLES
  owner,        \* the Owner's status
  available,    \* its Companions whose lifecycle_state is active
  teams,        \* team_id -> row of teams
  saved,        \* team_id -> the rows of team_revisions
  starts,       \* session_id -> row of team_starts
  snapshots,    \* session_id -> the selections answered by start_snapshot
  provider      \* session_id -> what the Provider makes of it

workspace == <<owner, available>>
vars == <<owner, available, teams, saved, starts, snapshots, provider>>

Revision  == 1..MaxRevision
\* A configuration, by the Companions it puts on stage.
Config    == (SUBSET Companion) \ {{}}
NoConfig  == {}
Selection == [config : Config, generation : Generation]

ASSUME TeamsSelectionAssumption == None \notin Selection

TeamRow  == [revision : 0..MaxRevision, host : Host \cup {None},
             active : Session \cup {None}, deleted : BOOLEAN]
StartRow == [team : Team \cup {None}, revision : 0..MaxRevision, closed : BOOLEAN,
             selection : Selection \cup {None}]

NoTeam  == [revision |-> 0, host |-> None, active |-> None, deleted |-> FALSE]
NoStart == [team |-> None, revision |-> 0, closed |-> FALSE, selection |-> None]
NewStart(t, r) == [team |-> t, revision |-> r, closed |-> FALSE, selection |-> None]

Exists(t)  == teams[t].revision > 0
Started(s) == starts[s].team # None

-----------------------------------------------------------------------------
(* TeamAssets.save. *)

\* Faulty: the UPDATE names no revision.
NextRevisionOfAny(t, expected) == teams[t].revision >= expected
\* A first save inserts the row, any other UPDATEs the revision it was based on.
NextRevision(t, expected) == teams[t].revision = expected

\* A replay of an accepted save finds its own next revision and answers it,
\* whatever was saved since; any other configuration there is a conflict.
ReplaySave(t, h, expected, config) ==
  /\ owner = "active"
  /\ Exists(t) /\ teams[t].host = h /\ ~teams[t].deleted
  /\ saved[t][expected + 1] = config
  /\ UNCHANGED vars

Save(t, h, expected, config) ==
  /\ owner = "active"
  /\ Exists(t) => teams[t].host = h /\ ~teams[t].deleted
  /\ config \subseteq available
  /\ NextRevision(t, expected)
  /\ teams' = [teams EXCEPT ![t].revision = expected + 1, ![t].host = h]
  /\ saved' = [saved EXCEPT ![t][expected + 1] = config]
  /\ UNCHANGED <<owner, available, starts, snapshots, provider>>

-----------------------------------------------------------------------------
(* TeamAssets.reserve_start, confirm_closed, delete. *)

\* The team is held by this session, or by none and unchanged since it was read.
MayHold(t, expected, s) ==
  \/ teams[t].active = s
  \/ teams[t].active = None /\ teams[t].revision = expected

\* The start record: written once, and a replay must agree with it.
RecordStart(t, expected, s) ==
  \/ /\ ~Started(s)
     /\ starts' = [starts EXCEPT ![s] = NewStart(t, expected)]
  \/ /\ starts[s].team = t /\ starts[s].revision = expected /\ ~starts[s].closed
     /\ UNCHANGED starts

ReserveStart(t, h, expected, s) ==
  /\ owner = "active"
  /\ Exists(t) /\ teams[t].host = h /\ ~teams[t].deleted
  /\ MayHold(t, expected, s)
  /\ RecordStart(t, expected, s)
  /\ saved[t][expected] # NoConfig
  /\ teams' = [teams EXCEPT ![t].active = s]
  /\ UNCHANGED <<owner, available, saved, snapshots, provider>>

\* Faulty: the session that holds the team is not compared.
ReleaseAny(t, s) == teams' = [teams EXCEPT ![t].active = None]
\* A late or repeated confirmation frees the team only from its own session.
Release(t, s) ==
  teams' = [teams EXCEPT ![t].active = IF @ = s THEN None ELSE @]

\* Neither the Owner's status nor the team's deletion is read.
ConfirmClosed(t, h, s) ==
  /\ provider[s] = "ended"
  /\ Exists(t) /\ teams[t].host = h
  /\ starts[s].team = t
  /\ starts' = [starts EXCEPT ![s].closed = TRUE]
  /\ Release(t, s)
  /\ UNCHANGED <<owner, available, saved, snapshots, provider>>

\* Faulty: a held team may be deleted.
Deletable(t, expected) == teams[t].revision = expected
IdleAt(t, expected) == teams[t].revision = expected /\ teams[t].active = None

Delete(t, h, expected) ==
  /\ owner = "active"
  /\ Exists(t) /\ teams[t].host = h
  /\ IdleAt(t, expected)
  /\ teams' = [teams EXCEPT ![t].deleted = TRUE]
  /\ UNCHANGED <<owner, available, saved, starts, snapshots, provider>>

-----------------------------------------------------------------------------
(* TeamAssets.start_snapshot. *)

\* The configuration the start was reserved at, whatever was saved since.
StartConfig(s) == saved[starts[s].team][starts[s].revision]

\* Faulty: a resolver with fresher generations wins.
FreezeLatest(row, selection) == [row EXCEPT !.selection = selection]
\* The first accepted resolution wins.
Freeze(row, selection) ==
  IF row.selection = None THEN [row EXCEPT !.selection = selection] ELSE row

MayReadStart(t, h, s) ==
  /\ owner = "active"
  /\ Exists(t) /\ teams[t].host = h
  /\ starts[s].team = t

FreezeSnapshot(t, h, s, selection) ==
  /\ MayReadStart(t, h, s)
  /\ ~starts[s].closed
  /\ selection.config = StartConfig(s)
  /\ starts' = [starts EXCEPT ![s] = Freeze(@, selection)]
  /\ snapshots' = [snapshots EXCEPT ![s] = @ \cup {starts'[s].selection}]
  /\ UNCHANGED <<owner, available, teams, saved, provider>>

ReadSnapshot(t, h, s) ==
  /\ MayReadStart(t, h, s)
  /\ starts[s].selection # None
  /\ snapshots' = [snapshots EXCEPT ![s] = @ \cup {starts[s].selection}]
  /\ UNCHANGED <<owner, available, teams, saved, starts, provider>>

-----------------------------------------------------------------------------
(* The rest of the workspace, and the Provider. *)

ArchiveOwner ==
  /\ owner = "active"
  /\ owner' = "archived"
  /\ available' = {}
  /\ UNCHANGED <<teams, saved, starts, snapshots, provider>>

\* A Companion is provisioned or restored, or its retirement begins; restoring
\* does not ask whether the Owner is archived.
MoveCompanion(c) ==
  /\ owner # "deleted"
  /\ available' = IF c \in available THEN available \ {c} ELSE available \cup {c}
  /\ UNCHANGED <<owner, teams, saved, starts, snapshots, provider>>

\* teams references owners without a cascade.
DeleteOwner ==
  /\ owner # "deleted"
  /\ \A t \in Team : ~Exists(t)
  /\ owner' = "deleted"
  /\ available' = {}
  /\ UNCHANGED <<teams, saved, starts, snapshots, provider>>

CreateOwner ==
  /\ owner = "deleted"
  /\ owner' = "active"
  /\ UNCHANGED <<available, teams, saved, starts, snapshots, provider>>

Dispatch(s) ==
  /\ provider[s] = "idle"
  /\ snapshots[s] # {}
  /\ provider' = [provider EXCEPT ![s] = "running"]
  /\ UNCHANGED <<owner, available, teams, saved, starts, snapshots>>

End(s) ==
  /\ provider[s] = "running"
  /\ provider' = [provider EXCEPT ![s] = "ended"]
  /\ UNCHANGED <<owner, available, teams, saved, starts, snapshots>>

-----------------------------------------------------------------------------
Init ==
  /\ owner = "active"
  /\ available = Companion
  /\ teams = [t \in Team |-> NoTeam]
  /\ saved = [t \in Team |-> [r \in Revision |-> NoConfig]]
  /\ starts = [s \in Session |-> NoStart]
  /\ snapshots = [s \in Session |-> {}]
  /\ provider = [s \in Session |-> "idle"]

TeamCommand(t, h) ==
  \/ \E e \in 0..(MaxRevision - 1), c \in Config : ReplaySave(t, h, e, c) \/ Save(t, h, e, c)
  \/ \E e \in Revision : Delete(t, h, e)

StartCommand(t, h, s) ==
  \/ \E e \in Revision : ReserveStart(t, h, e, s)
  \/ ConfirmClosed(t, h, s)
  \/ \E selection \in Selection : FreezeSnapshot(t, h, s, selection)
  \/ ReadSnapshot(t, h, s)

Next ==
  \/ \E t \in Team, h \in Host : TeamCommand(t, h)
  \/ \E t \in Team, h \in Host, s \in Session : StartCommand(t, h, s)
  \/ ArchiveOwner \/ DeleteOwner \/ CreateOwner
  \/ \E c \in Companion : MoveCompanion(c)
  \/ \E s \in Session : Dispatch(s) \/ End(s)

Spec == Init /\ [][Next]_vars

-----------------------------------------------------------------------------
(* Invariants. *)

\* Every column holds a value the schema allows.
TypeOK ==
  /\ owner \in {"active", "archived", "deleted"}
  /\ available \subseteq Companion
  /\ teams \in [Team -> TeamRow]
  /\ saved \in [Team -> [Revision -> Config \cup {NoConfig}]]
  /\ starts \in [Session -> StartRow]
  /\ snapshots \in [Session -> SUBSET Selection]
  /\ provider \in [Session -> {"idle", "running", "ended"}]

\* Through retries, late closures and edits a team is held by exactly the one
\* start of it that is still open: an open start is never forgotten, and the
\* team is never busy for a session that has closed.
OneOpenStart ==
  \A t \in Team, s \in Session :
    teams[t].active = s <=> starts[s].team = t /\ ~starts[s].closed

\* A team's history has no gap and nothing above its revision, and a start names
\* a revision of that history.
History ==
  /\ \A t \in Team, r \in Revision : saved[t][r] # NoConfig <=> r <= teams[t].revision
  /\ \A s \in Session : Started(s) => starts[s].revision \in 1..teams[starts[s].team].revision

\* Whatever the Provider runs is still reserved: the session holds its team, the
\* team is not deleted, so two sessions never perform one team at a time.
RunsReserved ==
  \A s \in Session : provider[s] = "running" =>
    /\ Started(s)
    /\ teams[starts[s].team].active = s
    /\ ~teams[starts[s].team].deleted

\* Every caller that asked for a session's snapshot was told the same one, and
\* it resolves the configuration the start was reserved at, not a later edit.
OneSnapshot ==
  \A s \in Session : \A x \in snapshots[s] :
    /\ x = starts[s].selection
    /\ x.config = StartConfig(s)

-----------------------------------------------------------------------------
(* Action properties. *)

\* A saved revision is what its save answered, forever: no edit, replay or
\* competing editor overwrites it, and a team's revision only counts up by one.
SavedIsImmutableStep ==
  \A t \in Team :
    /\ \A r \in Revision : saved[t][r] # NoConfig => saved'[t][r] = saved[t][r]
    /\ teams'[t].revision \in {teams[t].revision, teams[t].revision + 1}
SavedIsImmutable == [][SavedIsImmutableStep]_vars

\* A start is decided once: no later command reopens it, moves it to another
\* team or revision, or changes its frozen selection.
StartIsDecidedStep ==
  \A s \in Session : Started(s) =>
    /\ starts'[s].team = starts[s].team /\ starts'[s].revision = starts[s].revision
    /\ starts[s].closed => starts'[s].closed
    /\ starts[s].selection # None => starts'[s].selection = starts[s].selection
StartIsDecided == [][StartIsDecidedStep]_vars

\* Whatever is retried, late or out of order, the commands implement one history
\* and one performance at a time of every team.
Sessions == INSTANCE TeamSessions WITH
  history  <- saved,
  removed  <- {t \in Team : teams[t].deleted},
  performs <- [s \in Session |-> starts[s].team],
  revision <- [s \in Session |-> starts[s].revision],
  closed   <- {s \in Session : starts[s].closed},
  told     <- snapshots,
  media    <- provider
SessionsSpec == Sessions!Spec

-----------------------------------------------------------------------------
(* What the repository says and the code does not do. *)

\* "Hard-delete the System Data tree" (OwnerDeletionService), "Delete one owner
\* and its owned data" (the delete-owner command): an Owner can be deleted.
OwnerCanBeDeleted == owner # "deleted" => ENABLED DeleteOwner
=============================================================================
