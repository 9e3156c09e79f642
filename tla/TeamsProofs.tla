---------------------------- MODULE TeamsProofs ----------------------------
(***************************************************************************)
(* Proofs about Teams, for any number of teams, sessions, hosts, Companions *)
(* and revisions.                                                          *)
(***************************************************************************)
EXTENDS Teams, TLAPS

Teams  == [Team -> TeamRow]
Starts == [Session -> StartRow]
Saved  == [Team -> [Revision -> Config \cup {NoConfig}]]

\* The rows: the part of TypeOK the other invariants rest on.
RowsTyped == teams \in Teams /\ saved \in Saved /\ starts \in Starts

-----------------------------------------------------------------------------
(* What each command changes, column by column. *)

\* A step is a command on a team or a start, a step of the Provider, or one that
\* leaves the teams alone.
LEMMA NextSteps ==
  ASSUME Next
  PROVE  \/ \E t \in Team, h \in Host, e \in 0..(MaxRevision - 1), config \in Config :
              Save(t, h, e, config)
         \/ \E t \in Team, h \in Host, e \in Revision : Delete(t, h, e)
         \/ \E t \in Team, h \in Host, s \in Session, e \in Revision : ReserveStart(t, h, e, s)
         \/ \E t \in Team, h \in Host, s \in Session : ConfirmClosed(t, h, s)
         \/ \E t \in Team, h \in Host, s \in Session, x \in Selection : FreezeSnapshot(t, h, s, x)
         \/ \E t \in Team, h \in Host, s \in Session : ReadSnapshot(t, h, s)
         \/ \E s \in Session : Dispatch(s) \/ End(s)
         \/ UNCHANGED <<teams, saved, starts, snapshots, provider>>
<1>1. ASSUME NEW t \in Team, NEW h \in Host, TeamCommand(t, h)
      PROVE  \/ \E e \in 0..(MaxRevision - 1), config \in Config : Save(t, h, e, config)
             \/ \E e \in Revision : Delete(t, h, e)
             \/ UNCHANGED <<teams, saved, starts, snapshots, provider>>
  BY <1>1 DEF TeamCommand, ReplaySave, vars
<1>2. ASSUME NEW t \in Team, NEW h \in Host, NEW s \in Session, StartCommand(t, h, s)
      PROVE  \/ \E e \in Revision : ReserveStart(t, h, e, s)
             \/ ConfirmClosed(t, h, s)
             \/ \E x \in Selection : FreezeSnapshot(t, h, s, x)
             \/ ReadSnapshot(t, h, s)
  BY <1>2 DEF StartCommand
<1>3. CASE ArchiveOwner \/ DeleteOwner \/ CreateOwner \/ \E c \in Companion : MoveCompanion(c)
  BY <1>3 DEF ArchiveOwner, DeleteOwner, CreateOwner, MoveCompanion
<1>4. CASE \E t \in Team, h \in Host : TeamCommand(t, h)
  BY <1>1, <1>4
<1>5. CASE \E t \in Team, h \in Host, s \in Session : StartCommand(t, h, s)
  BY <1>2, <1>5
<1>6. QED
  BY <1>3, <1>4, <1>5 DEF Next

\* save writes revision e + 1 of t.
Saves(t, h, e, config) ==
  /\ teams[t].revision = e
  /\ teams'[t].revision = e + 1 /\ teams'[t].host = h
  /\ teams'[t].active = teams[t].active /\ teams'[t].deleted = teams[t].deleted
  /\ \A u \in Team \ {t} : teams'[u] = teams[u] /\ saved'[u] = saved[u]
  /\ saved'[t][e + 1] = config
  /\ \A r \in Revision \ {e + 1} : saved'[t][r] = saved[t][r]
  /\ starts' = starts /\ snapshots' = snapshots /\ provider' = provider

LEMMA SaveEffect ==
  ASSUME RowsTyped, NEW t \in Team, NEW h \in Host, NEW e \in 0..(MaxRevision - 1),
         NEW config \in Config, Save(t, h, e, config)
  PROVE  Saves(t, h, e, config)
<1>1. /\ teams[t].revision = e
      /\ starts' = starts /\ snapshots' = snapshots /\ provider' = provider
  BY DEF Save, NextRevision
<1>2. /\ teams'[t].revision = e + 1 /\ teams'[t].host = h
      /\ teams'[t].active = teams[t].active /\ teams'[t].deleted = teams[t].deleted
      /\ \A u \in Team \ {t} : teams'[u] = teams[u]
  BY DEF Save, RowsTyped, Teams, TeamRow
<1>3. /\ saved'[t][e + 1] = config
      /\ \A r \in Revision \ {e + 1} : saved'[t][r] = saved[t][r]
      /\ \A u \in Team \ {t} : saved'[u] = saved[u]
  BY TeamsBoundAssumption DEF Save, RowsTyped, Saved, Revision
<1>4. QED
  BY <1>1, <1>2, <1>3 DEF Saves

\* The team t is held by x, and everything else of teams stays.
Holds(t, x) ==
  /\ teams'[t].active = x
  /\ teams'[t].revision = teams[t].revision /\ teams'[t].host = teams[t].host
  /\ teams'[t].deleted = teams[t].deleted
  /\ \A u \in Team \ {t} : teams'[u] = teams[u]

LEMMA HoldEffect ==
  ASSUME teams \in Teams, NEW t \in Team, NEW x, teams' = [teams EXCEPT ![t].active = x]
  PROVE  Holds(t, x)
BY DEF Holds, Teams, TeamRow

Releases(t, s) == IF teams[t].active = s THEN Holds(t, None) ELSE Holds(t, teams[t].active)

LEMMA ReleaseEffect ==
  ASSUME teams \in Teams, NEW t \in Team, NEW s \in Session, Release(t, s)
  PROVE  Releases(t, s)
BY DEF Releases, Release, Holds, Teams, TeamRow

\* The team t is deleted.
Deletes(t) ==
  /\ teams'[t].deleted
  /\ teams'[t].revision = teams[t].revision /\ teams'[t].host = teams[t].host
  /\ teams'[t].active = teams[t].active
  /\ \A u \in Team \ {t} : teams'[u] = teams[u]

LEMMA DeleteEffect ==
  ASSUME teams \in Teams, NEW t \in Team, teams' = [teams EXCEPT ![t].deleted = TRUE]
  PROVE  Deletes(t)
BY DEF Deletes, Teams, TeamRow

\* The start s is recorded, or was already.
Records(t, e, s) ==
  /\ \A x \in Session \ {s} : starts'[x] = starts[x]
  /\ \/ starts[s].team = None
        /\ starts'[s] = [team |-> t, revision |-> e, closed |-> FALSE, selection |-> None]
     \/ starts[s].team = t /\ starts[s].revision = e /\ ~starts[s].closed /\ starts' = starts

LEMMA RecordEffect ==
  ASSUME starts \in Starts, NEW t \in Team, NEW e \in Revision, NEW s \in Session,
         RecordStart(t, e, s)
  PROVE  Records(t, e, s)
BY DEF Records, RecordStart, Started, NewStart, Starts, StartRow

Closes(s) ==
  /\ \A x \in Session \ {s} : starts'[x] = starts[x]
  /\ starts'[s].closed
  /\ starts'[s].team = starts[s].team /\ starts'[s].revision = starts[s].revision
  /\ starts'[s].selection = starts[s].selection

LEMMA CloseEffect ==
  ASSUME starts \in Starts, NEW s \in Session, starts' = [starts EXCEPT ![s].closed = TRUE]
  PROVE  Closes(s)
BY DEF Closes, Starts, StartRow

Freezes(s, x) ==
  /\ \A z \in Session \ {s} : starts'[z] = starts[z]
  /\ starts'[s].selection = IF starts[s].selection = None THEN x ELSE starts[s].selection
  /\ starts'[s].team = starts[s].team /\ starts'[s].revision = starts[s].revision
  /\ starts'[s].closed = starts[s].closed

LEMMA FreezeEffect ==
  ASSUME starts \in Starts, NEW s \in Session, NEW x \in Selection,
         starts' = [starts EXCEPT ![s] = Freeze(@, x)]
  PROVE  Freezes(s, x)
BY DEF Freezes, Freeze, Starts, StartRow

-----------------------------------------------------------------------------
(* The inductive invariant.  What the five checked invariants leave open is  *)
(* what a start and the Provider know of each other.                         *)

\* An open start's team is not deleted, and only an ended session is closed.
StartsOpen ==
  \A s \in Session :
    IF starts[s].closed THEN Started(s) /\ provider[s] = "ended"
    ELSE Started(s) => ~teams[starts[s].team].deleted

\* A session somebody asked about or ran has a start.
Known == \A s \in Session : snapshots[s] # {} \/ provider[s] # "idle" => Started(s)

\* A frozen selection was answered, and resolves the configuration of its start.
Frozen ==
  \A s \in Session : starts[s].selection # None =>
    Started(s) /\ snapshots[s] # {} /\ starts[s].selection.config = StartConfig(s)

\* Only a team that was saved is deleted.
RemovedExist == \A t \in Team : teams[t].deleted => Exists(t)

IInv ==
  /\ TypeOK /\ OneOpenStart /\ History /\ OneSnapshot
  /\ StartsOpen /\ Known /\ Frozen /\ RemovedExist

LEMMA IInvRows == IInv => RowsTyped
BY DEF IInv, TypeOK, RowsTyped, Teams, Starts, Saved

LEMMA IInvRuns == IInv => RunsReserved
BY DEF IInv, TypeOK, OneOpenStart, StartsOpen, Known, RunsReserved, Started, StartRow

LEMMA RowValues ==
  RowsTyped => /\ \A t \in Team : /\ teams[t].revision \in 0..MaxRevision
                                  /\ teams[t].active \in Session \cup {None}
               /\ \A s \in Session : /\ starts[s].team \in Team \cup {None}
                                     /\ starts[s].revision \in 0..MaxRevision
                                     /\ starts[s].closed \in BOOLEAN
BY DEF RowsTyped, Teams, TeamRow, Starts, StartRow

\* A later save does not change what a start resolves.
LEMMA StartConfigStays ==
  ASSUME IInv, NEW t \in Team, NEW h \in Host, NEW e \in 0..(MaxRevision - 1),
         NEW config \in Config, Saves(t, h, e, config), NEW s \in Session, Started(s)
  PROVE  starts' = starts /\ StartConfig(s)' = StartConfig(s)
<1> DEFINE u == starts[s].team
           r == starts[s].revision
<1>1. u \in Team /\ r \in Revision /\ r <= teams[u].revision
  BY IInvRows, RowValues DEF IInv, History, Started, Revision
<1>2. starts' = starts /\ teams[t].revision = e
  BY DEF Saves
<1>3. saved'[u][r] = saved[u][r]
  <2>1. CASE u = t
    <3>1. r # e + 1
      BY <1>1, <1>2, <2>1, TeamsBoundAssumption DEF Revision
    <3>2. QED
      BY <1>1, <2>1, <3>1 DEF Saves
  <2>2. CASE u # t
    BY <1>1, <2>2 DEF Saves
  <2>3. QED
    BY <2>1, <2>2
<1>4. QED
  BY <1>2, <1>3 DEF StartConfig

\* A team stays held by exactly its open start.
LEMMA NextOneOpenStart ==
  ASSUME IInv, Next
  PROVE  OneOpenStart'
<1> USE IInvRows, RowValues, TeamsNoneAssumption, TeamsBoundAssumption
       DEF IInv, OneOpenStart
<1>1. ASSUME NEW t \in Team, NEW h \in Host, NEW e \in 0..(MaxRevision - 1),
             NEW config \in Config, Save(t, h, e, config)
      PROVE  OneOpenStart'
  <2>1. Saves(t, h, e, config)
    BY <1>1, SaveEffect DEF RowsTyped
  <2>2. QED
    BY <2>1 DEF Saves, Started
<1>2. ASSUME NEW t \in Team, NEW h \in Host, NEW e \in Revision, Delete(t, h, e)
      PROVE  OneOpenStart'
  <2>1. Deletes(t) /\ teams[t].active = None /\ UNCHANGED <<saved, starts, snapshots, provider>>
    BY <1>2, DeleteEffect DEF RowsTyped, Delete, IdleAt
  <2>2. QED
    BY <2>1 DEF Deletes, Started
<1>3. ASSUME NEW t \in Team, NEW h \in Host, NEW s \in Session,
             NEW e \in Revision, ReserveStart(t, h, e, s)
      PROVE  OneOpenStart'
  <2>1. /\ Holds(t, s) /\ Records(t, e, s) /\ MayHold(t, e, s) /\ ~teams[t].deleted
        /\ UNCHANGED <<saved, snapshots, provider>>
    BY <1>3, HoldEffect, RecordEffect DEF RowsTyped, ReserveStart
  <2>2. CASE starts[s].team = t
    BY <2>1, <2>2 DEF Holds, Records
  <2>3. CASE starts[s].team # t
    <3>1. starts[s].team = None /\ teams[t].active = None
      BY <2>1, <2>3 DEF Records, MayHold
    <3>2. ASSUME NEW x \in Session
          PROVE  teams'[t].active = x <=> starts'[x].team = t /\ ~starts'[x].closed
      BY <2>1, <3>1 DEF Holds, Records
    <3>3. ASSUME NEW u \in Team \ {t}, NEW x \in Session
          PROVE  teams'[u].active = x <=> starts'[x].team = u /\ ~starts'[x].closed
      BY <2>1, <3>1 DEF Holds, Records
    <3>4. QED
      BY <3>2, <3>3
  <2>4. QED
    BY <2>2, <2>3
<1>4. ASSUME NEW t \in Team, NEW h \in Host, NEW s \in Session,
             ConfirmClosed(t, h, s)
      PROVE  OneOpenStart'
  <2>1. /\ provider[s] = "ended" /\ starts[s].team = t /\ Closes(s) /\ Releases(t, s)
        /\ UNCHANGED <<saved, snapshots, provider>>
    BY <1>4, CloseEffect, ReleaseEffect DEF RowsTyped, ConfirmClosed
  <2>2. QED
    BY <2>1 DEF Holds, Closes, Releases, Started
<1>5. ASSUME NEW t \in Team, NEW h \in Host, NEW s \in Session,
             NEW x \in Selection, FreezeSnapshot(t, h, s, x)
      PROVE  OneOpenStart'
  <2>1. /\ starts[s].team = t /\ ~starts[s].closed /\ x.config = StartConfig(s) /\ Freezes(s, x)
        /\ snapshots' = [snapshots EXCEPT ![s] = @ \cup {starts'[s].selection}]
        /\ UNCHANGED <<teams, saved, provider>>
    BY <1>5, FreezeEffect DEF RowsTyped, FreezeSnapshot, MayReadStart
  <2>2. QED
    BY <2>1 DEF Freezes, Started
<1>6. ASSUME NEW t \in Team, NEW h \in Host, NEW s \in Session,
             ReadSnapshot(t, h, s)
      PROVE  OneOpenStart'
  BY <1>6 DEF ReadSnapshot, MayReadStart, Started
<1>7. ASSUME NEW s \in Session, Dispatch(s) \/ End(s)
      PROVE  OneOpenStart'
  BY <1>7 DEF Dispatch, End, Started
<1>8. ASSUME UNCHANGED <<teams, saved, starts, snapshots, provider>>
      PROVE  OneOpenStart'
  BY <1>8 DEF Started
<1>9. QED
  BY <1>1, <1>2, <1>3, <1>4, <1>5, <1>6, <1>7, <1>8, NextSteps

\* A team's history stays complete.
LEMMA NextHistory ==
  ASSUME IInv, Next
  PROVE  History'
<1> USE IInvRows, RowValues, TeamsNoneAssumption, TeamsBoundAssumption
       DEF IInv, History
<1>1. ASSUME NEW t \in Team, NEW h \in Host, NEW e \in 0..(MaxRevision - 1),
             NEW config \in Config, Save(t, h, e, config)
      PROVE  History'
  <2>1. Saves(t, h, e, config)
    BY <1>1, SaveEffect DEF RowsTyped
  <2>2. QED
    BY <2>1 DEF Saves, Started, Revision, NoConfig, Config
<1>2. ASSUME NEW t \in Team, NEW h \in Host, NEW e \in Revision, Delete(t, h, e)
      PROVE  History'
  <2>1. Deletes(t) /\ teams[t].active = None /\ UNCHANGED <<saved, starts, snapshots, provider>>
    BY <1>2, DeleteEffect DEF RowsTyped, Delete, IdleAt
  <2>2. QED
    BY <2>1 DEF Deletes, Started, Revision, NoConfig, Config
<1>3. ASSUME NEW t \in Team, NEW h \in Host, NEW s \in Session,
             NEW e \in Revision, ReserveStart(t, h, e, s)
      PROVE  History'
  <2>1. /\ Holds(t, s) /\ Records(t, e, s) /\ saved[t][e] # NoConfig
        /\ UNCHANGED <<saved, snapshots, provider>>
    BY <1>3, HoldEffect, RecordEffect DEF RowsTyped, ReserveStart
  <2>2. e \in 1..teams[t].revision
    BY <2>1 DEF Revision
  <2>3. \A u \in Team : teams'[u].revision = teams[u].revision
    BY <2>1 DEF Holds
  <2>4. ASSUME NEW z \in Session, Started(z)'
        PROVE  starts'[z].revision \in 1..teams'[starts'[z].team].revision
    BY <2>1, <2>2, <2>3, <2>4 DEF Records, Started
  <2>5. QED
    BY <2>1, <2>3, <2>4
<1>4. ASSUME NEW t \in Team, NEW h \in Host, NEW s \in Session,
             ConfirmClosed(t, h, s)
      PROVE  History'
  <2>1. /\ provider[s] = "ended" /\ starts[s].team = t /\ Closes(s) /\ Releases(t, s)
        /\ UNCHANGED <<saved, snapshots, provider>>
    BY <1>4, CloseEffect, ReleaseEffect DEF RowsTyped, ConfirmClosed
  <2>2. QED
    BY <2>1 DEF Holds, Closes, Releases, Started, Revision, NoConfig, Config
<1>5. ASSUME NEW t \in Team, NEW h \in Host, NEW s \in Session,
             NEW x \in Selection, FreezeSnapshot(t, h, s, x)
      PROVE  History'
  <2>1. /\ starts[s].team = t /\ ~starts[s].closed /\ x.config = StartConfig(s) /\ Freezes(s, x)
        /\ snapshots' = [snapshots EXCEPT ![s] = @ \cup {starts'[s].selection}]
        /\ UNCHANGED <<teams, saved, provider>>
    BY <1>5, FreezeEffect DEF RowsTyped, FreezeSnapshot, MayReadStart
  <2>2. QED
    BY <2>1 DEF Freezes, Started, Revision, NoConfig, Config
<1>6. ASSUME NEW t \in Team, NEW h \in Host, NEW s \in Session,
             ReadSnapshot(t, h, s)
      PROVE  History'
  BY <1>6 DEF ReadSnapshot, MayReadStart, Started, Revision, NoConfig, Config
<1>7. ASSUME NEW s \in Session, Dispatch(s) \/ End(s)
      PROVE  History'
  BY <1>7 DEF Dispatch, End, Started, Revision, NoConfig, Config
<1>8. ASSUME UNCHANGED <<teams, saved, starts, snapshots, provider>>
      PROVE  History'
  BY <1>8 DEF Started, Revision, NoConfig, Config
<1>9. QED
  BY <1>1, <1>2, <1>3, <1>4, <1>5, <1>6, <1>7, <1>8, NextSteps

\* Open starts stay startable, closed ones ended.
LEMMA NextStartsOpen ==
  ASSUME IInv, Next
  PROVE  StartsOpen'
<1> USE IInvRows, RowValues, TeamsNoneAssumption, TeamsBoundAssumption
       DEF IInv, StartsOpen, OneOpenStart
<1>1. ASSUME NEW t \in Team, NEW h \in Host, NEW e \in 0..(MaxRevision - 1),
             NEW config \in Config, Save(t, h, e, config)
      PROVE  StartsOpen'
  <2>1. Saves(t, h, e, config)
    BY <1>1, SaveEffect DEF RowsTyped
  <2>2. QED
    BY <2>1 DEF Saves, Started
<1>2. ASSUME NEW t \in Team, NEW h \in Host, NEW e \in Revision, Delete(t, h, e)
      PROVE  StartsOpen'
  <2>1. Deletes(t) /\ teams[t].active = None /\ UNCHANGED <<saved, starts, snapshots, provider>>
    BY <1>2, DeleteEffect DEF RowsTyped, Delete, IdleAt
  <2>2. QED
    BY <2>1 DEF Deletes, Started
<1>3. ASSUME NEW t \in Team, NEW h \in Host, NEW s \in Session,
             NEW e \in Revision, ReserveStart(t, h, e, s)
      PROVE  StartsOpen'
  <2>1. /\ Holds(t, s) /\ Records(t, e, s) /\ MayHold(t, e, s) /\ ~teams[t].deleted
        /\ UNCHANGED <<saved, snapshots, provider>>
    BY <1>3, HoldEffect, RecordEffect DEF RowsTyped, ReserveStart
  <2>2. QED
    BY <2>1 DEF Holds, Records, MayHold, Started
<1>4. ASSUME NEW t \in Team, NEW h \in Host, NEW s \in Session,
             ConfirmClosed(t, h, s)
      PROVE  StartsOpen'
  <2>1. /\ provider[s] = "ended" /\ starts[s].team = t /\ Closes(s) /\ Releases(t, s)
        /\ UNCHANGED <<saved, snapshots, provider>>
    BY <1>4, CloseEffect, ReleaseEffect DEF RowsTyped, ConfirmClosed
  <2>2. QED
    BY <2>1 DEF Holds, Closes, Releases, Started
<1>5. ASSUME NEW t \in Team, NEW h \in Host, NEW s \in Session,
             NEW x \in Selection, FreezeSnapshot(t, h, s, x)
      PROVE  StartsOpen'
  <2>1. /\ starts[s].team = t /\ ~starts[s].closed /\ x.config = StartConfig(s) /\ Freezes(s, x)
        /\ snapshots' = [snapshots EXCEPT ![s] = @ \cup {starts'[s].selection}]
        /\ UNCHANGED <<teams, saved, provider>>
    BY <1>5, FreezeEffect DEF RowsTyped, FreezeSnapshot, MayReadStart
  <2>2. QED
    BY <2>1 DEF Freezes, Started
<1>6. ASSUME NEW t \in Team, NEW h \in Host, NEW s \in Session,
             ReadSnapshot(t, h, s)
      PROVE  StartsOpen'
  BY <1>6 DEF ReadSnapshot, MayReadStart, Started
<1>7. ASSUME NEW s \in Session, Dispatch(s) \/ End(s)
      PROVE  StartsOpen'
  BY <1>7 DEF Dispatch, End, Started, TypeOK
<1>8. ASSUME UNCHANGED <<teams, saved, starts, snapshots, provider>>
      PROVE  StartsOpen'
  BY <1>8 DEF Started
<1>9. QED
  BY <1>1, <1>2, <1>3, <1>4, <1>5, <1>6, <1>7, <1>8, NextSteps

\* Sessions stay known.
LEMMA NextKnown ==
  ASSUME IInv, Next
  PROVE  Known'
<1> USE IInvRows, RowValues, TeamsNoneAssumption, TeamsBoundAssumption
       DEF IInv, Known, TypeOK
<1>1. ASSUME NEW t \in Team, NEW h \in Host, NEW e \in 0..(MaxRevision - 1),
             NEW config \in Config, Save(t, h, e, config)
      PROVE  Known'
  <2>1. Saves(t, h, e, config)
    BY <1>1, SaveEffect DEF RowsTyped
  <2>2. QED
    BY <2>1 DEF Saves, Started
<1>2. ASSUME NEW t \in Team, NEW h \in Host, NEW e \in Revision, Delete(t, h, e)
      PROVE  Known'
  <2>1. Deletes(t) /\ teams[t].active = None /\ UNCHANGED <<saved, starts, snapshots, provider>>
    BY <1>2, DeleteEffect DEF RowsTyped, Delete, IdleAt
  <2>2. QED
    BY <2>1 DEF Deletes, Started
<1>3. ASSUME NEW t \in Team, NEW h \in Host, NEW s \in Session,
             NEW e \in Revision, ReserveStart(t, h, e, s)
      PROVE  Known'
  <2>1. /\ Holds(t, s) /\ Records(t, e, s) /\ MayHold(t, e, s) /\ ~teams[t].deleted
        /\ UNCHANGED <<saved, snapshots, provider>>
    BY <1>3, HoldEffect, RecordEffect DEF RowsTyped, ReserveStart
  <2>2. QED
    BY <2>1 DEF Holds, Records, MayHold, Started
<1>4. ASSUME NEW t \in Team, NEW h \in Host, NEW s \in Session,
             ConfirmClosed(t, h, s)
      PROVE  Known'
  <2>1. /\ provider[s] = "ended" /\ starts[s].team = t /\ Closes(s) /\ Releases(t, s)
        /\ UNCHANGED <<saved, snapshots, provider>>
    BY <1>4, CloseEffect, ReleaseEffect DEF RowsTyped, ConfirmClosed
  <2>2. QED
    BY <2>1 DEF Holds, Closes, Releases, Started
<1>5. ASSUME NEW t \in Team, NEW h \in Host, NEW s \in Session,
             NEW x \in Selection, FreezeSnapshot(t, h, s, x)
      PROVE  Known'
  <2>1. /\ starts[s].team = t /\ ~starts[s].closed /\ x.config = StartConfig(s) /\ Freezes(s, x)
        /\ snapshots' = [snapshots EXCEPT ![s] = @ \cup {starts'[s].selection}]
        /\ UNCHANGED <<teams, saved, provider>>
    BY <1>5, FreezeEffect DEF RowsTyped, FreezeSnapshot, MayReadStart
  <2>2. QED
    BY <2>1 DEF Freezes, Started
<1>6. ASSUME NEW t \in Team, NEW h \in Host, NEW s \in Session,
             ReadSnapshot(t, h, s)
      PROVE  Known'
  BY <1>6 DEF ReadSnapshot, MayReadStart, Started
<1>7. ASSUME NEW s \in Session, Dispatch(s) \/ End(s)
      PROVE  Known'
  BY <1>7 DEF Dispatch, End, Started
<1>8. ASSUME UNCHANGED <<teams, saved, starts, snapshots, provider>>
      PROVE  Known'
  BY <1>8 DEF Started
<1>9. QED
  BY <1>1, <1>2, <1>3, <1>4, <1>5, <1>6, <1>7, <1>8, NextSteps

\* Frozen selections stay those of their start.
LEMMA NextFrozen ==
  ASSUME IInv, Next
  PROVE  Frozen'
<1> USE IInvRows, RowValues, TeamsNoneAssumption, TeamsBoundAssumption
       DEF IInv, Frozen, History
<1>1. ASSUME NEW t \in Team, NEW h \in Host, NEW e \in 0..(MaxRevision - 1),
             NEW config \in Config, Save(t, h, e, config)
      PROVE  Frozen'
  <2>1. Saves(t, h, e, config)
    BY <1>1, SaveEffect DEF RowsTyped
  <2>2. QED
    BY <2>1, StartConfigStays DEF Saves, Started
<1>2. ASSUME NEW t \in Team, NEW h \in Host, NEW e \in Revision, Delete(t, h, e)
      PROVE  Frozen'
  <2>1. Deletes(t) /\ teams[t].active = None /\ UNCHANGED <<saved, starts, snapshots, provider>>
    BY <1>2, DeleteEffect DEF RowsTyped, Delete, IdleAt
  <2>2. QED
    BY <2>1 DEF Deletes, Started, StartConfig, Revision, NoConfig
<1>3. ASSUME NEW t \in Team, NEW h \in Host, NEW s \in Session,
             NEW e \in Revision, ReserveStart(t, h, e, s)
      PROVE  Frozen'
  <2>1. /\ Holds(t, s) /\ Records(t, e, s) /\ MayHold(t, e, s) /\ ~teams[t].deleted
        /\ UNCHANGED <<saved, snapshots, provider>>
    BY <1>3, HoldEffect, RecordEffect DEF RowsTyped, ReserveStart
  <2>2. QED
    BY <2>1 DEF Holds, Records, MayHold, Started, StartConfig, Revision, NoConfig
<1>4. ASSUME NEW t \in Team, NEW h \in Host, NEW s \in Session,
             ConfirmClosed(t, h, s)
      PROVE  Frozen'
  <2>1. /\ provider[s] = "ended" /\ starts[s].team = t /\ Closes(s) /\ Releases(t, s)
        /\ UNCHANGED <<saved, snapshots, provider>>
    BY <1>4, CloseEffect, ReleaseEffect DEF RowsTyped, ConfirmClosed
  <2>2. QED
    BY <2>1 DEF Holds, Closes, Releases, Started, StartConfig, Revision, NoConfig
<1>5. ASSUME NEW t \in Team, NEW h \in Host, NEW s \in Session,
             NEW x \in Selection, FreezeSnapshot(t, h, s, x)
      PROVE  Frozen'
  <2>1. /\ starts[s].team = t /\ ~starts[s].closed /\ x.config = StartConfig(s) /\ Freezes(s, x)
        /\ snapshots' = [snapshots EXCEPT ![s] = @ \cup {starts'[s].selection}]
        /\ UNCHANGED <<teams, saved, provider>>
    BY <1>5, FreezeEffect DEF RowsTyped, FreezeSnapshot, MayReadStart
  <2>2. snapshots'[s] # {} /\ \A z \in Session \ {s} : snapshots'[z] = snapshots[z]
    BY <2>1 DEF TypeOK
  <2>3. QED
    BY <2>1, <2>2 DEF Freezes, Started, StartConfig
<1>6. ASSUME NEW t \in Team, NEW h \in Host, NEW s \in Session,
             ReadSnapshot(t, h, s)
      PROVE  Frozen'
  BY <1>6 DEF ReadSnapshot, MayReadStart, Started, StartConfig, TypeOK
<1>7. ASSUME NEW s \in Session, Dispatch(s) \/ End(s)
      PROVE  Frozen'
  BY <1>7 DEF Dispatch, End, Started, StartConfig, Revision, NoConfig
<1>8. ASSUME UNCHANGED <<teams, saved, starts, snapshots, provider>>
      PROVE  Frozen'
  BY <1>8 DEF Started, StartConfig, Revision, NoConfig
<1>9. QED
  BY <1>1, <1>2, <1>3, <1>4, <1>5, <1>6, <1>7, <1>8, NextSteps

\* Callers are told one snapshot.
LEMMA NextOneSnapshot ==
  ASSUME IInv, Next
  PROVE  OneSnapshot'
<1> USE IInvRows, RowValues, TeamsNoneAssumption, TeamsBoundAssumption
       DEF IInv, OneSnapshot, Frozen, History, TypeOK, Known
<1>1. ASSUME NEW t \in Team, NEW h \in Host, NEW e \in 0..(MaxRevision - 1),
             NEW config \in Config, Save(t, h, e, config)
      PROVE  OneSnapshot'
  <2>1. Saves(t, h, e, config)
    BY <1>1, SaveEffect DEF RowsTyped
  <2>2. ASSUME NEW u \in Session, NEW x \in snapshots'[u]
        PROVE  x = starts'[u].selection /\ x.config = StartConfig(u)'
    <3>1. x \in snapshots[u]
      BY <2>1 DEF Saves
    <3>2. Started(u) /\ x = starts[u].selection /\ x.config = StartConfig(u)
      BY <3>1
    <3>3. QED
      BY <2>1, <3>2, StartConfigStays
  <2>3. QED
    BY <2>2
<1>2. ASSUME NEW t \in Team, NEW h \in Host, NEW e \in Revision, Delete(t, h, e)
      PROVE  OneSnapshot'
  <2>1. Deletes(t) /\ teams[t].active = None /\ UNCHANGED <<saved, starts, snapshots, provider>>
    BY <1>2, DeleteEffect DEF RowsTyped, Delete, IdleAt
  <2>2. QED
    BY <2>1 DEF Deletes, Started, StartConfig, Revision, NoConfig
<1>3. ASSUME NEW t \in Team, NEW h \in Host, NEW s \in Session,
             NEW e \in Revision, ReserveStart(t, h, e, s)
      PROVE  OneSnapshot'
  <2>1. /\ Holds(t, s) /\ Records(t, e, s) /\ MayHold(t, e, s) /\ ~teams[t].deleted
        /\ UNCHANGED <<saved, snapshots, provider>>
    BY <1>3, HoldEffect, RecordEffect DEF RowsTyped, ReserveStart
  <2>2. \A z \in Session : z # s => starts'[z] = starts[z]
    BY <2>1 DEF Records
  <2>3. starts'[s] = starts[s] \/ snapshots[s] = {}
    BY <2>1 DEF Records, Started
  <2>4. \A z \in Session : starts'[z] = starts[z] \/ snapshots[z] = {}
    BY <2>2, <2>3
  <2>5. QED
    BY <2>1, <2>4 DEF StartConfig
<1>4. ASSUME NEW t \in Team, NEW h \in Host, NEW s \in Session,
             ConfirmClosed(t, h, s)
      PROVE  OneSnapshot'
  <2>1. /\ provider[s] = "ended" /\ starts[s].team = t /\ Closes(s) /\ Releases(t, s)
        /\ UNCHANGED <<saved, snapshots, provider>>
    BY <1>4, CloseEffect, ReleaseEffect DEF RowsTyped, ConfirmClosed
  <2>2. QED
    BY <2>1 DEF Holds, Closes, Releases, Started, StartConfig, Revision, NoConfig
<1>5. ASSUME NEW t \in Team, NEW h \in Host, NEW s \in Session,
             NEW x \in Selection, FreezeSnapshot(t, h, s, x)
      PROVE  OneSnapshot'
  <2>1. /\ starts[s].team = t /\ ~starts[s].closed /\ x.config = StartConfig(s) /\ Freezes(s, x)
        /\ snapshots' = [snapshots EXCEPT ![s] = @ \cup {starts'[s].selection}]
        /\ UNCHANGED <<teams, saved, provider>>
    BY <1>5, FreezeEffect DEF RowsTyped, FreezeSnapshot, MayReadStart
  <2>2. ASSUME NEW z \in Session \ {s}
        PROVE  /\ snapshots'[z] = snapshots[z] /\ starts'[z] = starts[z]
               /\ StartConfig(z)' = StartConfig(z)
    BY <2>1 DEF Freezes, StartConfig
  <2>3. /\ snapshots'[s] = snapshots[s] \cup {starts'[s].selection}
        /\ StartConfig(s)' = StartConfig(s)
    BY <2>1 DEF Freezes, StartConfig
  <2>4. CASE starts[s].selection = None
    <3>1. snapshots'[s] = snapshots[s] \cup {x} /\ starts'[s].selection = x
      BY <2>1, <2>3, <2>4 DEF Freezes
    <3>2. snapshots[s] = {}
      BY <2>4, TeamsSelectionAssumption
    <3>3. QED
      BY <2>1, <2>2, <2>3, <3>1, <3>2
  <2>5. CASE starts[s].selection # None
    <3>1. starts'[s].selection = starts[s].selection
      BY <2>1, <2>5 DEF Freezes
    <3>2. QED
      BY <2>2, <2>3, <2>5, <3>1
  <2>6. QED
    BY <2>4, <2>5
<1>6. ASSUME NEW t \in Team, NEW h \in Host, NEW s \in Session,
             ReadSnapshot(t, h, s)
      PROVE  OneSnapshot'
  BY <1>6 DEF ReadSnapshot, MayReadStart, Started, StartConfig, Revision, NoConfig
<1>7. ASSUME NEW s \in Session, Dispatch(s) \/ End(s)
      PROVE  OneSnapshot'
  BY <1>7 DEF Dispatch, End, Started, StartConfig, Revision, NoConfig
<1>8. ASSUME UNCHANGED <<teams, saved, starts, snapshots, provider>>
      PROVE  OneSnapshot'
  BY <1>8 DEF Started, StartConfig, Revision, NoConfig
<1>9. QED
  BY <1>1, <1>2, <1>3, <1>4, <1>5, <1>6, <1>7, <1>8, NextSteps

\* A deleted team stays saved.
LEMMA NextRemovedExist ==
  ASSUME IInv, Next
  PROVE  RemovedExist'
<1> USE IInvRows, RowValues DEF IInv, RemovedExist, Exists
<1>1. ASSUME NEW t \in Team, NEW h \in Host, NEW e \in 0..(MaxRevision - 1),
             NEW config \in Config, Save(t, h, e, config)
      PROVE  RemovedExist'
  <2>1. Saves(t, h, e, config)
    BY <1>1, SaveEffect
  <2>2. QED
    BY <2>1 DEF Saves
<1>2. ASSUME NEW t \in Team, NEW h \in Host, NEW e \in Revision, Delete(t, h, e)
      PROVE  RemovedExist'
  <2>1. Deletes(t) /\ teams[t].revision > 0
    BY <1>2, DeleteEffect DEF RowsTyped, Delete
  <2>2. QED
    BY <2>1 DEF Deletes
<1>3. ASSUME NEW t \in Team, NEW h \in Host, NEW s \in Session,
             NEW e \in Revision, ReserveStart(t, h, e, s)
      PROVE  RemovedExist'
  <2>1. Holds(t, s)
    BY <1>3, HoldEffect DEF RowsTyped, ReserveStart
  <2>2. QED
    BY <2>1 DEF Holds
<1>4. ASSUME NEW t \in Team, NEW h \in Host, NEW s \in Session, ConfirmClosed(t, h, s)
      PROVE  RemovedExist'
  <2>1. Releases(t, s)
    BY <1>4, ReleaseEffect DEF RowsTyped, ConfirmClosed
  <2>2. QED
    BY <2>1 DEF Releases, Holds
<1>5. CASE UNCHANGED teams
  BY <1>5
<1>6. \/ \E t \in Team, h \in Host, s \in Session, x \in Selection : FreezeSnapshot(t, h, s, x)
      \/ \E t \in Team, h \in Host, s \in Session : ReadSnapshot(t, h, s)
      \/ \E s \in Session : Dispatch(s) \/ End(s)
      => UNCHANGED teams
  BY DEF FreezeSnapshot, ReadSnapshot, Dispatch, End
<1>7. QED
  BY <1>1, <1>2, <1>3, <1>4, <1>5, <1>6, NextSteps

-----------------------------------------------------------------------------
(* Types. *)

LEMMA RevisionFits == ASSUME NEW e \in 0..(MaxRevision - 1) PROVE e + 1 \in Revision
BY TeamsBoundAssumption DEF Revision

\* A row of teams or of team_starts keeps its type when one column is written.
LEMMA TeamColumn ==
  ASSUME NEW rowsOf \in Teams, NEW t \in Team, NEW x \in Session \cup {None}, NEW d \in BOOLEAN
  PROVE  /\ [rowsOf EXCEPT ![t].active = x] \in Teams
         /\ [rowsOf EXCEPT ![t].deleted = d] \in Teams
BY DEF Teams, TeamRow

LEMMA StartClosed ==
  ASSUME NEW rowsOf \in Starts, NEW s \in Session
  PROVE  [rowsOf EXCEPT ![s].closed = TRUE] \in Starts
BY DEF Starts, StartRow

\* Each command writes values of its columns' types.
LEMMA NextTypeOK ==
  ASSUME TypeOK, Next
  PROVE  TypeOK'
<1> USE TeamsBoundAssumption
<1>1. ASSUME NEW t \in Team, NEW h \in Host, NEW e \in 0..(MaxRevision - 1),
             NEW config \in Config, Save(t, h, e, config)
      PROVE  TypeOK'
  <2> DEFINE renumbered == [teams EXCEPT ![t].revision = e + 1]
  <2>0. e + 1 \in 0..MaxRevision
    BY RevisionFits DEF Revision
  <2>1. renumbered \in [Team -> TeamRow]
    BY <2>0 DEF TypeOK, TeamRow
  <2>2. teams' = [renumbered EXCEPT ![t].host = h]
    BY <1>1 DEF Save
  <2> HIDE DEF renumbered
  <2>3. teams' \in [Team -> TeamRow]
    BY <2>1, <2>2 DEF TeamRow
  <2>4. saved' \in [Team -> [Revision -> Config \cup {NoConfig}]]
    BY <1>1, RevisionFits DEF TypeOK, Save
  <2>5. QED
    BY <1>1, <2>3, <2>4 DEF TypeOK, Save
<1>2. ASSUME NEW t \in Team, NEW h \in Host, NEW e \in Revision, Delete(t, h, e)
      PROVE  TypeOK'
  <2>0. teams \in Teams /\ teams' = [teams EXCEPT ![t].deleted = TRUE]
    BY <1>2 DEF TypeOK, Delete, Teams
  <2>1. teams' \in [Team -> TeamRow]
    BY <2>0, TeamColumn DEF Teams
  <2>2. QED
    BY <1>2, <2>1 DEF TypeOK, Delete
<1>3. ASSUME NEW t \in Team, NEW h \in Host, NEW s \in Session,
             NEW e \in Revision, ReserveStart(t, h, e, s)
      PROVE  TypeOK'
  <2>0. teams \in Teams /\ teams' = [teams EXCEPT ![t].active = s]
    BY <1>3 DEF TypeOK, ReserveStart, Teams
  <2>1. teams' \in [Team -> TeamRow]
    BY <2>0, TeamColumn DEF Teams
  <2>2. CASE UNCHANGED starts
    BY <1>3, <2>1, <2>2 DEF TypeOK, ReserveStart
  <2>3. CASE starts' = [starts EXCEPT ![s] = NewStart(t, e)]
    <3>1. NewStart(t, e) \in StartRow
      BY DEF NewStart, StartRow, Revision
    <3>2. starts' \in [Session -> StartRow]
      BY <2>3, <3>1 DEF TypeOK
    <3>3. QED
      BY <1>3, <2>1, <3>2 DEF TypeOK, ReserveStart
  <2>4. QED
    BY <1>3, <2>2, <2>3 DEF ReserveStart, RecordStart
<1>4. ASSUME NEW t \in Team, NEW h \in Host, NEW s \in Session, ConfirmClosed(t, h, s)
      PROVE  TypeOK'
  <2>0. /\ starts \in Starts /\ starts' = [starts EXCEPT ![s].closed = TRUE]
        /\ teams \in Teams /\ Release(t, s)
    BY <1>4 DEF TypeOK, ConfirmClosed, Starts, Teams
  <2>1. starts' \in [Session -> StartRow]
    BY <2>0, StartClosed DEF Starts
  <2> DEFINE x == IF teams[t].active = s THEN None ELSE teams[t].active
  <2>2. teams' \in [Team -> TeamRow]
    <3>1. teams[t] \in TeamRow
      BY <2>0 DEF Teams
    <3>2. x \in Session \cup {None}
      BY <3>1 DEF TeamRow
    <3>3. teams' = [teams EXCEPT ![t].active = x]
      BY <2>0 DEF Release
    <3>4. QED
      BY <2>0, <3>2, <3>3, TeamColumn DEF Teams
  <2>3. QED
    BY <1>4, <2>1, <2>2 DEF TypeOK, ConfirmClosed
<1>5. ASSUME NEW t \in Team, NEW h \in Host, NEW s \in Session,
             NEW x \in Selection, FreezeSnapshot(t, h, s, x)
      PROVE  TypeOK'
  <2>1. /\ Freeze(starts[s], x) \in StartRow
        /\ Freeze(starts[s], x).selection \in Selection
    BY DEF TypeOK, Freeze, StartRow
  <2>2. starts' = [starts EXCEPT ![s] = Freeze(starts[s], x)]
    BY <1>5 DEF FreezeSnapshot
  <2>3. starts' \in [Session -> StartRow] /\ starts'[s] = Freeze(starts[s], x)
    BY <2>1, <2>2 DEF TypeOK
  <2>4. snapshots' \in [Session -> SUBSET Selection]
    BY <1>5, <2>1, <2>3 DEF TypeOK, FreezeSnapshot
  <2>5. QED
    BY <1>5, <2>3, <2>4 DEF TypeOK, FreezeSnapshot
<1>6. ASSUME NEW t \in Team, NEW h \in Host, NEW s \in Session, ReadSnapshot(t, h, s)
      PROVE  TypeOK'
  <2>1. starts[s].selection \in Selection
    BY <1>6 DEF TypeOK, ReadSnapshot, StartRow
  <2>2. snapshots' \in [Session -> SUBSET Selection]
    BY <1>6, <2>1 DEF TypeOK, ReadSnapshot
  <2>3. QED
    BY <1>6, <2>2 DEF TypeOK, ReadSnapshot
<1>7. ASSUME NEW s \in Session, Dispatch(s) \/ End(s)
      PROVE  TypeOK'
  BY <1>7 DEF TypeOK, Dispatch, End
<1>8. ASSUME NEW c \in Companion, MoveCompanion(c)
      PROVE  TypeOK'
  BY <1>8 DEF TypeOK, MoveCompanion
<1>9. CASE ArchiveOwner \/ DeleteOwner \/ CreateOwner
  BY <1>9 DEF TypeOK, ArchiveOwner, DeleteOwner, CreateOwner
<1>10. CASE UNCHANGED vars
  BY <1>10 DEF TypeOK, vars
<1>11. QED
  BY <1>1, <1>2, <1>3, <1>4, <1>5, <1>6, <1>7, <1>8, <1>9, <1>10
     DEF Next, TeamCommand, StartCommand, ReplaySave

-----------------------------------------------------------------------------
(* The theorems. *)

LEMMA InitIInv == Init => IInv
<1> SUFFICES ASSUME Init PROVE IInv
  OBVIOUS
<1>1. TypeOK
  BY TeamsBoundAssumption
     DEF Init, TypeOK, NoTeam, NoStart, NoConfig, TeamRow, StartRow, Revision
<1>2. /\ \A t \in Team : teams[t] = NoTeam /\ \A r \in Revision : saved[t][r] = NoConfig
      /\ \A s \in Session : starts[s] = NoStart /\ snapshots[s] = {} /\ provider[s] = "idle"
  BY DEF Init
<1>3. OneOpenStart
  BY <1>2, TeamsNoneAssumption DEF OneOpenStart, NoTeam, NoStart
<1>4. History
  BY <1>2, TeamsBoundAssumption DEF History, NoTeam, NoStart, Started, Revision
<1>5. OneSnapshot /\ StartsOpen /\ Known /\ Frozen /\ RemovedExist
  BY <1>2 DEF OneSnapshot, StartsOpen, Known, Frozen, RemovedExist, NoStart, NoTeam, Started
<1>6. QED
  BY <1>1, <1>3, <1>4, <1>5 DEF IInv

LEMMA InductiveInvariant == Spec => []IInv
<1>1. IInv /\ Next => IInv'
  <2> SUFFICES ASSUME IInv, Next PROVE IInv'
    OBVIOUS
  <2>1. TypeOK'
    BY NextTypeOK DEF IInv
  <2>2. QED
    BY <2>1, NextOneOpenStart, NextHistory, NextOneSnapshot, NextStartsOpen, NextKnown,
       NextFrozen, NextRemovedExist DEF IInv
<1>2. IInv /\ UNCHANGED vars => IInv'
  BY DEF IInv, vars, TypeOK, OneOpenStart, History, OneSnapshot, StartsOpen, Known, Frozen,
         RemovedExist, Exists, Started, StartConfig
<1>3. QED
  BY InitIInv, <1>1, <1>2, PTL DEF Spec

\* Every row of teams, team_revisions and team_starts keeps to its columns,
\* whatever commands are repeated, late or out of order.
THEOREM TypeCorrect == Spec => []TypeOK
<1>1. IInv => TypeOK
  BY DEF IInv
<1>2. QED
  BY <1>1, InductiveInvariant, PTL

\* What save, reserve_start, confirm_closed, delete and start_snapshot keep of
\* every team: it is held by exactly its open start, its history is complete,
\* and every caller of start_snapshot is told the one selection of its start.
THEOREM Safe == Spec => [](OneOpenStart /\ History /\ OneSnapshot)
<1>1. IInv => OneOpenStart /\ History /\ OneSnapshot
  BY DEF IInv
<1>2. QED
  BY <1>1, InductiveInvariant, PTL

\* start_snapshot tells every caller of a start the same selection, also one that
\* comes after later saves of the team.
THEOREM SelectionIsOne == Spec => []OneSnapshot
BY Safe, PTL

\* The team of a session the Provider runs is reserved for it: reserve_start
\* admits no second session and delete refuses the team until confirm_closed.
THEOREM RunningIsReserved == Spec => []RunsReserved
BY IInvRuns, InductiveInvariant, PTL

\* No command overwrites a saved revision or skips one.
THEOREM SavedStays == Spec => SavedIsImmutable
<1>1. ASSUME IInv, Next
      PROVE  SavedIsImmutableStep
  <2>1. ASSUME NEW t \in Team, NEW h \in Host, NEW e \in 0..(MaxRevision - 1),
               NEW config \in Config, Save(t, h, e, config)
        PROVE  SavedIsImmutableStep
    <3>1. Saves(t, h, e, config)
      BY <1>1, <2>1, IInvRows, SaveEffect DEF RowsTyped
    <3>2. saved[t][e + 1] = NoConfig
      BY <1>1, <3>1, IInvRows, RowValues, RevisionFits DEF IInv, History, Saves
    <3>3. QED
      BY <3>1, <3>2 DEF Saves, SavedIsImmutableStep
  <2>2. ASSUME NEW t \in Team, NEW h \in Host, NEW e \in Revision, Delete(t, h, e)
        PROVE  SavedIsImmutableStep
    BY <1>1, <2>2, DeleteEffect, IInvRows
       DEF RowsTyped, Delete, Deletes, SavedIsImmutableStep
  <2>3. ASSUME NEW t \in Team, NEW h \in Host, NEW s \in Session,
               NEW e \in Revision, ReserveStart(t, h, e, s)
        PROVE  SavedIsImmutableStep
    BY <1>1, <2>3, HoldEffect, IInvRows
       DEF RowsTyped, ReserveStart, Holds, SavedIsImmutableStep
  <2>4. ASSUME NEW t \in Team, NEW h \in Host, NEW s \in Session, ConfirmClosed(t, h, s)
        PROVE  SavedIsImmutableStep
    BY <1>1, <2>4, ReleaseEffect, IInvRows
       DEF RowsTyped, ConfirmClosed, Releases, Holds, SavedIsImmutableStep
  <2>5. CASE UNCHANGED <<teams, saved>>
    BY <2>5 DEF SavedIsImmutableStep
  <2>6. QED
    <3>1. \/ \E t \in Team, h \in Host, s \in Session, x \in Selection : FreezeSnapshot(t, h, s, x)
          \/ \E t \in Team, h \in Host, s \in Session : ReadSnapshot(t, h, s)
          \/ \E s \in Session : Dispatch(s) \/ End(s)
          => UNCHANGED <<teams, saved>>
      BY DEF FreezeSnapshot, ReadSnapshot, Dispatch, End
    <3>2. QED
      BY <1>1, <2>1, <2>2, <2>3, <2>4, <2>5, <3>1, NextSteps
<1>2. IInv /\ [Next]_vars => [SavedIsImmutableStep]_vars
  BY <1>1
<1>3. QED
  BY <1>2, InductiveInvariant, PTL DEF Spec, SavedIsImmutable

\* No command reopens, moves or re-resolves a start.
THEOREM DecidedStays == Spec => StartIsDecided
<1>1. ASSUME IInv, Next
      PROVE  StartIsDecidedStep
  <2> USE DEF StartIsDecidedStep, Started
  <2>1. ASSUME NEW t \in Team, NEW h \in Host, NEW s \in Session,
               NEW e \in Revision, ReserveStart(t, h, e, s)
        PROVE  StartIsDecidedStep
    <3>1. Records(t, e, s)
      BY <1>1, <2>1, RecordEffect, IInvRows DEF RowsTyped, ReserveStart
    <3>2. QED
      BY <3>1 DEF Records
  <2>2. ASSUME NEW t \in Team, NEW h \in Host, NEW s \in Session, ConfirmClosed(t, h, s)
        PROVE  StartIsDecidedStep
    <3>1. Closes(s)
      BY <1>1, <2>2, CloseEffect, IInvRows DEF RowsTyped, ConfirmClosed
    <3>2. QED
      BY <3>1 DEF Closes
  <2>3. ASSUME NEW t \in Team, NEW h \in Host, NEW s \in Session,
               NEW x \in Selection, FreezeSnapshot(t, h, s, x)
        PROVE  StartIsDecidedStep
    <3>1. Freezes(s, x)
      BY <1>1, <2>3, FreezeEffect, IInvRows DEF RowsTyped, FreezeSnapshot
    <3>2. QED
      BY <3>1 DEF Freezes
  <2>4. CASE UNCHANGED starts
    BY <2>4
  <2>5. QED
    <3>1. \/ \E t \in Team, h \in Host, e \in 0..(MaxRevision - 1), config \in Config :
               Save(t, h, e, config)
          \/ \E t \in Team, h \in Host, e \in Revision : Delete(t, h, e)
          \/ \E t \in Team, h \in Host, s \in Session : ReadSnapshot(t, h, s)
          \/ \E s \in Session : Dispatch(s) \/ End(s)
          => UNCHANGED starts
      BY DEF Save, Delete, ReadSnapshot, Dispatch, End
    <3>2. QED
      BY <1>1, <2>1, <2>2, <2>3, <2>4, <3>1, NextSteps
<1>2. IInv /\ [Next]_vars => [StartIsDecidedStep]_vars
  BY <1>1
<1>3. QED
  BY <1>2, InductiveInvariant, PTL DEF Spec, StartIsDecided

\* delete_owner, whose rows of teams restrict it, never deletes an Owner that has
\* saved a team: the team stays, deleted or not, and with it the Owner.
TeamsKeepOwner == owner = "deleted" => \A t \in Team : ~Exists(t)

THEOREM OwnerOutlivedByNoTeam == Spec => []TeamsKeepOwner
<1>1. Init => TeamsKeepOwner
  BY DEF Init, TeamsKeepOwner
<1>2. ASSUME IInv, TeamsKeepOwner, Next
      PROVE  TeamsKeepOwner'
  <2> SUFFICES ASSUME owner' = "deleted"
               PROVE  \A t \in Team : ~Exists(t)'
    BY DEF TeamsKeepOwner
  <2>1. CASE owner = "deleted"
    <3>1. \A t \in Team : ~Exists(t)
      BY <1>2, <2>1 DEF TeamsKeepOwner
    <3>2. UNCHANGED teams
      BY <1>2, <2>1, <3>1
         DEF Next, TeamCommand, StartCommand, ReplaySave, Save, Delete, ReserveStart,
             ConfirmClosed, FreezeSnapshot, ReadSnapshot, MayReadStart, ArchiveOwner,
             DeleteOwner, CreateOwner, MoveCompanion, Dispatch, End, vars
    <3>3. QED
      BY <3>1, <3>2 DEF Exists
  <2>2. CASE owner # "deleted"
    <3>1. ASSUME NEW t \in Team, NEW h \in Host, TeamCommand(t, h) PROVE owner' = owner
      BY <3>1 DEF TeamCommand, ReplaySave, Save, Delete, vars
    <3>2. ASSUME NEW t \in Team, NEW h \in Host, NEW s \in Session, StartCommand(t, h, s)
          PROVE  owner' = owner
      BY <3>2 DEF StartCommand, ReserveStart, ConfirmClosed, FreezeSnapshot, ReadSnapshot
    <3>3. ArchiveOwner \/ CreateOwner => owner' # "deleted"
      BY DEF ArchiveOwner, CreateOwner
    <3>4. (\E c \in Companion : MoveCompanion(c)) \/ (\E s \in Session : Dispatch(s) \/ End(s))
            => owner' = owner
      BY DEF MoveCompanion, Dispatch, End
    <3>5. DeleteOwner
      BY <1>2, <2>2, <3>1, <3>2, <3>3, <3>4 DEF Next
    <3>6. QED
      BY <3>5 DEF DeleteOwner, Exists
  <2>3. QED
    BY <2>1, <2>2
<1>3. TeamsKeepOwner /\ UNCHANGED vars => TeamsKeepOwner'
  BY DEF TeamsKeepOwner, Exists, vars
<1>4. QED
  BY <1>1, <1>2, <1>3, InductiveInvariant, PTL DEF Spec

-----------------------------------------------------------------------------
(* The commands implement TeamSessions.                                      *)

\* A command that leaves these columns alone leaves the abstract ones.
LEMMA TeamsUnseen ==
  ASSUME \A t \in Team : teams'[t].deleted = teams[t].deleted
  PROVE  {t \in Team : teams[t].deleted}' = {t \in Team : teams[t].deleted}
OBVIOUS

LEMMA StartsUnseen ==
  ASSUME \A s \in Session : /\ starts'[s].team = starts[s].team
                            /\ starts'[s].revision = starts[s].revision
                            /\ starts'[s].closed = starts[s].closed
  PROVE  /\ [s \in Session |-> starts[s].team]' = [s \in Session |-> starts[s].team]
         /\ [s \in Session |-> starts[s].revision]' = [s \in Session |-> starts[s].revision]
         /\ {s \in Session : starts[s].closed}' = {s \in Session : starts[s].closed}
OBVIOUS

\* A team is busy with the session that holds it.
LEMMA BusyIsHeld ==
  ASSUME IInv, NEW t \in Team, Sessions!Busy(t)
  PROVE  teams[t].active # None
BY TeamsNoneAssumption DEF Sessions!Busy, Sessions!Open, IInv, OneOpenStart

LEMMA LatestIsRevision ==
  ASSUME IInv, NEW t \in Team
  PROVE  Sessions!Latest(t, teams[t].revision)
BY DEF Sessions!Latest, IInv, History

LEMMA SaveIsSave ==
  ASSUME IInv, NEW t \in Team, NEW h \in Host, NEW e \in 0..(MaxRevision - 1),
         NEW config \in Config, Save(t, h, e, config)
  PROVE  Sessions!Save(t, e + 1, config)
<1>1. Saves(t, h, e, config)
  BY SaveEffect, IInvRows
<1>2. t \notin {u \in Team : teams[u].deleted}
  BY DEF Save, IInv, RemovedExist
<1>3. Sessions!Latest(t, (e + 1) - 1)
  BY <1>1, LatestIsRevision, TeamsBoundAssumption DEF Saves
<1>4. saved' = [saved EXCEPT ![t][e + 1] = config]
  BY DEF Save
<1>5. {u \in Team : teams[u].deleted}' = {u \in Team : teams[u].deleted}
  BY <1>1, TeamsUnseen DEF Saves
<1>6. QED
  BY <1>1, <1>2, <1>3, <1>4, <1>5, StartsUnseen DEF Sessions!Save, Saves

LEMMA DeleteIsRemove ==
  ASSUME IInv, NEW t \in Team, NEW h \in Host, NEW e \in Revision, Delete(t, h, e)
  PROVE  Sessions!Remove(t)
<1>1. /\ Deletes(t) /\ teams[t].active = None
      /\ UNCHANGED <<saved, starts, snapshots, provider>>
  BY DeleteEffect, IInvRows DEF RowsTyped, Delete, IdleAt
<1>2. ~Sessions!Busy(t)
  BY <1>1, BusyIsHeld
<1>3. {u \in Team : teams[u].deleted}' = {u \in Team : teams[u].deleted} \cup {t}
  BY <1>1 DEF Deletes
<1>4. QED
  BY <1>1, <1>2, <1>3, StartsUnseen DEF Sessions!Remove

\* A first reserve_start opens the session, a replay changes nothing.
LEMMA ReserveIsStart ==
  ASSUME IInv, NEW t \in Team, NEW h \in Host, NEW s \in Session, NEW e \in Revision,
         ReserveStart(t, h, e, s)
  PROVE  Sessions!Start(s, t, e) \/ UNCHANGED Sessions!vars
<1>1. /\ Holds(t, s) /\ Records(t, e, s) /\ MayHold(t, e, s) /\ ~teams[t].deleted
      /\ UNCHANGED <<saved, snapshots, provider>>
  BY HoldEffect, RecordEffect, IInvRows DEF RowsTyped, ReserveStart
<1>2. {u \in Team : teams[u].deleted}' = {u \in Team : teams[u].deleted}
  BY <1>1, TeamsUnseen DEF Holds
<1>3. CASE starts[s].team = None
  <2>1. teams[t].active = None /\ teams[t].revision = e
    BY <1>1, <1>3, TeamsNoneAssumption DEF MayHold, IInv, OneOpenStart
  <2>2. ~Sessions!Busy(t) /\ Sessions!Latest(t, e)
    BY <2>1, BusyIsHeld, LatestIsRevision
  <2>3. /\ starts'[s].team = t /\ starts'[s].revision = e /\ ~starts'[s].closed
        /\ \A x \in Session \ {s} : starts'[x] = starts[x]
    BY <1>1, <1>3, TeamsNoneAssumption DEF Records
  <2>4. ~starts[s].closed
    BY <1>3 DEF IInv, StartsOpen, Started
  <2>5. [x \in Session |-> starts[x].team]'
          = [[x \in Session |-> starts[x].team] EXCEPT ![s] = t]
    BY <2>3
  <2>6. [x \in Session |-> starts[x].revision]'
          = [[x \in Session |-> starts[x].revision] EXCEPT ![s] = e]
    BY <2>3
  <2>7. {x \in Session : starts[x].closed}' = {x \in Session : starts[x].closed}
    BY <2>3, <2>4
  <2>8. QED
    BY <1>1, <1>2, <1>3, <2>2, <2>5, <2>6, <2>7 DEF Sessions!Start
<1>4. CASE starts[s].team # None
  <2>1. starts' = starts
    BY <1>1, <1>4 DEF Records
  <2>2. QED
    BY <1>1, <1>2, <2>1, StartsUnseen DEF Sessions!vars
<1>5. QED
  BY <1>3, <1>4

\* The first answer is told while the start is open; a later one is the same.
LEMMA SnapshotIsTell ==
  ASSUME IInv, NEW s \in Session, Started(s), NEW x \in Selection,
         x.config = StartConfig(s),
         snapshots[s] = {} => ~starts[s].closed,
         snapshots[s] # {} => snapshots[s] = {x},
         snapshots' = [snapshots EXCEPT ![s] = @ \cup {x}],
         UNCHANGED <<teams, saved, provider>>,
         \A z \in Session : /\ starts'[z].team = starts[z].team
                            /\ starts'[z].revision = starts[z].revision
                            /\ starts'[z].closed = starts[z].closed
  PROVE  Sessions!Tell(s, x)
<1>1. snapshots' = [snapshots EXCEPT ![s] = {x}]
  BY DEF IInv, TypeOK
<1>2. x.config = saved[[z \in Session |-> starts[z].team][s]]
                      [[z \in Session |-> starts[z].revision][s]]
  BY DEF StartConfig
<1>3. IF snapshots[s] = {} THEN Sessions!Open(s) ELSE snapshots[s] = {x}
  BY DEF Sessions!Open, Started
<1>4. {u \in Team : teams[u].deleted}' = {u \in Team : teams[u].deleted}
  OBVIOUS
<1>5. QED
  BY <1>1, <1>2, <1>3, <1>4, StartsUnseen DEF Sessions!Tell, Started

LEMMA FreezeIsTell ==
  ASSUME IInv, NEW t \in Team, NEW h \in Host, NEW s \in Session, NEW x \in Selection,
         FreezeSnapshot(t, h, s, x)
  PROVE  \E y \in Selection : Sessions!Tell(s, y)
<1>1. /\ starts[s].team = t /\ ~starts[s].closed /\ x.config = StartConfig(s) /\ Freezes(s, x)
      /\ snapshots' = [snapshots EXCEPT ![s] = @ \cup {starts'[s].selection}]
      /\ UNCHANGED <<teams, saved, provider>>
  BY FreezeEffect, IInvRows DEF RowsTyped, FreezeSnapshot, MayReadStart
<1> DEFINE y == starts'[s].selection
<1>2. y \in Selection /\ y.config = StartConfig(s)
  BY <1>1 DEF Freezes, IInv, Frozen, TypeOK, StartRow
<1>3. snapshots[s] # {} => snapshots[s] = {y}
  BY <1>1, TeamsSelectionAssumption DEF Freezes, IInv, OneSnapshot, TypeOK
<1>4. Started(s)
  BY <1>1, TeamsNoneAssumption DEF Started
<1>5. \A z \in Session : /\ starts'[z].team = starts[z].team
                         /\ starts'[z].revision = starts[z].revision
                         /\ starts'[z].closed = starts[z].closed
  BY <1>1 DEF Freezes
<1>6. Sessions!Tell(s, y)
  BY <1>1, <1>2, <1>3, <1>4, <1>5, SnapshotIsTell
<1>7. QED
  BY <1>2, <1>6

LEMMA ReadIsTell ==
  ASSUME IInv, NEW t \in Team, NEW h \in Host, NEW s \in Session, ReadSnapshot(t, h, s)
  PROVE  \E y \in Selection : Sessions!Tell(s, y)
<1>1. /\ starts[s].selection # None
      /\ snapshots' = [snapshots EXCEPT ![s] = @ \cup {starts[s].selection}]
      /\ UNCHANGED <<teams, saved, starts, provider>>
  BY DEF ReadSnapshot
<1> DEFINE y == starts[s].selection
<1>2. y \in Selection /\ y.config = StartConfig(s) /\ Started(s) /\ snapshots[s] # {}
  BY <1>1 DEF IInv, Frozen, TypeOK, StartRow
<1>3. snapshots[s] = {y}
  BY <1>2 DEF IInv, OneSnapshot
<1>4. Sessions!Tell(s, y)
  BY <1>1, <1>2, <1>3, SnapshotIsTell
<1>5. QED
  BY <1>2, <1>4

\* A repeated or late confirmation changes no column the abstraction sees.
LEMMA ConfirmIsClose ==
  ASSUME IInv, NEW t \in Team, NEW h \in Host, NEW s \in Session, ConfirmClosed(t, h, s)
  PROVE  Sessions!Close(s) \/ UNCHANGED Sessions!vars
<1>1. /\ provider[s] = "ended" /\ starts[s].team = t /\ Closes(s) /\ Releases(t, s)
      /\ UNCHANGED <<saved, snapshots, provider>>
  BY CloseEffect, ReleaseEffect, IInvRows DEF RowsTyped, ConfirmClosed
<1>2. {u \in Team : teams[u].deleted}' = {u \in Team : teams[u].deleted}
  BY <1>1 DEF Releases, Holds
<1>3. /\ [x \in Session |-> starts[x].team]' = [x \in Session |-> starts[x].team]
      /\ [x \in Session |-> starts[x].revision]' = [x \in Session |-> starts[x].revision]
      /\ {x \in Session : starts[x].closed}' = {x \in Session : starts[x].closed} \cup {s}
  BY <1>1 DEF Closes
<1>4. CASE starts[s].closed
  <2>1. {x \in Session : starts[x].closed}' = {x \in Session : starts[x].closed}
    BY <1>3, <1>4
  <2>2. QED
    BY <1>1, <1>2, <1>3, <2>1 DEF Sessions!vars
<1>5. CASE ~starts[s].closed
  <2>1. Sessions!Open(s)
    BY <1>1, <1>5, TeamsNoneAssumption DEF Sessions!Open
  <2>2. QED
    BY <1>1, <1>2, <1>3, <2>1 DEF Sessions!Close
<1>6. QED
  BY <1>4, <1>5

\* The Provider performs what is open and told.
LEMMA ProviderPerforms ==
  ASSUME IInv, NEW s \in Session, Dispatch(s) \/ End(s)
  PROVE  Sessions!Perform(s) \/ Sessions!End(s)
<1>1. CASE Dispatch(s)
  <2>1. /\ provider[s] = "idle" /\ snapshots[s] # {}
        /\ provider' = [provider EXCEPT ![s] = "running"]
        /\ UNCHANGED <<teams, saved, starts, snapshots>>
    BY <1>1 DEF Dispatch
  <2>2. Sessions!Open(s)
    BY <2>1 DEF Sessions!Open, IInv, Known, StartsOpen, Started
  <2>3. QED
    BY <2>1, <2>2 DEF Sessions!Perform
<1>2. CASE End(s)
  BY <1>2 DEF End, Sessions!End
<1>3. QED
  BY <1>1, <1>2

\* Whatever is retried, repeated or late, the commands of save, reserve_start,
\* start_snapshot, confirm_closed and delete implement one history of every team
\* and one performance of it at a time.
THEOREM ImplementsSessions == Spec => SessionsSpec
<1>1. Init => Sessions!Init
  BY DEF Init, Sessions!Init, NoTeam, NoStart
<1>2. ASSUME IInv, Next
      PROVE  [Sessions!Next]_(Sessions!vars)
  <2>1. ASSUME NEW t \in Team, NEW h \in Host, NEW e \in 0..(MaxRevision - 1),
               NEW config \in Config, Save(t, h, e, config)
        PROVE  Sessions!Next
    BY <1>2, <2>1, SaveIsSave, RevisionFits DEF Sessions!Next
  <2>2. ASSUME NEW t \in Team, NEW h \in Host, NEW e \in Revision, Delete(t, h, e)
        PROVE  Sessions!Next
    BY <1>2, <2>2, DeleteIsRemove DEF Sessions!Next
  <2>3. ASSUME NEW t \in Team, NEW h \in Host, NEW s \in Session,
               NEW e \in Revision, ReserveStart(t, h, e, s)
        PROVE  Sessions!Next \/ UNCHANGED Sessions!vars
    BY <1>2, <2>3, ReserveIsStart DEF Sessions!Next
  <2>4. ASSUME NEW t \in Team, NEW h \in Host, NEW s \in Session, ConfirmClosed(t, h, s)
        PROVE  Sessions!Next \/ UNCHANGED Sessions!vars
    BY <1>2, <2>4, ConfirmIsClose DEF Sessions!Next
  <2>5. ASSUME NEW t \in Team, NEW h \in Host, NEW s \in Session,
               NEW x \in Selection, FreezeSnapshot(t, h, s, x)
        PROVE  Sessions!Next
    BY <1>2, <2>5, FreezeIsTell DEF Sessions!Next
  <2>6. ASSUME NEW t \in Team, NEW h \in Host, NEW s \in Session, ReadSnapshot(t, h, s)
        PROVE  Sessions!Next
    BY <1>2, <2>6, ReadIsTell DEF Sessions!Next
  <2>7. ASSUME NEW s \in Session, Dispatch(s) \/ End(s)
        PROVE  Sessions!Next
    BY <1>2, <2>7, ProviderPerforms DEF Sessions!Next
  <2>8. CASE UNCHANGED <<teams, saved, starts, snapshots, provider>>
    BY <2>8 DEF Sessions!vars
  <2>9. QED
    BY <1>2, <2>1, <2>2, <2>3, <2>4, <2>5, <2>6, <2>7, <2>8, NextSteps
<1>3. UNCHANGED vars => UNCHANGED Sessions!vars
  BY DEF vars, Sessions!vars
<1>4. QED
  BY <1>1, <1>2, <1>3, InductiveInvariant, PTL DEF Spec, SessionsSpec, Sessions!Spec
=============================================================================
