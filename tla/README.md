# eidolon_data: models, checks and proofs

This directory specifies the System Data authority of the repository
(`src/eidolon_data`) in TLA+. TLC checks the models on small instances; TLAPS
proves the most important properties for every value of the constants.

- `tlc -config <file>.cfg <module>.tla` repeats a run (`PROJECT.json` "runs" pairs them);
- `tlapm <module>Proofs.tla` repeats the proofs of a module.

## 1. The system and its parts

One process (or a few) owns a SQLite database and a directory of image files.
HTTP authorities authorize a caller and call services; a service method is one
SQL transaction, and almost every one writes a governance fact into the
`audit_outbox` table of the same transaction. A dispatcher loop drains that
table to a bus. `PROJECT.json` lists the sources of each part and its status.

| part | state | operations | what makes it correct |
|---|---|---|---|
| Owner and Companion workspace (`services/owner_workspace.py`) | `owners` (status, default pointer, revision), `companions` (lifecycle, kind, revision, Realm), `memory_realms` | create, update, rename, archive Owner; onboard; provision; ensure a Realm; retire, archive, put away, restore; set the default | the default answers, retirement is not skipped, one shared Realm, what was read under a revision stands with it, every change has its fact and every fact its change |
| Deletion (`owner_deletion.py`, `companion.py`) | the same rows and everything that references them | delete an Owner, a Companion | nothing dangling, nothing of another Owner, it can be done |
| Guard bindings (`repositories/guard_bindings.py`) | `guard_bindings` | bind, update policy, disable or revoke | one active binding per device and per guard, guard in force |
| Saved teams (`services/teams.py`) | `teams`, `team_revisions`, `team_starts` | save, reserve a start, freeze and read its snapshot, confirm closed, delete | a team performs for one session at a time, saved revisions immutable, one answer per start |
| Audit outbox (`audit/`) | `audit_outbox`, the loop's batch | enqueue, collect, publish, mark, retry, purge | nothing lost, settled in the end, retention not restarted |
| Governance history (`list_for_owner`) | a client's cursor | pages | no skip, no repeat, newest first |
| Onboarding / provisioning replay | derived ids, fingerprints kept in the rows a first run wrote | initialize, provision, read a result | one result per operation id, a lost answer can be asked again |
| Persona genomes (`services/persona_service.py`) | genomes, the pointer to the current one, receipts of edits | edit and retry, rename, restore, reset, propose, approve, reject | one line of immutable chapters, one name, one answer per operation, no lost update |
| Smart-home registry (`services/smarthome.py`) | areas, devices, scenes, placements under one revision | 11 commands with an expected revision, reads in six statements, backfill by starting hosts | a client with the present revision holds the present home, a revision names one home |
| Persons (`services/persons.py`) | `persons`, their memory Realms, deletion receipts | create, update, candidate life, archive, restore, delete in two phases, open and suspend memory | candidates bounded, memory open only for whom it may be, deleted is gone, a revision names one Person |
| Person photos (`services/person_faces.py`) | one row with one key for a Person, and the file | replace, delete, read, archive with its Person | no row without its file, no file forgotten |
| Voiceprints (`services/voiceprints.py`) | profiles, enrollments, observations of turns | enroll, add sample, complete, cancel, expire, delete, discover, record evidence and promote | one voice, an enrollment ends once, no vectors outlive their voice, promotion by the present voice |
| Companion faces (`repositories/companion_face_assets.py`) | versions with content-addressed keys, and the files | set (check, store, record), clear, idle clip | a recorded face can be shown, no file forgotten |
| Owner face profile (`repositories/owner_face_profiles.py`) | numbered revisions with references | draft, add, activate, clear, purge superseded | the desired profile is complete, a clearing stands |
| Object store (`services/object_storage.py`) | files by key | put, delete | a file is whole or absent |

**How they interact.** Teams read the Owner's status and the active Companions;
guard bindings reference Companions; deletion cascades through all of them;
every command commits audit rows with its own; the workspace authority's
history read pages over what the dispatcher is purging. External actors are the
bus, the media Provider, the conversation coordinator and the clients that
retry.

**What is hard.** (a) Commands of several clients in any order, late or twice:
If-Match revisions, replays by operation id. (b) The outbox loop's read,
publish and mark are separate transactions and the process may end between any
two. (c) Transports acknowledge part of a batch. (d) Keys of purged rows come
back in SQLite. (e) With `sqlite_pool_size` above 1 or a second process, SELECTs
run in autocommit before the first write of a transaction. (f) Files are written
and removed around a database commit. `PROJECT.json` "hazards" lists each one
with its line and the properties that watch it.

## 2. Modules and plan

1. `OwnerWorkspace` (+ `OwnerWorkspaceProofs`): the rows every other part hangs on.
2. `Operations` (what a caller of an operation id is promised) and
   `Provisioning`, which extends `OwnerWorkspace` with the ids, fingerprints and
   answers and implements it (+ `ProvisioningProofs`).
3. `WorkspaceSessions`: the read and the write of a lifecycle command as two
   steps, against the persona commands of the other process.
4. `TeamSessions` (what is promised of saved teams) and `Teams` (how), with the
   media Provider as an actor (+ `TeamsProofs`).
5. `AuditDelivery` (what is promised), `AuditOutbox` (how), `AuditOutboxProofs`.
6. `GovernanceHistory`: extends `AuditOutbox` with a reader of pages; proved about
   in `AuditOutboxProofs` too.
7. `PersonaBook` (what is promised of a persona) and `PersonaGenomes` (how): the
   chapters of one Companion's persona (+ `PersonaGenomesProofs`).
8. `SmartHomeRegistry` (+ `SmartHomeRegistryProofs`): the home of one Owner, its
   readers and the hosts that fill it.
9. `Persons`, and `Voiceprints` which extends it (+ `VoiceprintsProofs`): the
   people an Owner knows, their memories and their voices. They share commands
   (archive, discovery, promotion), so one instance checks both.
10. `ObjectStore`, `PersonFaces` and `CompanionFaces` which extend it,
    `OwnerFaces`, and `Faces` which composes the three with the commands on the
    Owner (+ `FacesProofs`).

What could come next: the reads of the Owner that precede a write in
`reserve_start`, `set_default_companion` and provisioning, as steps of
`WorkspaceSessions`; an abstract specification of an enrollment (asked for, then ended once) that `Voiceprints`
implements.

A run is kept for each distinct question, and runs of one module are merged
where one instance answers several.

## 3. What each module models

**Atomicity.** Each command is one action. This is what the code gives with its
default `sqlite_pool_size = 1`: a process has one connection, so a transaction
runs from its first SELECT to its commit before the next begins. In `Teams` the
same holds with several connections for what a team's own rows decide, because
`save`, `reserve_start`, `confirm_closed`, `delete` and `start_snapshot` take
the write lock with an UPDATE before they read those rows; their read of the
Owner is before it, and is not modelled. The face modules and
`WorkspaceSessions` take commands apart where the code is not atomic. A refused command rolls
back and is a stuttering step; that it was refused is visible only in that its
action is not enabled.

**OwnerWorkspace.** `owners`, `companions`, `realms`, `bindings` map an id to
its row, "absent" when there is none; `facts` holds the governance facts of the
last transaction, so that properties can relate a fact to the change it names.
Actions: `CreateOwner`, `UpdateOwner`, `RenameOwner`, `ArchiveOwner`,
`DeleteOwner`, `InitializeOwnerWorkspace`, `ProvisionWorkspace` (the refusal of
a realm id that is taken, also where the Owner has an active Realm and would not
use it, then `AddCompanion`), `EnsureCompanionRealm`, `BeginRetirement`, `ArchiveCompanion`,
`PutAwayCompanion` (both halves in one transaction), `RestoreCompanion`,
`SetDefaultCompanion`, `DeleteCompanion`, `Bind`, `UpdatePolicy`,
`DisableBinding`. `\E e \in Expected` is the client's If-Match: any revision, or
none. Persona rows and other columns that no guard reads are left out.
`FactsTellTheTruth` and `ChangesAreTold` are the two directions between rows and
facts: a fact names a change of its own transaction, and a change, also of a row
the command was not asked about, is named by a fact. Names are outside the
second, because `PATCH owners/{id}` tells none. `RevisionMoves` is about one life
of a row, which starts at revision 1 again when it is made again, and about the
commands of one process: `shared_version` shows what two processes do to it.

**Provisioning.** `Ids` are the ids derived from each operation id; `provenance`
is what `metadata` of a Companion keeps of the operation and the request's
fingerprint, forgotten with the row; `answer` is what the last request was told.
`Onboard` is PUT and GET on `operations/{id}`, `Provision` the PUT that adds a
Companion: a first run is the command of `OwnerWorkspace` on the derived ids, a
later one is answered from the rows (`Onboarded`, `Provisioned`) or refused
(a 404, a 409 and a 400 are one refusal, since nothing depends on which it was).
`Command` is every other command of `OwnerWorkspace`, on the derived rows too.
Two callers may send different requests under one id; a retry may come at any
time. `Operations` is implemented twice, for onboarding and for adding (`DoneBy`,
`AnsweredBy`).

**WorkspaceSessions.** One Companion that is not the default. `ReadCompanion` is
a lifecycle command up to its first write, which under SQLite's deferred
transactions begins the transaction; `WriteCompanion` writes the lifecycle column
and the revision computed from what was read. `Rename` stands for the persona
commands, which take the write lock first. `told` are the identities that
`GET companions/{id}` has answered.

**Teams.** One Owner. `teams`, `saved`, `starts` are the three tables;
`snapshots[s]` records every selection that was ever answered for a start;
`provider[s]` is the media Provider. A configuration is the set of Companions it
puts on stage; a selection is what a resolver made of it, which depends on
`Generation` (device claims and trust epochs it read). The coordinator is bound
only by what the code says it must have done: a session is dispatched when its
snapshot was answered, and `confirm_closed` is called when the Provider
reported the end; both may come at any later time and repeatedly. `TeamSessions` is what
the editors, the coordinator and the Provider may rely on, without hosts,
holders, receipts or replays: a history that grows at its end, a session opened
at the latest revision of a team nobody performs, told one selection, performed
while open. `Sessions` maps the tables to it; a replay, a late confirmation and
a command on the Owner are stutters.

**AuditOutbox.** `outbox_id[e]` is the primary key of the row of event `e`, 0
without one; `NextKey` is SQLite's rule for an `INTEGER PRIMARY KEY` without
`AUTOINCREMENT`: one above the largest present. `published_at` is "never",
"recent" or "expired", by the retention horizon; `due` are the rows whose
`next_attempt_at` has come. A dispatcher's iteration is `Collect`, `Publish` or
`PublishRaises`, `MarkPublished`, `MarkFailed`; `Crash` ends it anywhere.
The transport may hold events it did not acknowledge, and never acknowledges
one outside `Deliverable`.

**AuditDelivery** promises less detail: events are committed, delivered, settled
and only then forgotten.

**GovernanceHistory** adds a client that asks for pages and hands the cursor
back; `told` are the pages answered so far, each the set of its events, and
`stayed` the facts stored since the first page. A page is a query of its own; the
order within it is the key's, so that only the set matters.

**PersonaGenomes.** One Companion. `genomes` is `persona_genomes`: a genome's
content is its name and, as one value, everything else in it; `companion` holds
the pointer, the display name, the preferences and the two revisions a client
may have read; `receipts` are `metadata.persona_operations`, and `answers[op]`
records everything `edit` ever answered for an operation id. Every command
begins with `BEGIN IMMEDIATE`, so that it is one action for any number of
connections, while the request it carries may have been prepared on any older
genome or preference revision. Actions: `Edit`, `ReplayEdit`, `Rename`,
`RestoreChapter` (also `rollback_to_genome`), `ResetToOrigin`,
`CreateEvolutionProposal`, `ApproveEvolution` (which commits the proposal or
marks it stale), `RejectEvolution`. `create_genome` is called by tests only and
left out; it may move the pointer without a base, so the line of chapters is a
property of the commands the authority offers. `PersonaBook` is what these
promise: the committed genomes are a book that only grows, its last chapter, under
the Companion's own name, changes the name or the rest of the one before and never
both, and an edit is done once and answered once, with what it led to. `Book` maps
the tables to it; a replay, a reset that finds the origin in force, a proposal and
a rejection are stutters.

**SmartHomeRegistry.** `home` holds the rows of five tables and `revision` the
sixth. A command moves the revision first, an INSERT at 0 or a compare-and-swap
above it, and thereby holds the write lock to its commit: it is one action,
`Change`, whose guard `Valid` is the SDK's `Registry` (external). `reader` is a
client: `ReadRevision`, `ReadAreas`, ... `ReadPlacements` are the statements of
`SmartHomeRegistryRepository.get`, between which commands of other connections
commit; a read that saw a scene's actions but not the scene, or parts the SDK
does not accept together, ends "raised". `candidates` are the hosts between the
two transactions of `initialize_default_homes`. One life of the Owner: an id
that comes back starts at revision 1 again, and no client is expected to keep
its revision across that.

**Persons.** One active Owner. `people`, `realms` and `receipts` map a Person to
its row of `persons`, its memory Realm and its row of `person_deletions`;
`defaults` is the Owner's `person_memory_defaults`, without the comparison of
the Owner's revision, which is `OwnerWorkspace`'s. `recent` says whether
`candidate_activity_at` is inside the pool's time; `Elapse` ends it. Several
permissions of one policy are one Boolean. Every command names the revision its
client read and starts with `BEGIN IMMEDIATE`; the actions are those of clients
that read the current one, the others are refused. Actions: `Create`, `Update`,
`RetireCandidate`, `RetainExpired` (the sweep inside `recognition_candidates`),
`Restore`, `BeginDeletion`, `SetMemoryDefaults`, `SetProvisional`,
`SuspendMemory`, `RestoreMemory`; and, completed in `Voiceprints`, `Archive` and
`CompleteDeletion`. Left out: rows that only migrations make (a missing
identity, a Realm without the defaults it was made under), and the creation of a
Realm in `memory_realm`, which no modelled row needs.

**Voiceprints.** `profiles`, `enrollments` and `observations` are the tables; a
recording is written and removed with its profile. Samples are counted; time is
`PassTime`, after which the client's read, the maintenance loop or nobody ends
the enrollment. Actions: `CreateEnrollment`, `AddSample`, `Complete`, `Cancel`,
`ReadEnrollment`, `ExpireEnrollments`, `DeleteProfile`, `Discover`,
`RecordEvidence` (with the promotion in its transaction). What the promotion
policy finds acceptable among the turns matched with the present template is any
subset of them; similarity, quality and age are data. The roster's size, the
digest of its snapshot, audio overlap and replay, and the limit on evidence only
refuse turns, and any turn may be refused. An id drawn at random is one that
nothing names.

**ObjectStore.** `blobs` are the keys that have a file; `reported` the keys a
deletion returned and its caller did not remove yet (`Purge`), `purged` those it
removed; `lost` the keys a request left behind that failed or died, which nobody
will remove. `lost` and `purged` are what the properties need to tell a file
that is forgotten from one that a failure cost.

**PersonFaces.** `people` and `photos` are rows; `change` is the open transaction
of `_change` or of `archive`, `leftovers` what a request still has to remove
after its transaction ended, `reading` the key of a request for an image between
its row and its file. `StartReplace` puts the file before the row is committed,
`CommitChange` and `AbortChange` end it, `RemoveLeftover` and `FailToRemove` come
after; `StartArchive` removes the file inside the transaction. The one
connection of the pool (`Connection`) serves requests one at a time, so a read
keeps it from its first SELECT to its end. `CrashPersonFaces` ends the process
between any two steps. `cut` are the Persons whose archive removed the file and
did not commit: the one case in which a row has no file.

**CompanionFaces.** The key of a picture is its digest under the Owner, so a
picture is its key. A request to set a face is `CheckCompanion`, `StorePicture`,
`SetFace` or `RefuseFace`, with the other requests, deletions and purges
between; `AbandonFace` is a request that dies. The capture of idle clips is
external; `SetIdleClip` is what it calls. The progress of a generation is left out.

**OwnerFaces.** `profile` is the sequence of revisions; a command has read
(`BeginDraft`, `BeginClear`, `BeginActivate`) and then writes or gives up.
`DeleteSupersededReferences` has a list its caller read at any time before, so
any set of poses.

**Faces** adds `ArchiveOwner`, `DeleteOwner` (which reports keys and removes the
rows of all three) and `CreateOwner`.

## 4. Runs

| run | instance | what it shows |
|---|---|---|
| `workspace_lifecycle` | 1 Owner, 3 Companions (of any kind), 2 Realms, 2 bindings, 1 device, revisions to 3 | `DefaultAnswers`, `SharedRealm`, `KeepsDefault`, `FactsTellTheTruth`, `ChangesAreTold` |
| `provisioning` | 2 Owners, 3 Companions, 4 Realms, 1 operation id for both routes, 2 requests, revisions to 3 | `RevisionMoves` across archive, deletion and re-creation; `DoneOnce` (both operations implement `Operations`), `RetryIsAnswered` |
| `team_starts` | 2 teams, 3 sessions, 2 hosts, 2 generations, revisions to 3 | `OneOpenStart`, `RunsReserved`, `OneSnapshot`, and refinement of `TeamSessions` (`SessionsSpec`) |
| `audit_rows` | 3 events (one never deliverable), 2 loops, batches of 2, 1 crash, a reader with pages of 1 | `NothingLost`, `MarkedOnce`, `WholeHistory`, and refinement of `AuditDelivery` |
| `audit_settles` | 3 events (two never deliverable), 1 loop, batches of 1, 1 crash | `Settles` under `FairSpec` |
| `persona_chapters` | 4 genomes, 2 operation ids, 2 names, 2 contents, 2 preferences | `OneLine`, `NameAgrees`, `OriginIsFirst`, `PreferencesNotLost`, `SettingsMoveRevision`, and refinement of `PersonaBook` (`BookSpec`) |
| `smarthome_registry` | 2 areas that may be renamed and moved, a device, a scene, a placement, 2 types, 2 traits, 2 hosts, revisions to 4 | `HeldIsPresent`, `RevisionNamesHome`, `EmptiedStaysEmpty` |
| `voices` | 2 people, a pool of 1, 2 enrollments of 1 sample, 2 profiles, 2 turns, Person revisions to 4 and 1 | `PoolBounded`, `MemoryFollowsPerson`, `OneVoice`, `EvidenceHasVoice`, `RevisionsMadeOnce`, `DeletionIsFinal`, `ClosedStaysClosed`, `RevisionNamesPerson`, `PromotedByPresentVoice` |
| `faces` | 1 Person with 3 photo keys; 2 Companions, 2 pictures, a clip, 2 requests, 2 versions; 4 poses, 4 revisions | `PhotoIsThere`, `FaceIsThere`, `ImagesAccountedFor`, `DesiredIsComplete`, `ClearingStands` |
| `owner_with_teams` | violation | see findings |
| `face_again` | violation | see findings |
| `shared_version` | violation | see findings |

Types are proved (section 5), and no run repeats them.

**Bounds.** `MaxRevision` bounds revision counters in the guards of the actions
that move them. Three takes a Companion from provisioned to retiring to archived,
and an Owner's pointer through two hand-overs, with three Companions so that a
replacement may itself be retired while another waits; lives that go on after
that are in the proofs, which have no bound. In `provisioning` a row that is
deleted starts again at 1, so three revisions see several lives, and the third
Companion and two of the Realms are ids no operation derives (onboarding and
adding derive one Realm each). Three photo keys are one held,
one new and one that waits for removal; two requests and two Companions are
enough for one picture to be set twice, deleted and purged between; four face
profile revisions let a draft of before a clearing meet one of after it. `MCFaces`
explores the three kinds of images one at a time, each with the Owner's commands,
because they share no row and no key. Three sessions on two teams let one session's late closure meet
another session's hold of the same team while the third holds the other. Batches
of two over three events give a full batch, a short batch and a partial
acknowledgement; batches of one behind two refused events give the head of the
queue that might starve the rest. Four genomes hold the origin, a change, a
restoration and a proposal that one of them overtakes; `MaxVersion` is their
number, so it never refuses a step that the genome ids allow. Four revisions of
a home onboarded with an area and a light let a scene, a second area and a
removal be committed between the statements of one read. Four revisions let a
Person be suspended, archived, restored and activated, or promoted between;
the second Person, whom discovery or a client adds, competes for the one place
in the pool. Two enrollments are a replacement and two rivals for a first voice
(`MaxVoice` 2), one sample (3 in the code) separates collecting from complete,
and two turns promote a Person whom a client created; a discovered one would
need a third turn. `MCPolicy` takes the two extreme memory defaults. Identifiers are interchangeable and used as
symmetric sets in safety runs; the liveness run uses none.

Deadlock is checked in every run but `shared_version`, whose two sessions end:
otherwise some command is always possible.

**Fairness (`FairSpec`).** The loop of `run_audit_dispatcher` runs for the life
of the process: `WF` on each loop's `Step`. Retry delays are finite and capped
at a minute: `SF` on `PacedElapse`. The pacing, in `PacedNext`, says that a delay
outlasts the queries that drain the rows already due: an iteration that
delivered something starts the next at once and an idle one waits half a second,
while delays double up to a minute. Without it two refused events whose delays
end in turn may occupy a batch of one for ever. `SF` on `Acknowledges` is the
assumption on the transport: asked again and again for an event it accepts, it
acknowledges some time. Nothing is assumed of commits, purges, the clock's
`Age` or crashes; crashes are bounded by `MaxCrashes`, as a process that crashes
for ever before marking delivers nothing.

**Findings.** Three places where the code does not do what a comment or a
document of the repository says, each shown by a run that TLC finds violated:

- `owner_with_teams`: an Owner that ever saved a team cannot be deleted:
  `teams.owner_id` has no cascade and `delete_owner` does not delete teams;
- `face_again`: a picture that a Companion of the Owner ever wore is refused for
  good, since the key is the picture's digest and unique over superseded rows
  too, while `set_face` answers "retry";
- `shared_version`: a rename of the companion authority that commits between the
  read and the write of a lifecycle command of the workspace authority is given
  the same revision as the lifecycle change, so that one version names two
  identities to a client that compares and swaps.

Met while modelling and not given runs:

- an archived Owner can have a default again: `set_default_companion` and
  `restore_companion` do not read the Owner's status (`owner_workspace.py:747`),
  although the comment at line 248 says an archived Owner has none;
- retiring or archiving a guard Companion leaves its binding active: `bind`
  checks the guard once (`repositories/guard_bindings.py:65`) and no lifecycle
  command reads the bindings, although
  `docs/architecture/eidolon-os-data-architecture-v2.md:146` says that a Guard
  binding must point to an active Guard-role Companion;
- onboarding cannot be replayed after the first Companion was deleted: the GET
  and the PUT answer 409 for good (`owner_workspace.py:1105`), although
  `README.md` says that the same request returns the same result. Adding a
  Companion under an id whose Companion was deleted makes it again where the Owner
  already had a Realm the first time. Where the first time cataloged the Realm
  under the derived id, that Realm outlives the Companion and the id is taken: the
  retry is refused (`owner_workspace.py:1012`), though the Owner's Realm would be
  used anyway. For an archived Owner it is refused in either case;
- a page of the governance history may answer a newer fact after an older one,
  because keys of purged rows come back (`audit/outbox.py:122` takes the key for
  the insertion order);
- the lifecycle answer reads the default in a second session
  (`workspace_authority.py:561`), which its comment calls a fact the transaction
  already settled;
- `put_away` on a Companion already retiring compares no revision, although the
  comment at `owner_workspace.py:676` says it was compared;
- `archive` of a Person removes the photo before its transaction commits
  (`persons.py:203`), so a failed commit leaves a row without its file, as
  `PhotoIsThere` says; and the revision of the photo starts at 0 again
  afterwards, which a client that kept the old one may meet;
- `set_idle_clip` on a version that has a clip forgets the key of the earlier one;
- `README.md:129` says that the companion authority exposes no mutation; it has
  persona and face routes that write;
- `PATCH owners/{id}` renames an Owner and commits no fact
  (`repositories/owners.py:35`), although the architecture document has every
  mutation share a commit with its fact;
- two comments say that nothing is purged (`audit/outbox.py:116`,
  `api/workspace_authority.py:387`) while the runner purges hourly;
- `schema/smarthome.py:47` says that a panel that holds revision 7 holds all of
  revision 7, but rows read under an older revision may be a mixture that was
  never a home, or raise.

## 5. Proofs

For every value of the constants that meets the modules' named assumptions
(`None` is not an identifier, people and turns are finite, bounds are positive, "conversational" is a kind).

**OwnerWorkspaceProofs.** `TypeCorrect`: `Spec => []TypeOK`. `Safe`:
`Spec => [](InScope /\ SharedRealm /\ DefaultAnswers /\ OneGuard)`. The
conjunction is inductive where no part is: that the default answers needs that
Companions belong to one Owner, and that Companions share a Realm needs that a
new Realm is cataloged only when the Owner has no active one. Effect operators
(`Attaches`, `Catalogs`, `PointsTo`, ...) say what a command leaves alone, one
lemma derives the effect of each helper, and each part has a lemma per command.
`RealmIsShared` is one of its parts; `DefaultIsKept`, `DrainIsNotSkipped`,
`FactsAreTrue` and `NothingGoesUntold` prove the action properties `KeepsDefault`,
`RetiresBeforeArchive`, `FactsTellTheTruth` and `ChangesAreTold` from the same
invariant. `ReadStandsWithItsRevision` proves `RevisionMoves` and what a client has
of it (`ReadStandsStep`): an Owner's default and status, or a Companion's state,
read at some revision are what the row shows until it is past that revision or
gone. It says nothing of a row made again, or of Realms and bindings.

**ProvisioningProofs.** Each step is a command of `OwnerWorkspace` or changes no
row, so the invariant above carries over and `RevisionsMoveUnderRetries` with it.
It is joined by `Tracks`: a Companion that carries a mark is there, was made by
the operation of its mark, and its Owner still holds the Realm onboarding derived.
That no command takes a Realm from the Owner of a Companion that stays
(`NextRowsStay`) keeps it. `OperationsAreDoneOnce`: an operation that finds no
row under its id carries no mark, so a creation is a `Do` of the kind that made
it and a stutter of the other, a replay a `Repeat`, a deletion a `Forget`.
`RetriesAreAnswered`: a refusal must contradict `Tracks` or `SharedRealm` unless
it is one of the refusals the property names. `ProvisioningTypes`.

**TeamsProofs.** `TypeCorrect`; `Safe` (`OneOpenStart`, `History`, `OneSnapshot`),
`SelectionIsOne`;
`RunningIsReserved`, which needs that a running session's start is open, hence
held; `SavedStays` and `DecidedStays` for the action properties.
`ImplementsSessions`: `Spec => SessionsSpec`. Each command is its action of
`TeamSessions` or a stutter: `reserve_start` opens a session only where
`OneOpenStart` leaves no other open, at a revision `History` makes the latest;
`start_snapshot` tells what was told, since a frozen selection was answered
(`Frozen`); and a first save finds the team not removed because only a saved
team is deleted (`RemovedExist`). `OwnerOutlivedByNoTeam` states the finding
`owner_with_teams` for every instance: an Owner that has saved a team is never
deleted.

**AuditOutboxProofs.** `TypeCorrect`; `Safe` (`NothingLost`, `OneRowPerKey`),
inductive once what a loop holds as acknowledged is known to be on the bus;
`RetentionRunsOn` (`MarkedOnce`); `Implements`: `Spec => DeliverySpec`, each step
of the outbox being a step of `AuditDelivery` or a stutter. `HistoryIsWhole`:
`HistorySpec => []WholeHistory`. A reader's steps are stutters of the outbox, so
its invariant carries over, and `ReaderInv` ties the cursor to what was told:
a row that was told and is still there has a key at or above the cursor, and a fact
that was there since the start was told or is below it. No key of a present row
ever changes (`NextKeysStay`), and that the keys of purged rows come back does no
harm: an event is committed once, above the cursor or still to be read.

**PersonaGenomesProofs.** `TypeCorrect`; `Chapters` (`OneLine`, `NameAgrees`),
`NamesAgree`; `OriginIsTheFirst` (`OriginIsFirst`); `Retries` (`OneAnswer`,
`PreferencesNotLost`), `PreferencesAreKept`; `ChaptersImmutable` and
`RevisionsNameSettings` for the action properties; `ImplementsBook`:
`Spec => BookSpec`. None is inductive alone:
that the line has one follower per genome needs that nothing committed follows
the current one; that an approval keeps the name needs that a proposal has the
name of its base (`ProposedNames`); that a retry answers as before needs that a
receipt names a committed genome with the traits it answered (`Receipted`);
that preferences are not lost needs that whatever was overwritten is older than
the present ones (`Overwritten`). The origin is found by a walk along
`base_genome_id`, a recursive function; that it ends at the first chapter is an
induction over versions, done with least numbers: a genome of the least version
whose walk goes astray would have a base of a lesser one (`WalkEndsAtFirst`). It
needs one first chapter, which nothing committed precedes (`HasOrigin`). In
`ImplementsBook` each command is an action of `PersonaBook` or a stutter: what
`_append_persona` commits is the next chapter, provided that the row it copies is a
full one, be it the current genome, a chapter restored or the origin a walk found
(`Filled`); and a replay is a stutter because whoever has a receipt was answered
(`Answered`) and what it is answered is what the receipt holds.

**SmartHomeRegistryProofs.** `TypeCorrect`, `ReadsAreSafe` (`HeldIsPresent`),
`RevisionsNameHomes`, `NothingGoesAlong`, `HomesAreNotRefilled`. A read is never
labelled ahead of the home (`LabelledBefore`), and as long as its label is the
present revision the parts it has seen are the present ones (`SeenIsPresent`);
any write makes its label old. That is why the revision has to be read first.

**VoiceprintsProofs.** `TypeCorrect`, `PoolIsBounded`, `MemoryFollows`,
`VoicesAreSafe` (`OneVoice`, `EvidenceHasVoice`, `RevisionsMadeOnce`) and its
parts,
`DeletionsAreFinal`, `PromotionsRespectSuspension`, `RevisionsNamePeople`,
`EnrollmentsEndOnce`. The invariant adds that a pending deletion has its Person
archived and its memory closed (`DeletionHolds`), and that the enrollments naming
one profile are of one Person, those that are ready having made a revision the
profile still has or has passed (`Lines`): from that, a completion that compares
revisions can neither repeat one nor take over another Person's voice. Each
command changes the rows of one Person (`PersonMoves`) and adds at most one
candidate to the pool, into a free place (`PoolStep`). `PromotionsAreConfirmed`:
only evidence changes a maturity (`KeepsMaturity`), and the turns a policy
accepted are among those matched with the present voice.

**FacesProofs.** `TypeCorrect`, `PhotosAreThere`, `FacesAreThere`,
`NothingIsForgotten`, `DesiredStaysComplete`, `ClearingsStand`. The invariant has
one part for each kind of images. For photos (`PhotoInv`): keys that wait for
removal are apart from those a row names (`KeysApart`), which is why a removal
takes no file away; no two rows name one key; and a change that is open has the
connection and knows the row it read (`ChangeIsOpen`, `ReadIsOpen`), so its
commit or rollback is about the present row. For a Companion's faces: a request
that stored its picture has it there or knows that a late removal took it. For
the face profile: one revision is desired at most, and every one before a
clearing is superseded; a command that has read keeps the connection until it
writes, so what an activation checked still holds when it writes (`WorkingKnows`). The keys of the three
kinds are apart (`KeyAssumption`), so a step on one leaves the others' files
(`Faces` composes them).

**Only proved.** Properties that follow from a guard or an index of the schema
are lemmas and parts of the theorems, and no run is spent on them: `TypeOK`,
`InScope`, `OneGuard`, `RetiresBeforeArchive`, `EnrollmentEndsOnce`, `History`, `SavedIsImmutable`,
`StartIsDecided`, `OneRowPerKey`, `ChaptersStay`, `OneAnswer`, `DependantsStay`.

**Only model-checked.** `Settles`, because liveness under fairness and `ENABLED`
are outside what the prover handles; and the three violations, which are
counterexamples. Every other property of the runs is proved.

## 6. Not modelled

- HTTP routing, authorization, wire formats, migrations, presets, maintenance
  scripts and settings: translation, constant data or offline I/O;
- two connections of one process at once (`sqlite_pool_size` may be set to 4), and
  the reads of the Owner before the first write of `reserve_start`,
  `set_default_companion` and provisioning: only a lifecycle command of one
  Companion is taken apart, in `WorkspaceSessions`. `DesiredIsComplete`,
  `ClearingStands` and the reading half of `PhotoIsThere` rest on the default's one
  connection: with more, an activation that has read its draft could bring back a
  profile cleared meanwhile, and a replacement could remove a photo between a
  reader's row and its file;
- two processes at once, outside `WorkspaceSessions`: `RevisionMoves` and
  `SettingsMoveRevision` hold for the commands of one authority process, and
  `shared_version` shows that a lifecycle command and a rename that overlap in two
  processes give one revision two values;
- the files of the Owner's face profile, which the capture service outside this
  repository writes and removes, and the progress of an idle clip's generation;
- `delete_owner` run from the command line of another process, whose read of the
  keys precedes its transaction;
- the roster's limit: established people may enroll beyond
  `MAX_RECOGNITION_PERSONS`, and then recognition, discovery and evidence raise
  until somebody is archived (`voiceprints.py:145`); and what a read of a home
  that raises means to its client (`repositories/smarthome.py:69`): no document
  says what should happen.
