------------------------- MODULE SmartHomeRegistry -------------------------
(***************************************************************************)
(* The smart-home registry of one Owner (eidolon_data/services/smarthome.py *)
(* and repositories/smarthome.py): the rows of a home under one revision,   *)
(* commands that name the revision their caller read, readers that take the *)
(* rows in six statements, and the hosts that fill the homes of Owners who  *)
(* never had one.                                                           *)
(*                                                                         *)
(* A command moves the revision before it reads a row and holds SQLite's    *)
(* write lock from there to its commit: it is one action.  A read holds no  *)
(* lock, and with a second connection commands commit between its           *)
(* statements: it is one action per statement.                              *)
(***************************************************************************)
EXTENDS Naturals

CONSTANTS
  Area, Device, Scene,
  Ref,          \* Eidolon devices that stand somewhere
  Label,        \* what an area shows: its name and its order
  Type, Trait,
  Supports(_),  \* the traits of a device type
  Sample,       \* the packaged home
  Host,         \* processes that start the authority
  None,         \* SQL NULL, or no row
  MaxRevision   \* bound on the revision

VARIABLES
  owner,        \* status of the Owner; "deleted" is the end of its life
  revision,     \* row of smarthome_registries, 0 without one
  home,         \* the rows of the other five tables
  reader,       \* a client reading the registry, or holding what it read
  candidates    \* hosts that found the Owner's home unwritten and go on to fill it

vars == <<owner, revision, home, reader, candidates>>

DeviceRow == [area : Area \cup {None}, type : Type]
Home ==
  [areas : [Area -> Label \cup {None}], devices : [Device -> DeviceRow \cup {None}],
   scenes : SUBSET Scene, actions : [Scene -> SUBSET (Device \X Trait)],
   placements : [Ref -> Area \cup {None}]]
EmptyHome ==
  [areas |-> [a \in Area |-> None], devices |-> [d \in Device |-> None],
   scenes |-> {}, actions |-> [s \in Scene |-> {}], placements |-> [p \in Ref |-> None]]

HasArea(h, a) == h.areas[a] # None
HasDevice(h, d) == h.devices[d] # None

\* What the SDK's Registry accepts; the schema too keeps the names of an Owner's
\* areas apart, whatever their order.  Names of devices and the sizes of the
\* collections, which it limits too, are left out.
NamesDiffer(h) ==
  \A a, b \in Area :
    HasArea(h, a) /\ HasArea(h, b) /\ h.areas[a].name = h.areas[b].name => a = b
StandsInArea(h, a) == a # None => HasArea(h, a)
DevicesStand(h) == \A d \in Device : HasDevice(h, d) => StandsInArea(h, h.devices[d].area)
ScenesRun(h) ==
  \A s \in h.scenes : \A step \in h.actions[s] :
    HasDevice(h, step[1]) /\ step[2] \in Supports(h.devices[step[1]].type)
PlacementsStand(h) == \A p \in Ref : StandsInArea(h, h.placements[p])
Valid(h) == NamesDiffer(h) /\ DevicesStand(h) /\ ScenesRun(h) /\ PlacementsStand(h)

ASSUME HomeNoneAssumption == None \notin Area \cup Label \cup DeviceRow
ASSUME SampleAssumption == Sample \in Home /\ Valid(Sample) /\ Sample # EmptyHome
ASSUME RevisionAssumption == MaxRevision \in Nat \ {0}

-----------------------------------------------------------------------------
(* One registry write. *)

\* Faulty: the command forgets to move the revision.
Unmoved(expected) == expected = revision /\ UNCHANGED revision
\* The compare-and-swap: an insert at 0, an update of the expected row above.
\* An Owner deleted meanwhile has taken its row along, and refuses the insert.
Advance(expected) ==
  /\ owner \in {"active", "archived"}
  /\ expected = revision
  /\ revision < MaxRevision
  /\ revision' = expected + 1

\* propose: the SDK accepts the home the command leads to.
Propose(h) == Valid(h) /\ home' = h

Change(expected, h) ==
  /\ Advance(expected)
  /\ Propose(h)
  /\ UNCHANGED <<owner, reader, candidates>>

-----------------------------------------------------------------------------
(* Commands. *)

CreateArea(e, a, label) ==
  ~HasArea(home, a) /\ Change(e, [home EXCEPT !.areas[a] = label])

UpdateArea(e, a, label) ==
  HasArea(home, a) /\ Change(e, [home EXCEPT !.areas[a] = label])

\* AREA_NOT_EMPTY, else.
AreaIsEmpty(a) ==
  /\ \A d \in Device : HasDevice(home, d) => home.devices[d].area # a
  /\ \A p \in Ref : home.placements[p] # a
DeleteArea(e, a) ==
  HasArea(home, a) /\ AreaIsEmpty(a) /\ Change(e, [home EXCEPT !.areas[a] = None])

CreateDevice(e, d, row) ==
  ~HasDevice(home, d) /\ Change(e, [home EXCEPT !.devices[d] = row])

UpdateDevice(e, d, row) ==
  HasDevice(home, d) /\ Change(e, [home EXCEPT !.devices[d] = row])

\* DEVICE_IN_SCENE, else.
DrivenByNone(d) == \A s \in home.scenes : \A step \in home.actions[s] : step[1] # d
DeleteDevice(e, d) ==
  HasDevice(home, d) /\ DrivenByNone(d) /\ Change(e, [home EXCEPT !.devices[d] = None])

\* The actions are the scene's content and are replaced whole.
WithScene(s, steps) ==
  [[home EXCEPT !.scenes = @ \cup {s}] EXCEPT !.actions[s] = steps]
CreateScene(e, s, steps) == s \notin home.scenes /\ Change(e, WithScene(s, steps))
UpdateScene(e, s, steps) == s \in home.scenes /\ Change(e, WithScene(s, steps))
WithoutScene(s) == [[home EXCEPT !.scenes = @ \ {s}] EXCEPT !.actions[s] = {}]
DeleteScene(e, s) == s \in home.scenes /\ Change(e, WithoutScene(s))

SetPlacement(e, p, a) == Change(e, [home EXCEPT !.placements[p] = a])
ClearPlacement(e, p) ==
  home.placements[p] # None /\ Change(e, [home EXCEPT !.placements[p] = None])

\* REGISTRY_NOT_EMPTY: a sample is never merged into a home somebody started.
LoadSample(e) == home = EmptyHome /\ Change(e, Sample)

AreaCommand(e) ==
  \E a \in Area :
    \/ \E label \in Label : CreateArea(e, a, label) \/ UpdateArea(e, a, label)
    \/ DeleteArea(e, a)
    \/ \E p \in Ref : SetPlacement(e, p, a)
DeviceCommand(e) ==
  \E d \in Device :
    \/ \E row \in DeviceRow : CreateDevice(e, d, row) \/ UpdateDevice(e, d, row)
    \/ DeleteDevice(e, d)
SceneCommand(e) ==
  \E s \in Scene :
    \/ \E steps \in SUBSET (Device \X Trait) : CreateScene(e, s, steps) \/ UpdateScene(e, s, steps)
    \/ DeleteScene(e, s)
Command(e) ==
  \/ AreaCommand(e) \/ DeviceCommand(e) \/ SceneCommand(e)
  \/ \E p \in Ref : ClearPlacement(e, p)
  \/ LoadSample(e)

-----------------------------------------------------------------------------
(* initialize_default_homes, in every host that starts. *)

\* The read of the Owners whose home was never written.
FindUnwritten(host) ==
  /\ owner = "active" /\ revision = 0
  /\ candidates' = candidates \cup {host}
  /\ UNCHANGED <<owner, revision, home, reader>>

\* Faulty: whatever revision the home has by now is taken for expected.
FillEmptied == home = EmptyHome /\ Advance(revision)
\* load_sample(expected_revision=0), whenever it comes.
Fillable == Advance(0)

FillHome(host) ==
  /\ host \in candidates
  /\ candidates' = candidates \ {host}
  /\ \/ Fillable /\ Propose(Sample)
     \/ ~(owner \in {"active", "archived"} /\ revision = 0) /\ UNCHANGED <<revision, home>>
  /\ UNCHANGED <<owner, reader>>

-----------------------------------------------------------------------------
(* A read: SmartHomeRegistryRepository.get, statement by statement. *)

Statement == {"areas", "devices", "scenes", "actions", "placements"}
NotReading == {"idle", "held", "raised"}

ReadRevision ==
  /\ reader.next \in NotReading
  /\ owner # "absent"
  /\ reader' = [next |-> "areas", label |-> revision, seen |-> EmptyHome]
  /\ UNCHANGED <<owner, revision, home, candidates>>

\* The rows one statement returned, and what comes next.
Read(statement, seen, next) ==
  /\ reader.next = statement
  /\ reader' = [next |-> next, label |-> reader.label, seen |-> seen]
  /\ UNCHANGED <<owner, revision, home, candidates>>

ReadAreas == Read("areas", [reader.seen EXCEPT !.areas = home.areas], "devices")
ReadDevices == Read("devices", [reader.seen EXCEPT !.devices = home.devices], "scenes")
ReadScenes == Read("scenes", [reader.seen EXCEPT !.scenes = home.scenes], "actions")

\* actions[action.scene_id] has an entry only for a scene the read has seen.
Stray == \E s \in Scene \ reader.seen.scenes : home.actions[s] # {}
ReadActions ==
  Read("actions", [reader.seen EXCEPT !.actions = home.actions],
       IF Stray THEN "raised" ELSE "placements")

\* Faulty: the revision is read after the rows it labels.
LabelLast(seen) ==
  reader' = [next |-> IF Valid(seen) THEN "held" ELSE "raised", label |-> revision,
             seen |-> seen]
\* Registry(...) is built from all of it, or raises.
Answered(seen) ==
  reader' = [next |-> IF Valid(seen) THEN "held" ELSE "raised", label |-> reader.label,
             seen |-> seen]
ReadPlacements ==
  /\ reader.next = "placements"
  /\ Answered([reader.seen EXCEPT !.placements = home.placements])
  /\ UNCHANGED <<owner, revision, home, candidates>>

ReadRegistry ==
  ReadRevision \/ ReadAreas \/ ReadDevices \/ ReadScenes \/ ReadActions \/ ReadPlacements

-----------------------------------------------------------------------------
(* The Owner. *)

CreateOwner ==
  /\ owner = "absent"
  /\ owner' = "active"
  /\ UNCHANGED <<revision, home, reader, candidates>>

\* initialize_owner_home, in the onboarding transaction.
Onboard ==
  /\ owner = "absent"
  /\ owner' = "active" /\ revision' = 1 /\ home' = Sample
  /\ UNCHANGED <<reader, candidates>>

ArchiveOwner ==
  /\ owner = "active"
  /\ owner' = "archived"
  /\ UNCHANGED <<revision, home, reader, candidates>>

\* ON DELETE CASCADE, from every table of the registry.
RowsGo == revision' = 0 /\ home' = EmptyHome
DeleteOwner ==
  /\ owner \in {"active", "archived"}
  /\ owner' = "deleted"
  /\ RowsGo
  /\ UNCHANGED <<reader, candidates>>

-----------------------------------------------------------------------------
Init ==
  /\ owner = "absent" /\ revision = 0 /\ home = EmptyHome
  /\ reader = [next |-> "idle", label |-> 0, seen |-> EmptyHome]
  /\ candidates = {}

Next ==
  \/ CreateOwner \/ Onboard \/ ArchiveOwner \/ DeleteOwner
  \/ \E e \in 0..MaxRevision : Command(e)
  \/ \E host \in Host : FindUnwritten(host) \/ FillHome(host)
  \/ ReadRegistry

Spec == Init /\ [][Next]_vars

-----------------------------------------------------------------------------
(* Invariants. *)

\* Every table holds what its columns allow, and a home without a registry row
\* has no rows.
TypeOK ==
  /\ owner \in {"absent", "active", "archived", "deleted"}
  /\ revision \in 0..MaxRevision
  /\ home \in Home
  /\ revision = 0 => home = EmptyHome
  /\ reader \in [next : Statement \cup NotReading, label : 0..MaxRevision, seen : Home]
  /\ candidates \subseteq Host

\* A client whose revision is the present one holds the present home, though
\* its rows were read while commands committed: it need not read again, and a
\* change it makes under that revision is made to what it saw.
HeldIsPresent ==
  owner # "deleted" /\ reader.next = "held" /\ reader.label = revision
    => reader.seen = home

-----------------------------------------------------------------------------
(* Action properties. *)

\* While the Owner lives a revision names one home and the next differs from it
\* by one step, whoever writes.
RevisionNamesHomeStep ==
  owner' # "deleted" =>
    /\ revision' \in {revision, revision + 1}
    /\ revision' = revision => home' = home
RevisionNamesHome == [][RevisionNamesHomeStep]_vars

\* Removing an area or a device never takes along, or moves, what stood in it
\* or was driven by it.
DependantsStayStep ==
  owner' # "deleted" =>
    /\ \A a \in Area : HasArea(home, a) /\ ~HasArea(home', a) =>
         home' = [home EXCEPT !.areas = home'.areas]
    /\ \A d \in Device : HasDevice(home, d) /\ ~HasDevice(home', d) =>
         home' = [home EXCEPT !.devices = home'.devices]
DependantsStay == [][DependantsStayStep]_vars

\* A host that starts fills no home that was ever written, also one its Owner
\* emptied between the host's two transactions.
EmptiedStaysEmptyStep ==
  \A host \in Host : host \in candidates /\ host \notin candidates' /\ revision > 0
    => UNCHANGED <<revision, home>>
EmptiedStaysEmpty == [][EmptiedStaysEmptyStep]_vars
=============================================================================
