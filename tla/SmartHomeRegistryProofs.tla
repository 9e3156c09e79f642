----------------------- MODULE SmartHomeRegistryProofs -----------------------
(***************************************************************************)
(* Proofs about SmartHomeRegistry, for homes of any size and any packaged   *)
(* home the SDK accepts.                                                    *)
(***************************************************************************)
EXTENDS SmartHomeRegistry, TLAPS

\* What a read under the present revision has seen so far is the present home.
SeenIsPresent ==
  owner # "deleted" /\ reader.label = revision =>
    /\ reader.next \in {"devices", "scenes", "actions", "placements"} =>
         reader.seen.areas = home.areas
    /\ reader.next \in {"scenes", "actions", "placements"} =>
         reader.seen.devices = home.devices
    /\ reader.next \in {"actions", "placements"} => reader.seen.scenes = home.scenes
    /\ reader.next \in {"placements"} => reader.seen.actions = home.actions

\* No read is labelled ahead of the home, and an Owner not yet created has none.
LabelledBefore ==
  /\ owner # "deleted" => reader.label <= revision
  /\ owner = "absent" => revision = 0

IInv == TypeOK /\ SeenIsPresent /\ LabelledBefore /\ HeldIsPresent

-----------------------------------------------------------------------------
(* Homes. *)

LEMMA EmptyHomeIsHome == EmptyHome \in Home
BY DEF EmptyHome, Home

\* A home of another home's parts.
LEMMA HomeParts ==
  ASSUME NEW h \in Home
  PROVE  /\ h.areas \in [Area -> Label \cup {None}]
         /\ h.devices \in [Device -> DeviceRow \cup {None}]
         /\ h.scenes \in SUBSET Scene
         /\ h.actions \in [Scene -> SUBSET (Device \X Trait)]
         /\ h.placements \in [Ref -> Area \cup {None}]
BY DEF Home

LEMMA AreaSet ==
  ASSUME NEW h \in Home, NEW a \in Area, NEW x \in Label \cup {None}
  PROVE  [h EXCEPT !.areas[a] = x] \in Home
BY DEF Home

LEMMA DeviceSet ==
  ASSUME NEW h \in Home, NEW d \in Device, NEW x \in DeviceRow \cup {None}
  PROVE  [h EXCEPT !.devices[d] = x] \in Home
BY DEF Home

LEMMA PlacementSet ==
  ASSUME NEW h \in Home, NEW p \in Ref, NEW x \in Area \cup {None}
  PROVE  [h EXCEPT !.placements[p] = x] \in Home
BY DEF Home

LEMMA ScenesSet ==
  ASSUME NEW h \in Home, NEW x \in SUBSET Scene
  PROVE  [h EXCEPT !.scenes = x] \in Home
BY DEF Home

LEMMA ActionsSet ==
  ASSUME NEW h \in Home, NEW s \in Scene, NEW x \in SUBSET (Device \X Trait)
  PROVE  [h EXCEPT !.actions[s] = x] \in Home
BY DEF Home

LEMMA ScenesWritten ==
  ASSUME home \in Home, NEW s \in Scene, NEW steps \in SUBSET (Device \X Trait)
  PROVE  WithScene(s, steps) \in Home /\ WithoutScene(s) \in Home
<1>1. home.scenes \cup {s} \in SUBSET Scene /\ home.scenes \ {s} \in SUBSET Scene
  BY HomeParts
<1>2. [home EXCEPT !.scenes = @ \cup {s}] \in Home /\ [home EXCEPT !.scenes = @ \ {s}] \in Home
  BY <1>1, ScenesSet
<1>3. {} \in SUBSET (Device \X Trait)
  OBVIOUS
<1>4. WithScene(s, steps) \in Home
  BY <1>2, ActionsSet DEF WithScene
<1>5. WithoutScene(s) \in Home
  BY <1>2, <1>3, ActionsSet DEF WithoutScene
<1>6. QED
  BY <1>4, <1>5

\* A whole write by Change leads from a home to another.
LEMMA CommandIsChange ==
  ASSUME TypeOK, NEW e \in 0..MaxRevision, Command(e)
  PROVE  \E h \in Home : Change(e, h)
<1>1. home \in Home
  BY DEF TypeOK
<1>2. CASE AreaCommand(e)
  <2>1. PICK a \in Area :
          \/ \E label \in Label : CreateArea(e, a, label) \/ UpdateArea(e, a, label)
          \/ DeleteArea(e, a)
          \/ \E p \in Ref : SetPlacement(e, p, a)
    BY <1>2 DEF AreaCommand
  <2>2. ASSUME NEW label \in Label, CreateArea(e, a, label) \/ UpdateArea(e, a, label)
        PROVE  \E h \in Home : Change(e, h)
    BY <1>1, <2>2, AreaSet DEF CreateArea, UpdateArea
  <2>3. CASE DeleteArea(e, a)
    BY <1>1, <2>3, AreaSet DEF DeleteArea
  <2>4. ASSUME NEW p \in Ref, SetPlacement(e, p, a) PROVE \E h \in Home : Change(e, h)
    BY <1>1, <2>4, PlacementSet DEF SetPlacement
  <2>5. QED
    BY <2>1, <2>2, <2>3, <2>4
<1>3. CASE DeviceCommand(e)
  <2>1. PICK d \in Device :
          \/ \E row \in DeviceRow : CreateDevice(e, d, row) \/ UpdateDevice(e, d, row)
          \/ DeleteDevice(e, d)
    BY <1>3 DEF DeviceCommand
  <2>2. ASSUME NEW row \in DeviceRow, CreateDevice(e, d, row) \/ UpdateDevice(e, d, row)
        PROVE  \E h \in Home : Change(e, h)
    BY <1>1, <2>2, DeviceSet DEF CreateDevice, UpdateDevice
  <2>3. CASE DeleteDevice(e, d)
    BY <1>1, <2>3, DeviceSet DEF DeleteDevice
  <2>4. QED
    BY <2>1, <2>2, <2>3
<1>4. CASE SceneCommand(e)
  <2>1. PICK s \in Scene :
          \/ \E steps \in SUBSET (Device \X Trait) :
               CreateScene(e, s, steps) \/ UpdateScene(e, s, steps)
          \/ DeleteScene(e, s)
    BY <1>4 DEF SceneCommand
  <2>2. ASSUME NEW steps \in SUBSET (Device \X Trait),
               CreateScene(e, s, steps) \/ UpdateScene(e, s, steps)
        PROVE  \E h \in Home : Change(e, h)
    BY <1>1, <2>2, ScenesWritten DEF CreateScene, UpdateScene
  <2>3. CASE DeleteScene(e, s)
    <3>1. WithoutScene(s) \in Home
      BY <1>1, ScenesWritten
    <3>2. QED
      BY <2>3, <3>1 DEF DeleteScene
  <2>4. QED
    BY <2>1, <2>2, <2>3
<1>5. ASSUME NEW p \in Ref, ClearPlacement(e, p) PROVE \E h \in Home : Change(e, h)
  BY <1>1, <1>5, PlacementSet DEF ClearPlacement
<1>6. CASE LoadSample(e)
  BY <1>6, SampleAssumption DEF LoadSample
<1>7. QED
  BY <1>2, <1>3, <1>4, <1>5, <1>6 DEF Command

-----------------------------------------------------------------------------
(* The invariant. *)

\* What a new revision invalidates: every read that was labelled before it.
LEMMA WriteKeeps ==
  ASSUME IInv, NEW h \in Home, home' = h, owner # "deleted", owner' # "absent",
         revision' = revision + 1, revision' \in 0..MaxRevision, UNCHANGED reader,
         owner' \in {"active", "archived"}, candidates' \in SUBSET Host
  PROVE  IInv'
<1> USE DEF IInv
<1>1. reader.label \in Nat /\ revision \in Nat /\ reader.label <= revision
  BY DEF TypeOK, LabelledBefore
<1>2. reader'.label < revision'
  BY <1>1
<1>3. TypeOK'
  BY <1>1 DEF TypeOK
<1>4. SeenIsPresent' /\ HeldIsPresent' /\ LabelledBefore'
  BY <1>1, <1>2 DEF SeenIsPresent, HeldIsPresent, LabelledBefore
<1>5. QED
  BY <1>3, <1>4

LEMMA OwnerKeeps ==
  ASSUME IInv, CreateOwner \/ Onboard \/ ArchiveOwner \/ DeleteOwner
  PROVE  IInv'
<1> USE DEF IInv
<1>1. CASE CreateOwner \/ ArchiveOwner
  BY <1>1 DEF CreateOwner, ArchiveOwner, TypeOK, SeenIsPresent, HeldIsPresent, LabelledBefore
<1>2. CASE Onboard
  <2>1. owner = "absent" /\ revision = 0
    BY <1>2 DEF Onboard, LabelledBefore
  <2>2. /\ home' = Sample /\ Sample \in Home
        /\ revision' = revision + 1 /\ revision' \in 0..MaxRevision
        /\ owner' = "active" /\ UNCHANGED <<reader, candidates>>
    BY <1>2, <2>1, SampleAssumption, RevisionAssumption DEF Onboard
  <2>3. candidates' \in SUBSET Host
    BY <2>2 DEF TypeOK
  <2>4. QED
    BY <2>1, <2>2, <2>3, WriteKeeps
<1>3. CASE DeleteOwner
  BY <1>3, EmptyHomeIsHome, RevisionAssumption
     DEF DeleteOwner, RowsGo, TypeOK, SeenIsPresent, HeldIsPresent, LabelledBefore
<1>4. QED
  BY <1>1, <1>2, <1>3

LEMMA ChangeKeeps ==
  ASSUME IInv, NEW e \in 0..MaxRevision, NEW h \in Home, Change(e, h)
  PROVE  IInv'
<1>1. /\ owner \in {"active", "archived"} /\ UNCHANGED <<owner, reader, candidates>>
      /\ revision' = revision + 1 /\ revision < MaxRevision
      /\ home' = h
  BY DEF Change, Advance, Propose
<1>2. revision' \in 0..MaxRevision /\ candidates' \in SUBSET Host
  BY <1>1, RevisionAssumption DEF IInv, TypeOK
<1>3. QED
  BY <1>1, <1>2, WriteKeeps

LEMMA HostKeeps ==
  ASSUME IInv, NEW host \in Host, FindUnwritten(host) \/ FillHome(host)
  PROVE  IInv'
<1> USE DEF IInv
<1>1. candidates' \in SUBSET Host
  BY DEF FindUnwritten, FillHome, TypeOK
<1>2. CASE UNCHANGED <<owner, revision, home, reader>>
  BY <1>1, <1>2 DEF TypeOK, SeenIsPresent, HeldIsPresent, LabelledBefore
<1>3. CASE Fillable /\ Propose(Sample) /\ UNCHANGED <<owner, reader>>
  <2>1. /\ owner \in {"active", "archived"} /\ UNCHANGED <<owner, reader>>
        /\ revision' = revision + 1 /\ revision' \in 0..MaxRevision
        /\ home' = Sample /\ Sample \in Home
    BY <1>3, RevisionAssumption, SampleAssumption DEF Fillable, Advance, Propose, TypeOK
  <2>2. QED
    BY <1>1, <2>1, WriteKeeps
<1>4. QED
  BY <1>2, <1>3 DEF FindUnwritten, FillHome

LEMMA ReaderTyped ==
  ASSUME TypeOK
  PROVE  /\ reader.seen \in Home /\ home \in Home
         /\ reader.label \in 0..MaxRevision /\ revision \in 0..MaxRevision
BY DEF TypeOK

\* The part a statement read, put into what was seen.
LEMMA PartSeen ==
  ASSUME TypeOK
  PROVE  /\ [reader.seen EXCEPT !.areas = home.areas] \in Home
         /\ [reader.seen EXCEPT !.devices = home.devices] \in Home
         /\ [reader.seen EXCEPT !.scenes = home.scenes] \in Home
         /\ [reader.seen EXCEPT !.actions = home.actions] \in Home
         /\ [reader.seen EXCEPT !.placements = home.placements] \in Home
<1>1. reader.seen \in Home /\ home \in Home
  BY ReaderTyped
<1>2. QED
  BY <1>1 DEF Home

LEMMA ReadKeeps ==
  ASSUME IInv, ReadRegistry
  PROVE  IInv'
<1> USE DEF IInv
<1>1. UNCHANGED <<owner, revision, home, candidates>>
  BY DEF ReadRegistry, ReadRevision, ReadAreas, ReadDevices, ReadScenes, ReadActions,
         ReadPlacements, Read
<1>2. reader.seen \in Home /\ home \in Home /\ reader.label \in 0..MaxRevision
      /\ revision \in 0..MaxRevision
  BY ReaderTyped
<1>3. CASE ReadRevision
  <2>1. reader' = [next |-> "areas", label |-> revision, seen |-> EmptyHome]
    BY <1>3 DEF ReadRevision
  <2>2. QED
    BY <1>1, <1>2, <2>1, EmptyHomeIsHome
       DEF TypeOK, Statement, SeenIsPresent, HeldIsPresent, LabelledBefore
<1>4. CASE ReadAreas
  <2>1. /\ reader'.next = "devices" /\ reader'.label = reader.label
        /\ reader'.seen.areas = home.areas
        /\ reader' \in [next : Statement, label : 0..MaxRevision, seen : Home]
    BY <1>2, <1>4, PartSeen DEF ReadAreas, Read, Home, Statement
  <2>2. QED
    BY <1>1, <2>1 DEF TypeOK, SeenIsPresent, HeldIsPresent, LabelledBefore
<1>5. CASE ReadDevices
  <2>1. /\ reader.next = "devices" /\ reader'.next = "scenes" /\ reader'.label = reader.label
        /\ reader'.seen.devices = home.devices
        /\ reader'.seen.areas = reader.seen.areas
        /\ reader' \in [next : Statement, label : 0..MaxRevision, seen : Home]
    BY <1>2, <1>5, PartSeen DEF ReadDevices, Read, Home, Statement
  <2>2. QED
    BY <1>1, <2>1 DEF TypeOK, SeenIsPresent, HeldIsPresent, LabelledBefore
<1>6. CASE ReadScenes
  <2>1. /\ reader.next = "scenes" /\ reader'.next = "actions" /\ reader'.label = reader.label
        /\ reader'.seen.scenes = home.scenes
        /\ reader'.seen.areas = reader.seen.areas
        /\ reader'.seen.devices = reader.seen.devices
        /\ reader' \in [next : Statement, label : 0..MaxRevision, seen : Home]
    BY <1>2, <1>6, PartSeen DEF ReadScenes, Read, Home, Statement
  <2>2. QED
    BY <1>1, <2>1 DEF TypeOK, SeenIsPresent, HeldIsPresent, LabelledBefore
<1>7. CASE ReadActions
  <2>1. /\ reader.next = "actions" /\ reader'.next \in {"raised", "placements"}
        /\ reader'.label = reader.label
        /\ reader'.seen.actions = home.actions
        /\ reader'.seen.areas = reader.seen.areas
        /\ reader'.seen.devices = reader.seen.devices
        /\ reader'.seen.scenes = reader.seen.scenes
        /\ reader' \in [next : Statement \cup NotReading, label : 0..MaxRevision, seen : Home]
    BY <1>2, <1>7, PartSeen DEF ReadActions, Read, Home, Statement, NotReading
  <2>2. QED
    BY <1>1, <2>1 DEF TypeOK, SeenIsPresent, HeldIsPresent, LabelledBefore
<1>8. CASE ReadPlacements
  <2>1. /\ reader.next = "placements" /\ reader'.next \in {"held", "raised"}
        /\ reader'.label = reader.label
        /\ reader'.seen = [reader.seen EXCEPT !.placements = home.placements]
        /\ reader' \in [next : Statement \cup NotReading, label : 0..MaxRevision, seen : Home]
    BY <1>2, <1>8, PartSeen DEF ReadPlacements, Answered, Statement, NotReading
  <2>2. /\ reader.seen.areas = home.areas /\ reader.seen.devices = home.devices
        /\ reader.seen.scenes = home.scenes /\ reader.seen.actions = home.actions
        => reader'.seen = home
    BY <1>2, <2>1 DEF Home
  <2>3. QED
    BY <1>1, <2>1, <2>2 DEF TypeOK, SeenIsPresent, HeldIsPresent, LabelledBefore
<1>9. QED
  BY <1>3, <1>4, <1>5, <1>6, <1>7, <1>8 DEF ReadRegistry

LEMMA InitIInv == Init => IInv
BY EmptyHomeIsHome, RevisionAssumption
   DEF Init, IInv, TypeOK, SeenIsPresent, LabelledBefore, HeldIsPresent, NotReading

LEMMA NextKeeps == IInv /\ [Next]_vars => IInv'
<1> SUFFICES ASSUME IInv, [Next]_vars PROVE IInv'
  OBVIOUS
<1>1. ASSUME NEW e \in 0..MaxRevision, Command(e) PROVE IInv'
  BY <1>1, CommandIsChange, ChangeKeeps DEF IInv
<1>2. CASE UNCHANGED vars
  BY <1>2 DEF vars, IInv, TypeOK, SeenIsPresent, LabelledBefore, HeldIsPresent
<1>3. QED
  BY <1>1, <1>2, OwnerKeeps, HostKeeps, ReadKeeps DEF Next

LEMMA InductiveInvariant == Spec => []IInv
BY InitIInv, NextKeeps, PTL DEF Spec

-----------------------------------------------------------------------------
(* The properties. *)

\* Every table and every read keeps its type, and a home without a revision is
\* empty.
THEOREM TypeCorrect == Spec => []TypeOK
<1>1. IInv => TypeOK
  BY DEF IInv
<1>2. QED
  BY <1>1, InductiveInvariant, PTL

\* Whoever holds the present revision holds the present home, however many
\* commands committed between the statements of the read.
THEOREM ReadsAreSafe == Spec => []HeldIsPresent
<1>1. IInv => HeldIsPresent
  BY DEF IInv
<1>2. QED
  BY <1>1, InductiveInvariant, PTL

\* A revision is never reused for another home of a living Owner.
THEOREM RevisionsNameHomes == Spec => RevisionNamesHome
<1>1. IInv /\ [Next]_vars => [RevisionNamesHomeStep]_vars
  <2> SUFFICES ASSUME IInv, [Next]_vars PROVE [RevisionNamesHomeStep]_vars
    OBVIOUS
  <2> USE DEF IInv
  <2>1. revision \in Nat
    BY RevisionAssumption DEF TypeOK
  <2>2. UNCHANGED <<revision, home>> => RevisionNamesHomeStep
    BY <2>1 DEF RevisionNamesHomeStep
  <2>3. revision' = revision + 1 => RevisionNamesHomeStep
    BY <2>1 DEF RevisionNamesHomeStep
  <2>4. ASSUME NEW e \in 0..MaxRevision, Command(e) PROVE RevisionNamesHomeStep
    <3>1. \E h \in Home : Change(e, h)
      BY <2>4, CommandIsChange
    <3>2. QED
      BY <2>3, <3>1 DEF Change, Advance
  <2>5. ASSUME NEW host \in Host, FindUnwritten(host) \/ FillHome(host)
        PROVE  RevisionNamesHomeStep
    BY <2>2, <2>3, <2>5 DEF FindUnwritten, FillHome, Fillable, Advance
  <2>6. CASE CreateOwner \/ Onboard \/ ArchiveOwner \/ DeleteOwner
    BY <2>2, <2>3, <2>6
       DEF CreateOwner, Onboard, ArchiveOwner, DeleteOwner, LabelledBefore,
           RevisionNamesHomeStep
  <2>7. CASE ReadRegistry
    BY <2>2, <2>7
       DEF ReadRegistry, ReadRevision, ReadAreas, ReadDevices, ReadScenes, ReadActions,
           ReadPlacements, Read
  <2>8. QED
    BY <2>4, <2>5, <2>6, <2>7 DEF Next
<1>2. QED
  BY <1>1, InductiveInvariant, PTL DEF Spec, RevisionNamesHome

\* No host writes a home that was ever written.
THEOREM HomesAreNotRefilled == Spec => EmptiedStaysEmpty
<1>1. IInv /\ [Next]_vars => [EmptiedStaysEmptyStep]_vars
  <2> SUFFICES ASSUME IInv, [Next]_vars PROVE [EmptiedStaysEmptyStep]_vars
    OBVIOUS
  <2>1. UNCHANGED candidates => EmptiedStaysEmptyStep
    BY DEF EmptiedStaysEmptyStep
  <2>2. ASSUME NEW e \in 0..MaxRevision, Command(e) PROVE UNCHANGED candidates
    <3>1. \E h \in Home : Change(e, h)
      BY <2>2, CommandIsChange DEF IInv
    <3>2. QED
      BY <3>1 DEF Change
  <2>3. ASSUME NEW host \in Host, FindUnwritten(host) PROVE EmptiedStaysEmptyStep
    BY <2>3 DEF FindUnwritten, EmptiedStaysEmptyStep
  <2>4. ASSUME NEW host \in Host, FillHome(host) PROVE EmptiedStaysEmptyStep
    BY <2>4, RevisionAssumption DEF FillHome, Fillable, Advance, EmptiedStaysEmptyStep, IInv, TypeOK
  <2>5. CASE CreateOwner \/ Onboard \/ ArchiveOwner \/ DeleteOwner \/ ReadRegistry
    BY <2>1, <2>5
       DEF CreateOwner, Onboard, ArchiveOwner, DeleteOwner, ReadRegistry, ReadRevision,
           ReadAreas, ReadDevices, ReadScenes, ReadActions, ReadPlacements, Read
  <2>6. QED
    BY <2>1, <2>2, <2>3, <2>4, <2>5 DEF Next
<1>2. QED
  BY <1>1, InductiveInvariant, PTL DEF Spec, EmptiedStaysEmpty

\* Only the areas, only the devices, or neither of them are written.
LEMMA AreasWritten ==
  ASSUME home \in Home, NEW a \in Area, NEW x \in Label \cup {None},
         home' = [home EXCEPT !.areas[a] = x]
  PROVE  DependantsStayStep
<1>1. home' = [home EXCEPT !.areas = home'.areas] /\ home'.devices = home.devices
  BY DEF Home
<1>2. QED
  BY <1>1 DEF DependantsStayStep, HasDevice

LEMMA DevicesWritten ==
  ASSUME home \in Home, NEW d \in Device, NEW x \in DeviceRow \cup {None},
         home' = [home EXCEPT !.devices[d] = x]
  PROVE  DependantsStayStep
<1>1. home' = [home EXCEPT !.devices = home'.devices] /\ home'.areas = home.areas
  BY DEF Home
<1>2. QED
  BY <1>1 DEF DependantsStayStep, HasArea

LEMMA OthersWritten ==
  ASSUME home'.areas = home.areas, home'.devices = home.devices
  PROVE  DependantsStayStep
BY DEF DependantsStayStep, HasArea, HasDevice

LEMMA SampleWritten == home = EmptyHome => DependantsStayStep
BY DEF DependantsStayStep, HasArea, HasDevice, EmptyHome

LEMMA CommandStays ==
  ASSUME TypeOK, NEW e \in 0..MaxRevision, Command(e)
  PROVE  DependantsStayStep
<1>1. home \in Home
  BY DEF TypeOK
<1>2. CASE AreaCommand(e)
  <2>1. PICK a \in Area :
          \/ \E x \in Label \cup {None} : home' = [home EXCEPT !.areas[a] = x]
          \/ \E p \in Ref : SetPlacement(e, p, a)
    BY <1>2 DEF AreaCommand, CreateArea, UpdateArea, DeleteArea, Change, Propose
  <2>2. ASSUME NEW p \in Ref, SetPlacement(e, p, a) PROVE DependantsStayStep
    <3>1. home' = [home EXCEPT !.placements[p] = a]
      BY <2>2 DEF SetPlacement, Change, Propose
    <3>2. home'.areas = home.areas /\ home'.devices = home.devices
      BY <1>1, <3>1 DEF Home
    <3>3. QED
      BY <3>2, OthersWritten
  <2>3. QED
    BY <1>1, <2>1, <2>2, AreasWritten
<1>3. CASE DeviceCommand(e)
  <2>1. PICK d \in Device : \E x \in DeviceRow \cup {None} :
          home' = [home EXCEPT !.devices[d] = x]
    BY <1>3 DEF DeviceCommand, CreateDevice, UpdateDevice, DeleteDevice, Change, Propose
  <2>2. QED
    BY <1>1, <2>1, DevicesWritten
<1>4. CASE SceneCommand(e)
  <2>1. PICK s \in Scene :
          \/ \E steps \in SUBSET (Device \X Trait) : home' = WithScene(s, steps)
          \/ home' = WithoutScene(s)
    BY <1>4 DEF SceneCommand, CreateScene, UpdateScene, DeleteScene, Change, Propose
  <2>2. home'.areas = home.areas /\ home'.devices = home.devices
    BY <1>1, <2>1 DEF WithScene, WithoutScene, Home
  <2>3. QED
    BY <2>2, OthersWritten
<1>5. ASSUME NEW p \in Ref, ClearPlacement(e, p) PROVE DependantsStayStep
  <2>1. home' = [home EXCEPT !.placements[p] = None]
    BY <1>5 DEF ClearPlacement, Change, Propose
  <2>2. home'.areas = home.areas /\ home'.devices = home.devices
    BY <1>1, <2>1 DEF Home
  <2>3. QED
    BY <2>2, OthersWritten
<1>6. CASE LoadSample(e)
  BY <1>6, SampleWritten DEF LoadSample
<1>7. QED
  BY <1>2, <1>3, <1>4, <1>5, <1>6 DEF Command

\* Nothing that stands in an area, or drives a device, goes with it.
THEOREM NothingGoesAlong == Spec => DependantsStay
<1>1. IInv /\ [Next]_vars => [DependantsStayStep]_vars
  <2> SUFFICES ASSUME IInv, [Next]_vars PROVE [DependantsStayStep]_vars
    OBVIOUS
  <2> USE DEF IInv
  <2>1. UNCHANGED home => DependantsStayStep
    BY OthersWritten
  <2>2. ASSUME NEW e \in 0..MaxRevision, Command(e) PROVE DependantsStayStep
    BY <2>2, CommandStays
  <2>3. ASSUME NEW host \in Host, FindUnwritten(host) \/ FillHome(host)
        PROVE  DependantsStayStep
    <3>1. CASE UNCHANGED home
      BY <2>1, <3>1
    <3>2. CASE Fillable
      BY <3>2, SampleWritten DEF Fillable, Advance, TypeOK
    <3>3. QED
      BY <2>3, <3>1, <3>2 DEF FindUnwritten, FillHome
  <2>4. CASE CreateOwner \/ ArchiveOwner \/ ReadRegistry
    BY <2>1, <2>4
       DEF CreateOwner, ArchiveOwner, ReadRegistry, ReadRevision, ReadAreas, ReadDevices,
           ReadScenes, ReadActions, ReadPlacements, Read
  <2>5. CASE Onboard
    BY <2>5, SampleWritten DEF Onboard, LabelledBefore, TypeOK
  <2>6. CASE DeleteOwner
    BY <2>6 DEF DeleteOwner, DependantsStayStep
  <2>7. QED
    BY <2>2, <2>3, <2>4, <2>5, <2>6 DEF Next
<1>2. QED
  BY <1>1, InductiveInvariant, PTL DEF Spec, DependantsStay
=============================================================================
