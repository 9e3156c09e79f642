-------------------------- MODULE ProvisioningProofs --------------------------
(***************************************************************************)
(* That an operation is done once and its retry is answered, for any number *)
(* of operations, Owners, Companions and Realms.                            *)
(***************************************************************************)
EXTENDS Provisioning, OwnerWorkspaceProofs

-----------------------------------------------------------------------------
(* The rows a command leaves where they were. *)

\* A Companion that stays keeps its Owner, and the Realms of that Owner stay its.
RowsStayStep ==
  \A c \in Companion : Lives(c) =>
    /\ companions'[c].owner = companions[c].owner
    /\ \A r \in Realm : realms[r].owner = companions[c].owner =>
         realms'[r].owner = realms[r].owner

LEMMA NextRowsStay ==
  ASSUME IInv, Next
  PROVE  RowsStayStep
<1> USE NoneAssumption, IInvRows DEF IInv, RowsTyped, RowsStayStep, InScope, CompanionsInScope,
       RealmsInScope, Lives, rows
<1>1. CASE NoChange
  BY <1>1 DEF NoChange, rows, Exists, Owned, OwnerRealms
<1>2. ASSUME NEW o \in Owner, NEW n \in Name, CreateOwner(o, n)
      PROVE  RowsStayStep
  BY <1>2 DEF CreateOwner, Owners, Exists, Owned, OwnerRealms
<1>3. ASSUME NEW o \in Owner, NEW n \in Name, UpdateOwner(o, n) \/ RenameOwner(o, n)
      PROVE  RowsStayStep
  BY <1>3, NameEffect DEF UpdateOwner, RenameOwner, Exists, Owned, OwnerRealms
<1>4. ASSUME NEW o \in Owner, NEW c \in Companion, NEW n \in Name, NEW r \in Realm,
             InitializeOwnerWorkspace(o, n, c, r)
      PROVE  RowsStayStep
  <2>1. Initializes(o, n, c, r)
    BY <1>4, InitializeEffect
  <2>2. QED
    BY <2>1 DEF Initializes, NewCompanion, Exists, Owned, OwnerRealms
<1>5. ASSUME NEW o \in Owner, ArchiveOwner(o), ~NoChange
      PROVE  RowsStayStep
  <2>1. Archives(o)
    BY <1>5, ArchiveEffect
  <2>2. QED
    BY <2>1 DEF Archives, Exists, Owned, OwnerRealms
<1>6. ASSUME NEW o \in Owner, DeleteOwner(o)
      PROVE  RowsStayStep
  BY <1>6
     DEF DeleteOwner, NoOwner, NoCompanion, NoRealm, NoBinding, Owners, Exists, Owned, OwnerRealms
<1>7. ASSUME NEW o \in Owner, NEW c \in Companion, NEW k \in Kind, NEW r \in Realm,
             AddCompanion(o, c, k, r)
      PROVE  RowsStayStep
  <2>1. Provisions(o, c, k, r)
    BY <1>7, ProvisionEffect
  <2>2. QED
    BY <2>1 DEF Provisions, NewCompanion, Catalogs, PointsTo, Exists, Owned, OwnerRealms
<1>8. ASSUME NEW o \in Owner, NEW c \in Companion, NEW r \in Realm, EnsureCompanionRealm(o, c, r)
      PROVE  RowsStayStep
  <2>1. Owned(o, c) /\ Catalogs(o, r) /\ Attaches(c, r) /\ UNCHANGED <<owners, bindings>>
    BY <1>8, RealmEffect, AttachEffect DEF EnsureCompanionRealm
  <2>2. QED
    BY <2>1 DEF Attaches, Catalogs, Exists, Owned, OwnerRealms
<1>9. ASSUME NEW o \in Owner, NEW c \in Companion, NEW e \in Expected, NEW x \in Companion,
             BeginRetirement(o, c, e, x), ~NoChange
      PROVE  RowsStayStep
  <2>1. /\ Owned(o, c) /\ Moves(c, "retiring", 1) /\ UNCHANGED <<realms, bindings>>
        /\ HandsOver(o, c, x)
        /\ companions[c].state = "active"
    BY <1>9, HandOverEffect, MoveEffect, MayMoveFrom DEF BeginRetirement
  <2>2. QED
    BY <2>1 DEF HandsOver, EligibleReplacements, Moves, PointsTo, Exists, Owned, OwnerRealms
<1>10. ASSUME NEW o \in Owner, NEW c \in Companion, NEW e \in Expected,
             ArchiveCompanion(o, c, e), ~NoChange
       PROVE  RowsStayStep
  <2>1. /\ Owned(o, c) /\ Moves(c, "archived", 1) /\ UNCHANGED <<owners, realms, bindings>>
        /\ owners[o].default # c
        /\ companions[c].state = "retiring"
    BY <1>10, MoveEffect, MayMoveFrom DEF ArchiveCompanion
  <2>2. QED
    BY <2>1 DEF Moves, Exists, Owned, OwnerRealms
<1>11. ASSUME NEW o \in Owner, NEW c \in Companion, NEW e \in Expected, NEW x \in Companion,
             PutAwayCompanion(o, c, e, x), ~ArchiveCompanion(o, c, None)
       PROVE  RowsStayStep
  <2>1. /\ Owned(o, c) /\ Moves(c, "archived", 2) /\ UNCHANGED <<realms, bindings>>
        /\ HandsOver(o, c, x)
        /\ companions[c].state = "active"
    BY <1>11, HandOverEffect, MoveEffect, MayMoveFrom DEF PutAwayCompanion
  <2>2. QED
    BY <2>1 DEF HandsOver, EligibleReplacements, Moves, PointsTo, Exists, Owned, OwnerRealms
<1>12. ASSUME NEW o \in Owner, NEW c \in Companion, NEW e \in Expected,
             RestoreCompanion(o, c, e), ~NoChange
       PROVE  RowsStayStep
  <2>1. /\ Owned(o, c) /\ Moves(c, "active", 1) /\ UNCHANGED <<owners, realms, bindings>>
        /\ companions[c].state = "archived"
    BY <1>12, MoveEffect, MayMoveFrom DEF RestoreCompanion
  <2>2. QED
    BY <2>1 DEF Moves, Exists, Owned, OwnerRealms
<1>13. ASSUME NEW o \in Owner, NEW c \in Companion, NEW e \in Expected, NEW r \in Realm,
             SetDefaultCompanion(o, c, e, r)
       PROVE  RowsStayStep
  <2>1. MakesDefault(o, c, r)
    BY <1>13, SetDefaultEffect
  <2>2. QED
    BY <2>1 DEF MakesDefault, Catalogs, Attaches, PointsTo, Exists, Owned, OwnerRealms
<1>14. ASSUME NEW o \in Owner, NEW c \in Companion, NEW allow \in BOOLEAN,
             DeleteCompanion(o, c, allow)
       PROVE  RowsStayStep
  <2>1. Deletes(o, c)
    BY <1>14, DeleteEffect
  <2>2. QED
    BY <2>1 DEF Deletes, PointsTo, NoCompanion, NoBinding, Exists, Owned, OwnerRealms
<1>15. ASSUME NEW o \in Owner, NEW c \in Companion, NEW d \in Device, NEW b \in Binding,
             Bind(o, c, d, b)
       PROVE  RowsStayStep
  BY <1>15 DEF Bind, Unbound, Bindings, Exists, Owned, OwnerRealms
<1>16. ASSUME NEW b \in Binding, BindingCommand(b)
       PROVE  RowsStayStep
  BY <1>16, BindingEffect DEF Exists, Owned, OwnerRealms
<1>17. QED
  BY <1>1, <1>2, <1>3, <1>4, <1>5, <1>6, <1>7, <1>8, <1>9, <1>10, <1>11, <1>12, <1>13, <1>14,
     <1>15, <1>16, NextSteps
-----------------------------------------------------------------------------
(* The inductive invariant: a Companion that carries a mark is there and was *)
(* made by the operation of its mark, and the first Companion's Owner still  *)
(* holds the Realm onboarding derived.  It is what lets a retry be read off  *)
(* the rows: the operation that made nothing finds no row under its ids.     *)

Tracks ==
  /\ provenance \in [Companion -> Provenance \cup {None}]
  /\ \A c \in Companion : provenance[c] # None =>
       LET mark == provenance[c]
       IN  /\ companions[c].state # "absent"
           /\ c = Made(mark.by, mark.operation)
           /\ mark.by = "onboard" =>
                /\ companions[c].owner = Ids[mark.operation].owner
                /\ realms[Ids[mark.operation].realm].owner = companions[c].owner

PInv == IInv /\ Tracks

LEMMA DerivedIds ==
  ASSUME NEW op \in Operation
  PROVE  /\ Ids[op] \in Derived
         /\ \A by \in Kinds : Made(by, op) \in Companion
BY IdsAssumption DEF Derived, Made, Kinds

\* Different operations, and the two kinds of one, make different Companions.
LEMMA MadeApart ==
  ASSUME NEW op \in Operation, NEW other \in Operation, NEW by \in Kinds, NEW kind \in Kinds,
         Made(by, op) = Made(kind, other)
  PROVE  by = kind /\ op = other
BY IdsAssumption DEF Made, Kinds

LEMMA CommandIsNext == ASSUME OtherCommand PROVE Next
<1>1. ASSUME NEW o \in Owner, NEW n \in Name,
             UpdateOwner(o, n) \/ RenameOwner(o, n) \/ CreateOwner(o, n)
      PROVE  Next
  BY <1>1 DEF Next, OwnerCommand
<1>2. ASSUME NEW o \in Owner, ArchiveOwner(o) \/ DeleteOwner(o) PROVE Next
  BY <1>2 DEF Next, OwnerCommand
<1>3. ASSUME NEW o \in Owner, NEW c \in Companion, NEW r \in Realm,
             \/ \E k \in Kind : ProvisionWorkspace(o, c, k, r)
             \/ EnsureCompanionRealm(o, c, r) \/ SetDefaultCompanion(o, c, None, r)
      PROVE  Next
  BY <1>3 DEF Next, CompanionCommand, Expected
<1>4. ASSUME NEW o \in Owner, NEW c \in Companion,
             \/ \E x \in Companion :
                  BeginRetirement(o, c, None, x) \/ PutAwayCompanion(o, c, None, x)
             \/ ArchiveCompanion(o, c, None) \/ RestoreCompanion(o, c, None)
             \/ \E allow \in BOOLEAN : DeleteCompanion(o, c, allow)
      PROVE  Next
  <2>1. None \in Expected
    BY DEF Expected
  <2>2. CompanionCommand(o, c)
    BY <1>4, <2>1 DEF CompanionCommand
  <2>3. QED
    BY <2>2 DEF Next
<1>5. /\ OtherOwner \subseteq Owner /\ OtherCompanion \subseteq Companion
      /\ OtherRealm \subseteq Realm
      /\ \A o \in Owner, id \in OtherRealm : RealmFor(o, id) \subseteq Realm
  BY DEF RealmFor, ActiveRealms, OwnerRealms, OtherRealm, OtherOwner, OtherCompanion
<1>6. ASSUME NEW o \in Owner, NEW id \in OtherRealm,
             \/ \E c \in OtherCompanion, k \in Kind : ProvisionWorkspace(o, c, k, id)
             \/ \E c \in Companion, r \in RealmFor(o, id) :
                  EnsureCompanionRealm(o, c, r) \/ SetDefaultCompanion(o, c, None, r)
      PROVE  Next
  BY <1>3, <1>5, <1>6
<1>7. CASE \E o \in Owner, n \in Name : UpdateOwner(o, n) \/ RenameOwner(o, n)
  BY <1>1, <1>7
<1>8. CASE \E o \in OtherOwner, n \in Name : CreateOwner(o, n)
  BY <1>1, <1>5, <1>8
<1>9. CASE \E o \in Owner : ArchiveOwner(o) \/ DeleteOwner(o)
  BY <1>2, <1>9
<1>10. QED
  BY <1>4, <1>6, <1>7, <1>8, <1>9 DEF OtherCommand

\* What a step of onboarding does.
Onboards(op, request) ==
  /\ Next
  /\ \A c \in Companion : companions[c].state # "absent" => companions'[c].state # "absent"
  /\ request \in Request
  /\ companions[Ids[op].companion].state = "absent"
  /\ companions'[Ids[op].companion].owner = Ids[op].owner
  /\ companions'[Ids[op].companion].state = "active"
  /\ realms'[Ids[op].realm].owner = Ids[op].owner
  /\ Remember(Ids[op].companion, Mark("onboard", op, request))
  /\ Tell("created", "onboard", op, Ids[op].owner, request)

LEMMA OnboardStep ==
  ASSUME PInv, NEW op \in Operation, NEW n \in Name, NEW request \in Request \cup {None},
         Onboard(op, n, request)
  PROVE  \/ Onboards(op, request)
         \/ /\ NoChange /\ UNCHANGED provenance
            /\ answer' \in Answer /\ answer' # None
            /\ answer'.by = "onboard" /\ answer'.operation = op
            /\ answer'.owner = Ids[op].owner
            /\ \/ /\ answer'.outcome = "replayed"
                  /\ provenance[Ids[op].companion] # None
                  /\ answer'.request = provenance[Ids[op].companion].request
               \/ /\ answer'.outcome = "refused"
                  /\ answer'.request = request
                  /\ ~Onboarded(op, request)
<1>1. Ids[op] \in Derived
  BY DerivedIds
<1>2. CASE InitializeOwnerWorkspace(Ids[op].owner, n, Ids[op].companion, Ids[op].realm)
  <2>1. Next
    BY <1>1, <1>2 DEF Derived, Next, OwnerCommand
  <2>2. Initializes(Ids[op].owner, n, Ids[op].companion, Ids[op].realm)
    BY <1>1, <1>2, IInvRows, InitializeEffect DEF PInv, Derived
  <2>3. CASE request # None /\ Remember(Ids[op].companion, Mark("onboard", op, request))
             /\ Tell("created", "onboard", op, Ids[op].owner, request)
    BY <2>1, <2>2, <2>3 DEF Onboards, Initializes, NewCompanion
  <2>4. CASE Exists(Ids[op].owner)
    BY <2>2, <2>4 DEF Initializes
  <2>5. QED
    BY <2>3, <2>4 DEF Onboard
<1>3. CASE NoChange /\ UNCHANGED provenance
           /\ IF Onboarded(op, request)
                THEN Tell("replayed", "onboard", op, Ids[op].owner,
                          IF request = None THEN provenance[Ids[op].companion].request
                          ELSE request)
                ELSE Tell("refused", "onboard", op, Ids[op].owner, request)
  <2>1. CASE Onboarded(op, request)
    <3>1. /\ provenance[Ids[op].companion] # None
          /\ request \in {None, provenance[Ids[op].companion].request}
      BY <2>1 DEF Onboarded, MadeFor
    <3>2. provenance[Ids[op].companion] \in Provenance
      BY <1>1, <3>1 DEF PInv, Tracks, Derived
    <3>3. answer' = [outcome |-> "replayed", by |-> "onboard", operation |-> op,
                     owner |-> Ids[op].owner,
                     request |-> provenance[Ids[op].companion].request]
      BY <1>3, <2>1, <3>1 DEF Tell
    <3>4. answer' \in Answer
      BY <1>1, <3>2, <3>3 DEF Answer, Outcome, Kinds, Derived, Provenance
    <3>5. QED
      BY <1>3, <3>1, <3>3, <3>4, NoneIsApart
  <2>2. CASE ~Onboarded(op, request)
    <3>1. answer' = [outcome |-> "refused", by |-> "onboard", operation |-> op,
                     owner |-> Ids[op].owner, request |-> request]
      BY <1>3, <2>2 DEF Tell
    <3>2. answer' \in Answer
      BY <1>1, <3>1 DEF Answer, Outcome, Kinds, Derived
    <3>3. QED
      BY <1>3, <2>2, <3>1, <3>2, NoneIsApart
  <2>3. QED
    BY <2>1, <2>2
<1>4. QED
  BY <1>2, <1>3 DEF Onboard

\* What a step of adding a Companion does.
Adds(op, o, request) ==
  /\ Next
  /\ \A c \in Companion : companions[c].state # "absent" => companions'[c].state # "absent"
  /\ companions[Ids[op].added].state = "absent"
  /\ companions'[Ids[op].added].state = "active"
  /\ Remember(Ids[op].added, Mark("provision", op, request))
  /\ Tell("created", "provision", op, o, request)

LEMMA ProvisionStep ==
  ASSUME PInv, NEW op \in Operation, NEW o \in Owner, NEW k \in Kind, NEW request \in Request,
         Provision(op, o, k, request)
  PROVE  \/ Adds(op, o, request)
         \/ /\ NoChange /\ UNCHANGED provenance
            /\ answer' \in Answer /\ answer' # None
            /\ answer'.by = "provision" /\ answer'.operation = op
            /\ answer'.owner = o
            /\ answer'.request = request
            /\ \/ /\ answer'.outcome = "replayed"
                  /\ provenance[Ids[op].added] # None
                  /\ request = provenance[Ids[op].added].request
               \/ answer'.outcome = "refused" /\ ~Provisioned(op, o, request)
<1>1. Ids[op] \in Derived
  BY DerivedIds
<1>2. ASSUME ProvisionWorkspace(o, Ids[op].added, k, Ids[op].addedRealm),
             Remember(Ids[op].added, Mark("provision", op, request)),
             Tell("created", "provision", op, o, request)
      PROVE  Adds(op, o, request)
  <2>1. PICK r \in Realm : AddCompanion(o, Ids[op].added, k, r)
    BY <1>1, <1>2, ProvisionAdds DEF Derived
  <2>2. Next
    BY <1>1, <1>2 DEF Next, CompanionCommand, Derived
  <2>3. Provisions(o, Ids[op].added, k, r)
    BY <1>1, <2>1, IInvRows, ProvisionEffect DEF PInv, Derived
  <2>4. QED
    BY <1>2, <2>2, <2>3 DEF Adds, Provisions, NewCompanion
<1>3. CASE NoChange /\ UNCHANGED provenance
           /\ \/ /\ companions[Ids[op].added].state = "absent"
                 /\ Tell("refused", "provision", op, o, request)
              \/ IF Provisioned(op, o, request)
                   THEN Tell("replayed", "provision", op, o, request)
                   ELSE Tell("refused", "provision", op, o, request)
  <2>1. ASSUME NEW outcome \in Outcome, Tell(outcome, "provision", op, o, request)
        PROVE  /\ answer' \in Answer /\ answer' # None
               /\ answer'.by = "provision" /\ answer'.operation = op
               /\ answer'.owner = o /\ answer'.request = request
               /\ answer'.outcome = outcome
    BY <2>1, NoneIsApart DEF Tell, Answer, Kinds
  <2>2. Provisioned(op, o, request) =>
          /\ provenance[Ids[op].added] # None
          /\ request = provenance[Ids[op].added].request
    BY NoneIsApart DEF Provisioned, MadeFor
  <2>3. companions[Ids[op].added].state = "absent" => ~Provisioned(op, o, request)
    BY DEF Provisioned, MadeFor
  <2>4. QED
    BY <1>3, <2>1, <2>2, <2>3 DEF Outcome
<1>4. QED
  BY <1>2, <1>3 DEF Provision

LEMMA IInvStays ==
  ASSUME IInv, Next \/ NoChange
  PROVE  IInv'
<1>1. CASE NoChange
  BY <1>1
     DEF NoChange, rows, IInv, TypeOK, InScope, CompanionsInScope, RealmsInScope, BindingsInScope,
         SharedRealm, OneActiveRealm, CompanionsShareRealm, DefaultAnswers, OneGuard,
         Exists, Owned, OwnerRealms, ActiveRealms, DefaultFor
<1>2. CASE Next
  BY <1>2, NextTypeOK, NextInScope, NextSharedRealm, NextDefaultAnswers, NextOneGuard DEF IInv
<1>3. QED
  BY <1>1, <1>2

\* A mark stands as long as its Companion does.
LEMMA MarkStands ==
  ASSUME PInv, RowsStayStep, NEW c \in Companion, provenance[c] # None,
         companions'[c].state # "absent"
  PROVE  /\ c = Made(provenance[c].by, provenance[c].operation)
         /\ provenance[c].by = "onboard" =>
              /\ companions'[c].owner = Ids[provenance[c].operation].owner
              /\ realms'[Ids[provenance[c].operation].realm].owner = companions'[c].owner
<1>1. Lives(c)
  BY DEF Lives, PInv, Tracks
<1>2. provenance[c] \in Provenance
  BY DEF PInv, Tracks
<1>3. Ids[provenance[c].operation].realm \in Realm
  BY <1>2, DerivedIds DEF Provenance, Derived
<1>4. QED
  BY <1>1, <1>3 DEF RowsStayStep, PInv, Tracks

\* Creating a Companion leaves every other one that was there.
LEMMA TracksAfterOnboard ==
  ASSUME PInv, NEW op \in Operation, NEW request, Onboards(op, request)
  PROVE  Tracks'
<1>1. Ids[op] \in Derived
  BY DerivedIds
<1>2. RowsStayStep
  BY NextRowsStay DEF PInv, Onboards
<1>3. Mark("onboard", op, request) \in Provenance
  BY DEF Mark, Provenance, Kinds, Onboards
<1>4. provenance' = [provenance EXCEPT ![Ids[op].companion] = Mark("onboard", op, request)]
  BY DEF Onboards, Remember
<1>5. provenance' \in [Companion -> Provenance \cup {None}]
  BY <1>3, <1>4 DEF PInv, Tracks
<1>6. ASSUME NEW c \in Companion, provenance'[c] # None
      PROVE  /\ companions'[c].state # "absent"
             /\ c = Made(provenance'[c].by, provenance'[c].operation)
             /\ provenance'[c].by = "onboard" =>
                  /\ companions'[c].owner = Ids[provenance'[c].operation].owner
                  /\ realms'[Ids[provenance'[c].operation].realm].owner = companions'[c].owner
  <2>1. CASE c = Ids[op].companion
    BY <1>4, <2>1 DEF PInv, Tracks, Mark, Made, Onboards
  <2>2. CASE c # Ids[op].companion
    <3>1. provenance'[c] = provenance[c]
      BY <1>4, <2>2 DEF PInv, Tracks
    <3>2. QED
      BY <1>2, <1>6, <3>1, MarkStands DEF PInv, Tracks, Onboards
  <2>3. QED
    BY <2>1, <2>2
<1>7. QED
  BY <1>5, <1>6 DEF Tracks

LEMMA TracksAfterAdding ==
  ASSUME PInv, NEW op \in Operation, NEW o, NEW request \in Request, Adds(op, o, request)
  PROVE  Tracks'
<1>1. Ids[op] \in Derived
  BY DerivedIds
<1>2. RowsStayStep
  BY NextRowsStay DEF PInv, Adds
<1>3. Mark("provision", op, request) \in Provenance
  BY DEF Mark, Provenance, Kinds
<1>4. provenance' = [provenance EXCEPT ![Ids[op].added] = Mark("provision", op, request)]
  BY DEF Adds, Remember
<1>5. provenance' \in [Companion -> Provenance \cup {None}]
  BY <1>3, <1>4 DEF PInv, Tracks
<1>6. ASSUME NEW c \in Companion, provenance'[c] # None
      PROVE  /\ companions'[c].state # "absent"
             /\ c = Made(provenance'[c].by, provenance'[c].operation)
             /\ provenance'[c].by = "onboard" =>
                  /\ companions'[c].owner = Ids[provenance'[c].operation].owner
                  /\ realms'[Ids[provenance'[c].operation].realm].owner = companions'[c].owner
  <2>1. CASE c = Ids[op].added
    BY <1>4, <2>1 DEF PInv, Tracks, Mark, Made, Adds
  <2>2. CASE c # Ids[op].added
    <3>1. provenance'[c] = provenance[c]
      BY <1>4, <2>2 DEF PInv, Tracks
    <3>2. QED
      BY <1>2, <1>6, <3>1, MarkStands DEF PInv, Tracks, Adds
  <2>3. QED
    BY <2>1, <2>2
<1>7. QED
  BY <1>5, <1>6 DEF Tracks

\* A command forgets the marks of what it deletes.
LEMMA TracksAfterCommand ==
  ASSUME PInv, Command
  PROVE  Tracks'
<1>1. RowsStayStep
  BY NextRowsStay, CommandIsNext DEF PInv, Command
<1>2. provenance' = [c \in Companion |-> Keep(c)]
  BY DEF Command
<1>3. provenance' \in [Companion -> Provenance \cup {None}]
  BY <1>2 DEF PInv, Tracks, Keep
<1>4. ASSUME NEW c \in Companion, provenance'[c] # None
      PROVE  /\ companions'[c].state # "absent"
             /\ c = Made(provenance'[c].by, provenance'[c].operation)
             /\ provenance'[c].by = "onboard" =>
                  /\ companions'[c].owner = Ids[provenance'[c].operation].owner
                  /\ realms'[Ids[provenance'[c].operation].realm].owner = companions'[c].owner
  <2>1. companions'[c].state # "absent" /\ provenance'[c] = provenance[c]
    BY <1>2, <1>4 DEF Keep
  <2>2. QED
    BY <1>1, <1>4, <2>1, MarkStands
<1>5. QED
  BY <1>3, <1>4 DEF Tracks

LEMMA TracksAfterNothing ==
  ASSUME Tracks, UNCHANGED <<companions, realms, provenance>>
  PROVE  Tracks'
BY DEF Tracks

\* The three kinds of step.
LEMMA Steps ==
  ASSUME ProvisioningNext
  PROVE  \/ Command
         \/ \E op \in Operation, n \in Name, request \in Request \cup {None} :
              Onboard(op, n, request)
         \/ \E op \in Operation, o \in Owner, k \in Kind, request \in Request :
              Provision(op, o, k, request)
BY DEF ProvisioningNext

LEMMA StepIsCommand ==
  ASSUME PInv, ProvisioningNext
  PROVE  Next \/ NoChange
<1>1. CASE Command
  BY <1>1, CommandIsNext DEF Command
<1>2. ASSUME NEW op \in Operation, NEW n \in Name, NEW request \in Request \cup {None},
             Onboard(op, n, request)
      PROVE  Next \/ NoChange
  BY <1>2, OnboardStep DEF Onboards
<1>3. ASSUME NEW op \in Operation, NEW o \in Owner, NEW k \in Kind, NEW request \in Request,
             Provision(op, o, k, request)
      PROVE  Next \/ NoChange
  BY <1>3, ProvisionStep DEF Adds
<1>4. QED
  BY <1>1, <1>2, <1>3, Steps

LEMMA PInvStays ==
  ASSUME PInv, [ProvisioningNext]_provisionVars
  PROVE  PInv'
<1>1. CASE UNCHANGED provisionVars
  BY <1>1
     DEF provisionVars, PInv, Tracks, IInv, TypeOK, InScope, CompanionsInScope, RealmsInScope,
         BindingsInScope, SharedRealm, OneActiveRealm, CompanionsShareRealm, DefaultAnswers,
         OneGuard, Exists, Owned, OwnerRealms, ActiveRealms, DefaultFor
<1>2. CASE ProvisioningNext
  <2>1. IInv'
    BY <1>2, StepIsCommand, IInvStays DEF PInv
  <2>2. NoChange /\ UNCHANGED provenance => Tracks'
    BY TracksAfterNothing DEF PInv, NoChange, rows
  <2>3. CASE Command
    BY <2>1, <2>3, TracksAfterCommand DEF PInv
  <2>4. ASSUME NEW op \in Operation, NEW n \in Name, NEW request \in Request \cup {None},
               Onboard(op, n, request)
        PROVE  Tracks'
    BY <2>2, <2>4, OnboardStep, TracksAfterOnboard
  <2>5. ASSUME NEW op \in Operation, NEW o \in Owner, NEW k \in Kind, NEW request \in Request,
               Provision(op, o, k, request)
        PROVE  Tracks'
    BY <2>2, <2>5, ProvisionStep, TracksAfterAdding
  <2>6. QED
    BY <1>2, <2>1, <2>3, <2>4, <2>5, Steps DEF PInv
<1>3. QED
  BY <1>1, <1>2

LEMMA ProvisioningInvariant == ProvisioningSpec => []PInv
<1>1. ProvisioningInit => PInv
  <2> SUFFICES ASSUME ProvisioningInit PROVE PInv
    OBVIOUS
  <2>1. TypeOK
    BY NoneAssumption
       DEF ProvisioningInit, Init, TypeOK, OwnerRow, CompanionRow, RealmRow, BindingRow,
           NoOwner, NoCompanion, NoRealm, NoBinding
  <2>2. InScope /\ SharedRealm /\ DefaultAnswers /\ OneGuard
    BY DEF ProvisioningInit, Init, InScope, CompanionsInScope, RealmsInScope, BindingsInScope,
           SharedRealm, OneActiveRealm, CompanionsShareRealm, DefaultAnswers, OneGuard,
           NoOwner, NoCompanion, NoRealm, NoBinding
  <2>3. Tracks
    BY DEF ProvisioningInit, Tracks
  <2>4. QED
    BY <2>1, <2>2, <2>3 DEF PInv, IInv
<1>2. QED
  BY <1>1, PInvStays, PTL DEF ProvisioningSpec

-----------------------------------------------------------------------------
(* What callers may count on. *)

\* Also when commands and retried operations alternate, none moves an Owner's pointer
\* or status or a Companion's state and leaves its revision, while the row lives.
THEOREM RevisionsMoveUnderRetries == ProvisioningSpec => RevisionMoves
<1>1. ASSUME PInv, [ProvisioningNext]_provisionVars
      PROVE  [RevisionMovesStep]_vars
  <2>1. CASE UNCHANGED provisionVars
    BY <2>1 DEF provisionVars, vars
  <2>2. CASE Next
    BY <1>1, <2>2, NextRevisionMoves DEF PInv
  <2>3. CASE NoChange
    BY <2>3 DEF NoChange, rows, RevisionMovesStep, Survives, Lives, Exists
  <2>4. QED
    BY <1>1, <2>1, <2>2, <2>3, StepIsCommand
<1>2. QED
  BY <1>1, ProvisioningInvariant, PTL DEF ProvisioningSpec, RevisionMoves

\* An operation that is refused was not the one that made the Companion, or was
\* asked for another Owner, or adds to an Owner that is archived.
THEOREM RetriesAreAnswered == ProvisioningSpec => RetryIsAnswered
<1>1. ASSUME PInv, ProvisioningNext
      PROVE  RetryIsAnsweredStep
  <2>1. CASE Command
    BY <2>1 DEF Command, RetryIsAnsweredStep
  <2>2. ASSUME NEW op \in Operation, NEW n \in Name, NEW request \in Request \cup {None},
               Onboard(op, n, request)
        PROVE  RetryIsAnsweredStep
    <3>1. CASE Onboards(op, request)
      BY <3>1 DEF Onboards, Tell, RetryIsAnsweredStep
    <3>2. ASSUME ~Onboarded(op, request), MadeFor(Ids[op].companion, "onboard", op, request)
          PROVE  companions[Ids[op].companion].owner # Ids[op].owner
      <4>1. Ids[op].companion \in Companion
        BY DerivedIds DEF Derived
      <4>2. /\ provenance[Ids[op].companion].by = "onboard"
            /\ provenance[Ids[op].companion].operation = op
            /\ provenance[Ids[op].companion] # None
        BY <3>2 DEF MadeFor
      <4>3. realms[Ids[op].realm].owner = companions[Ids[op].companion].owner
        BY <1>1, <4>1, <4>2 DEF PInv, Tracks
      <4>4. QED
        BY <3>2, <4>3 DEF Onboarded, Owned, MadeFor
    <3>3. QED
      BY <1>1, <2>2, <3>1, <3>2, OnboardStep DEF RetryIsAnsweredStep, Made
  <2>3. ASSUME NEW op \in Operation, NEW o \in Owner, NEW k \in Kind, NEW request \in Request,
               Provision(op, o, k, request)
        PROVE  RetryIsAnsweredStep
    <3>1. CASE Adds(op, o, request)
      BY <3>1 DEF Adds, Tell, RetryIsAnsweredStep
    <3>2. ASSUME ~Provisioned(op, o, request), MadeFor(Ids[op].added, "provision", op, request),
                 companions[Ids[op].added].owner = o
          PROVE  owners[o].status # "active"
      <4>1. Ids[op].added \in Companion
        BY DerivedIds DEF Derived
      <4>2. QED
        BY <1>1, <3>2, <4>1
           DEF Provisioned, MadeFor, PInv, IInv, SharedRealm, CompanionsShareRealm
    <3>3. QED
      BY <1>1, <2>3, <3>1, <3>2, ProvisionStep DEF RetryIsAnsweredStep, Made
  <2>4. QED
    BY <1>1, <2>1, <2>2, <2>3, Steps
<1>2. QED
  BY <1>1, ProvisioningInvariant, PTL DEF ProvisioningSpec, RetryIsAnswered

-----------------------------------------------------------------------------
(* Each kind of operation implements Operations. *)

LEMMA DoneIsMark ==
  ASSUME Tracks, NEW by \in Kinds, NEW op \in Operation
  PROVE  /\ DoneBy(by)[op] = None <=> provenance[Made(by, op)] = None
         /\ provenance[Made(by, op)] # None => DoneBy(by)[op] = provenance[Made(by, op)].request
<1>1. provenance[Made(by, op)] \in Provenance \cup {None}
  BY DerivedIds DEF Tracks
<1>2. QED
  BY <1>1, NoneIsApart DEF DoneBy, Provenance

\* Making the Companion of one kind is doing that operation, and nothing of the other kind.
LEMMA DoingChanges ==
  ASSUME Tracks, NEW by \in Kinds, NEW op \in Operation, NEW request \in Request,
         Remember(Made(by, op), Mark(by, op, request))
  PROVE  /\ DoneBy(by)' = [DoneBy(by) EXCEPT ![op] = request]
         /\ \A kind \in Kinds \ {by} : DoneBy(kind)' = DoneBy(kind)
<1>1. Mark(by, op, request) # None /\ Mark(by, op, request).request = request
  BY NoneIsApart DEF Mark, Provenance
<1>2. provenance' = [provenance EXCEPT ![Made(by, op)] = Mark(by, op, request)]
  BY DEF Remember
<1>3. \A kind \in Kinds, other \in Operation :
        provenance'[Made(kind, other)] = IF kind = by /\ other = op THEN Mark(by, op, request)
                                         ELSE provenance[Made(kind, other)]
  BY <1>2, DerivedIds, MadeApart DEF Tracks
<1>4. ASSUME NEW kind \in Kinds
      PROVE  DoneBy(kind)' = [other \in Operation |->
               IF kind = by /\ other = op THEN request ELSE DoneBy(kind)[other]]
  <2>1. \A other \in Operation :
          DoneBy(kind)'[other] = IF kind = by /\ other = op THEN request ELSE DoneBy(kind)[other]
    BY <1>1, <1>3 DEF DoneBy
  <2>2. DoneBy(kind)' = [other \in Operation |-> DoneBy(kind)'[other]]
    BY DEF DoneBy
  <2>3. QED
    BY <2>1, <2>2
<1>5. ASSUME NEW kind \in Kinds
      PROVE  DoneBy(kind) = [other \in Operation |-> DoneBy(kind)[other]]
  BY DEF DoneBy
<1>6. \A kind \in Kinds \ {by} : DoneBy(kind)' = DoneBy(kind)
  BY <1>4, <1>5
<1>7. DoneBy(by)' = [DoneBy(by) EXCEPT ![op] = request]
  BY <1>4, <1>5
<1>8. QED
  BY <1>6, <1>7

\* A command forgets what was done by the operations whose Companions it deletes.
LEMMA ForgettingChanges ==
  ASSUME Tracks, NEW by \in Kinds, provenance' = [c \in Companion |-> Keep(c)]
  PROVE  DoneBy(by)' = [op \in Operation |->
           IF op \in {x \in Operation : companions'[Made(by, x)].state = "absent"} THEN None
           ELSE DoneBy(by)[op]]
BY DerivedIds DEF DoneBy, Keep, Made

\* A step of Operations, for the operations of one kind.
DoesOperation(by) ==
  \/ \E op \in Operation, request \in Request :
       /\ DoneBy(by)[op] = None
       /\ DoneBy(by)' = [DoneBy(by) EXCEPT ![op] = request]
       /\ AnsweredBy(by)' = <<op, request>>
  \/ \E op \in Operation :
       /\ DoneBy(by)[op] # None
       /\ AnsweredBy(by)' = <<op, DoneBy(by)[op]>>
       /\ DoneBy(by)' = DoneBy(by)
  \/ \E some \in SUBSET Operation :
       /\ DoneBy(by)' = [op \in Operation |-> IF op \in some THEN None ELSE DoneBy(by)[op]]
       /\ AnsweredBy(by)' = None

LEMMA NothingDone ==
  ASSUME NEW by \in Kinds, DoneBy(by)' = DoneBy(by), AnsweredBy(by)' = None
  PROVE  DoesOperation(by)
<1>1. DoneBy(by) = [op \in Operation |-> DoneBy(by)[op]]
  BY DEF DoneBy
<1>2. DoneBy(by)' = [op \in Operation |-> IF op \in {} THEN None ELSE DoneBy(by)[op]]
  BY <1>1
<1>3. {} \in SUBSET Operation
  OBVIOUS
<1>4. QED
  BY <1>2, <1>3 DEF DoesOperation

LEMMA UnchangedDone ==
  ASSUME NEW by \in Kinds, UNCHANGED provenance
  PROVE  DoneBy(by)' = DoneBy(by)
BY DEF DoneBy, Made

\* The operation that is created.
LEMMA CreatedIsDone ==
  ASSUME PInv, NEW by \in Kinds, NEW kind \in Kinds, NEW op \in Operation, NEW o \in Owner,
         NEW request \in Request, companions[Made(kind, op)].state = "absent",
         Remember(Made(kind, op), Mark(kind, op, request)), Tell("created", kind, op, o, request)
  PROVE  DoesOperation(by)
<1>1. answer' \in Answer /\ answer' # None /\ answer'.by = kind /\ answer'.outcome = "created"
      /\ answer'.operation = op /\ answer'.request = request
  BY NoneIsApart DEF Tell, Answer, Outcome
<1>2. CASE kind = by
  <2>1. DoneBy(by)[op] = None
    BY <1>2, DerivedIds, DoneIsMark DEF PInv, Tracks
  <2>2. DoneBy(by)' = [DoneBy(by) EXCEPT ![op] = request]
    BY <1>2, DoingChanges DEF PInv
  <2>3. AnsweredBy(by)' = <<op, request>>
    BY <1>1, <1>2 DEF AnsweredBy
  <2>4. QED
    BY <2>1, <2>2, <2>3 DEF DoesOperation
<1>3. CASE kind # by
  <2>1. DoneBy(by)' = DoneBy(by)
    BY <1>3, DoingChanges DEF PInv
  <2>2. AnsweredBy(by)' = None
    BY <1>1, <1>3 DEF AnsweredBy
  <2>3. QED
    BY <2>1, <2>2, NothingDone
<1>4. QED
  BY <1>2, <1>3

\* The operation that is sent again.
LEMMA ReplayedIsRepeated ==
  ASSUME PInv, NEW by \in Kinds, NEW kind \in Kinds, NEW op \in Operation, UNCHANGED provenance,
         answer' # None, answer'.by = kind, answer'.operation = op,
         \/ /\ answer'.outcome = "replayed"
            /\ provenance[Made(kind, op)] # None
            /\ answer'.request = provenance[Made(kind, op)].request
         \/ answer'.outcome = "refused"
  PROVE  DoesOperation(by)
<1>1. DoneBy(by)' = DoneBy(by)
  BY UnchangedDone
<1>2. CASE kind = by /\ answer'.outcome = "replayed"
  <2>1. DoneBy(by)[op] # None /\ DoneBy(by)[op] = answer'.request
    BY <1>2, DoneIsMark DEF PInv
  <2>2. AnsweredBy(by)' = <<op, DoneBy(by)[op]>>
    BY <1>2, <2>1 DEF AnsweredBy
  <2>3. QED
    BY <1>1, <2>1, <2>2 DEF DoesOperation
<1>3. CASE kind # by \/ answer'.outcome = "refused"
  <2>1. AnsweredBy(by)' = None
    BY <1>3 DEF AnsweredBy
  <2>2. QED
    BY <1>1, <2>1, NothingDone
<1>4. QED
  BY <1>2, <1>3

LEMMA EachStepDoes ==
  ASSUME PInv, ProvisioningNext, NEW by \in Kinds
  PROVE  DoesOperation(by)
<1>1. CASE Command
  <2>1. AnsweredBy(by)' = None
    BY <1>1 DEF Command, AnsweredBy
  <2>2. QED
    BY <1>1, <2>1, ForgettingChanges DEF Command, PInv, DoesOperation
<1>2. ASSUME NEW op \in Operation, NEW n \in Name, NEW request \in Request \cup {None},
             Onboard(op, n, request)
      PROVE  DoesOperation(by)
  <2>1. "onboard" \in Kinds /\ Made("onboard", op) = Ids[op].companion /\ Ids[op].owner \in Owner
    BY DerivedIds DEF Kinds, Made, Derived
  <2>2. CASE Onboards(op, request)
    BY <2>1, <2>2, CreatedIsDone DEF Onboards
  <2>3. CASE ~Onboards(op, request)
    BY <1>2, <2>1, <2>3, OnboardStep, ReplayedIsRepeated
  <2>4. QED
    BY <2>2, <2>3
<1>3. ASSUME NEW op \in Operation, NEW o \in Owner, NEW k \in Kind, NEW request \in Request,
             Provision(op, o, k, request)
      PROVE  DoesOperation(by)
  <2>1. "provision" \in Kinds /\ Made("provision", op) = Ids[op].added
    BY DEF Kinds, Made
  <2>2. CASE Adds(op, o, request)
    BY <2>1, <2>2, CreatedIsDone DEF Adds
  <2>3. CASE ~Adds(op, o, request)
    BY <1>3, <2>1, <2>3, ProvisionStep, ReplayedIsRepeated
  <2>4. QED
    BY <2>2, <2>3
<1>4. QED
  BY <1>1, <1>2, <1>3, Steps

\* Each operation is done at most once until its Companion is deleted, and every
\* answer is about the request it was done for.
THEOREM OperationsAreDoneOnce == ProvisioningSpec => DoneOnce
<1>1. ProvisioningInit => Onboarding!Init /\ Adding!Init
  <2> SUFFICES ASSUME ProvisioningInit PROVE Onboarding!Init /\ Adding!Init
    OBVIOUS
  <2>1. \A by \in Kinds : DoneBy(by) = [op \in Operation |-> None]
    BY DerivedIds DEF ProvisioningInit, DoneBy
  <2>2. \A by \in Kinds : AnsweredBy(by) = None
    BY DEF ProvisioningInit, AnsweredBy
  <2>3. QED
    BY <2>1, <2>2 DEF Onboarding!Init, Adding!Init, Kinds
<1>2. ASSUME PInv, [ProvisioningNext]_provisionVars
      PROVE  /\ [Onboarding!Next]_<<DoneBy("onboard"), AnsweredBy("onboard")>>
             /\ [Adding!Next]_<<DoneBy("provision"), AnsweredBy("provision")>>
  <2>1. CASE UNCHANGED provisionVars
    <3>1. \A by \in Kinds : DoneBy(by)' = DoneBy(by) /\ AnsweredBy(by)' = AnsweredBy(by)
      BY <2>1, UnchangedDone DEF provisionVars, AnsweredBy
    <3>2. QED
      BY <3>1 DEF Kinds
  <2>2. CASE ProvisioningNext
    <3>1. DoesOperation("onboard") /\ DoesOperation("provision")
      BY <1>2, <2>2, EachStepDoes DEF Kinds
    <3>2. Onboarding!Next
      BY <3>1
         DEF DoesOperation, Onboarding!Next, Onboarding!Do, Onboarding!Repeat, Onboarding!Forget
    <3>3. Adding!Next
      BY <3>1 DEF DoesOperation, Adding!Next, Adding!Do, Adding!Repeat, Adding!Forget
    <3>4. QED
      BY <3>2, <3>3
  <2>3. QED
    BY <1>2, <2>1, <2>2
<1>3. QED
  BY <1>1, <1>2, ProvisioningInvariant, PTL
     DEF ProvisioningSpec, DoneOnce, Onboarding!Spec, Adding!Spec

-----------------------------------------------------------------------------
AnswerTyped == answer \in Answer \cup {None}

\* Type correctness: a mark names the kind, operation and request it was made
\* for, and an answer what a caller is told.
THEOREM ProvisioningTypes == ProvisioningSpec => []ProvisioningTypeOK
<1>1. ProvisioningInit => AnswerTyped
  BY DEF ProvisioningInit, AnswerTyped
<1>2. ASSUME PInv, AnswerTyped, [ProvisioningNext]_provisionVars
      PROVE  AnswerTyped'
  <2>1. CASE UNCHANGED provisionVars
    BY <1>2, <2>1 DEF provisionVars, AnswerTyped
  <2>2. CASE Command
    BY <2>2 DEF Command, AnswerTyped
  <2>3. ASSUME NEW op \in Operation, NEW kind \in Kinds, NEW o \in Owner, NEW request \in Request,
               Tell("created", kind, op, o, request)
        PROVE  answer' \in Answer
    BY <2>3 DEF Tell, Answer, Outcome
  <2>4. ASSUME NEW op \in Operation, NEW n \in Name, NEW request \in Request \cup {None},
               Onboard(op, n, request)
        PROVE  answer' \in Answer
    <3>1. "onboard" \in Kinds /\ Ids[op].owner \in Owner
      BY DerivedIds DEF Kinds, Derived
    <3>2. QED
      BY <1>2, <2>3, <2>4, <3>1, OnboardStep DEF Onboards
  <2>5. ASSUME NEW op \in Operation, NEW o \in Owner, NEW k \in Kind, NEW request \in Request,
               Provision(op, o, k, request)
        PROVE  answer' \in Answer
    <3>1. "provision" \in Kinds
      BY DEF Kinds
    <3>2. QED
      BY <1>2, <2>3, <2>5, <3>1, ProvisionStep DEF Adds
  <2>6. QED
    BY <1>2, <2>1, <2>2, <2>4, <2>5, Steps DEF AnswerTyped
<1>3. PInv /\ AnswerTyped => ProvisioningTypeOK
  BY DEF AnswerTyped, PInv, IInv, Tracks, ProvisioningTypeOK
<1>4. QED
  BY <1>1, <1>2, <1>3, ProvisioningInvariant, PTL DEF ProvisioningSpec

=============================================================================
