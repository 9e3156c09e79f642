--------------------------- MODULE OwnerWorkspace ---------------------------
(***************************************************************************)
(* The Owner / Companion workspace: Owner rows with their default pointer, *)
(* Companion rows with their lifecycle, the Owner's Memory Realm catalog   *)
(* row, Guard bindings, and the governance facts each command writes.      *)
(* Every command of eidolon_data/services/owner_workspace.py, companion.py,*)
(* owner_deletion.py and repositories/guard_bindings.py that changes these *)
(* rows is one action, because each is one SQL transaction and the default *)
(* pool of one connection serializes the transactions of a process         *)
(* (settings.sqlite_pool_size).  Sessions that interleave are the subject  *)
(* of WorkspaceSessions.                                                   *)
(*                                                                         *)
(* A refused command rolls back and is a stuttering step, so it is not an  *)
(* action; a command that succeeds without changing anything is a step     *)
(* that commits no fact.                                                   *)
(***************************************************************************)
EXTENDS Naturals

CONSTANTS
  Owner,        \* owner ids
  Companion,    \* companion ids
  Realm,        \* memory realm ids
  Binding,      \* guard binding ids
  Device,       \* opaque device ids a guard binding names
  Kind,         \* the COMPANION_KINDS a run provisions
  Name,         \* display names
  None,         \* SQL NULL
  MaxRevision   \* bound on every revision counter

ASSUME KindAssumption ==
  "conversational" \in Kind /\ Kind \subseteq {"conversational", "guard", "specialist", "system"}
ASSUME NoneAssumption ==
  None \notin Owner \cup Companion \cup Realm \cup Binding \cup Device \cup Kind \cup Name
ASSUME BoundAssumption == MaxRevision \in Nat \ {0}

VARIABLES
  owners,       \* owner_id -> row of owners
  companions,   \* companion_id -> row of companions
  realms,       \* realm_id -> row of memory_realms with person_id NULL
  bindings,     \* binding_id -> row of guard_bindings
  facts         \* the governance facts the last transaction committed

rows == <<owners, companions, realms, bindings>>
vars == <<owners, companions, realms, bindings, facts>>

OwnerRow ==
  [status: {"absent", "active", "archived"}, default: Companion \cup {None},
   revision: Nat, name: Name \cup {None}]
CompanionRow ==
  [state: {"absent", "active", "retiring", "archived"}, owner: Owner \cup {None},
   kind: Kind \cup {None}, revision: Nat, realm: Realm \cup {None}]
RealmRow == [status: {"absent", "active", "inactive"}, owner: Owner \cup {None}]
BindingRow ==
  [state: {"absent", "active", "disabled", "revoked"}, owner: Owner \cup {None},
   guard: Companion \cup {None}, device: Device \cup {None}, revision: Nat]

NoOwner     == [status |-> "absent", default |-> None, revision |-> 0, name |-> None]
NoCompanion == [state |-> "absent", owner |-> None, kind |-> None, revision |-> 0, realm |-> None]
NoRealm     == [status |-> "absent", owner |-> None]
NoBinding   == [state |-> "absent", owner |-> None, guard |-> None, device |-> None, revision |-> 0]

Subject == Owner \cup Companion \cup Realm \cup Binding
Action ==
  {"owner.created", "owner.updated", "owner.archived", "owner.deleted",
   "owner.default_companion_changed", "companion.workspace.initialized",
   "companion.retirement_begun", "companion.archived", "companion.restored",
   "companion.deleted", "memory_realm.cataloged", "guard.binding.created",
   "guard.policy.updated", "guard.binding.disabled", "guard.binding.revoked"}

-----------------------------------------------------------------------------
(* Reads the commands share. *)

Exists(o)   == owners[o].status # "absent"
Owned(o, c) == companions[c].state # "absent" /\ companions[c].owner = o

OwnerRealms(o)  == {r \in Realm : realms[r].owner = o}
ActiveRealms(o) == {r \in OwnerRealms(o) : realms[r].status = "active"}

\* An If-Match is absent (None) or a revision that must be the row's.
Matches(expected, revision) == expected = None \/ expected = revision
Expected == 1..MaxRevision \cup {None}

\* COMPANION_LIFECYCLE_TRANSITIONS of the SDK contract, as the commands and
\* their tests use it.
LifecycleTransitions ==
  [active |-> {"retiring"}, retiring |-> {"archived"}, archived |-> {"active"}, absent |-> {}]

MayMove(c, target, expected) ==
  /\ target \in LifecycleTransitions[companions[c].state]
  /\ Matches(expected, companions[c].revision)

\* Faulty: any other Companion of the Owner may take over, whatever its state.
EligibleInAnyState(o, c) == {x \in Companion \ {c} : Owned(o, x) /\ companions[x].kind # "guard"}
EligibleReplacements(o, c) ==
  {x \in Companion \ {c} : /\ Owned(o, x)
                           /\ companions[x].state = "active"
                           /\ companions[x].kind # "guard"}

\* What the kernel resolves an unaddressed request to.
DefaultFor(o) ==
  LET c == owners[o].default
  IN  IF c # None /\ Owned(o, c) /\ companions[c].state = "active" THEN c ELSE None

NoChange == UNCHANGED rows /\ facts' = {}

\* Faulty: a Realm per Companion.
AlwaysCatalogRealm(o, r) ==
  /\ realms[r].status = "absent"
  /\ realms' = [realms EXCEPT ![r] = [status |-> "active", owner |-> o]]
\* The Owner's one active Realm r, cataloged now unless it is already there.
EnsureMemoryRealm(o, r) ==
  \/ r \in ActiveRealms(o) /\ UNCHANGED realms
  \/ /\ ActiveRealms(o) = {}
     /\ realms[r].status = "absent"
     /\ realms' = [realms EXCEPT ![r] = [status |-> "active", owner |-> o]]
\* The Realm a new Companion gets: the id that was passed, derived or drawn is
\* used only when the Owner has no active one.
RealmFor(o, id) == IF ActiveRealms(o) = {} THEN {id} ELSE ActiveRealms(o)
\* Faulty: a fact even when the Realm was already there.
AlwaysRealmFacts(o, r) == {<<"memory_realm.cataloged", r>>}
RealmFacts(o, r) == IF ActiveRealms(o) = {} THEN {<<"memory_realm.cataloged", r>>} ELSE {}

-----------------------------------------------------------------------------
(* OwnerService and OwnersRepository. *)

CreateOwner(o, n) ==
  /\ ~Exists(o)
  /\ owners' = [owners EXCEPT ![o] = [status |-> "active", default |-> None,
                                      revision |-> 1, name |-> n]]
  /\ facts' = {<<"owner.created", o>>}
  /\ UNCHANGED <<companions, realms, bindings>>

UpdateOwner(o, n) ==
  /\ owners[o].status = "active"
  /\ owners' = [owners EXCEPT ![o].name = n]
  /\ facts' = {<<"owner.updated", o>>}
  /\ UNCHANGED <<companions, realms, bindings>>

\* PATCH owners/{id}: any status, no revision, and no governance fact.
RenameOwner(o, n) ==
  /\ Exists(o)
  /\ owners' = [owners EXCEPT ![o].name = n]
  /\ facts' = {}
  /\ UNCHANGED <<companions, realms, bindings>>

\* Only Companions that are active are archived: a retiring one stays retiring.
ArchiveActive(o) ==
  [c \in Companion |->
     IF Owned(o, c) /\ companions[c].state = "active"
     THEN [companions[c] EXCEPT !.state = "archived", !.revision = @ + 1]
     ELSE companions[c]]

ArchiveOwner(o) ==
  \/ owners[o].status = "archived" /\ NoChange
  \/ /\ owners[o].status = "active"
     /\ owners[o].revision < MaxRevision
     /\ \A c \in Companion : Owned(o, c) => companions[c].revision < MaxRevision
     /\ owners' = [owners EXCEPT ![o].status = "archived", ![o].default = None,
                                 ![o].revision = @ + 1]
     /\ companions' = ArchiveActive(o)
     /\ realms' = [r \in Realm |-> IF r \in ActiveRealms(o)
                                   THEN [realms[r] EXCEPT !.status = "inactive"]
                                   ELSE realms[r]]
     /\ bindings' = [b \in Binding |-> IF bindings[b].owner = o /\ bindings[b].state = "active"
                                       THEN [bindings[b] EXCEPT !.state = "disabled"]
                                       ELSE bindings[b]]
     /\ facts' = {<<"owner.archived", o>>}

\* OwnerDeletionService: the tree goes by foreign-key cascade.
DeleteOwner(o) ==
  /\ Exists(o)
  /\ owners' = [owners EXCEPT ![o] = NoOwner]
  /\ companions' = [c \in Companion |-> IF Owned(o, c) THEN NoCompanion ELSE companions[c]]
  /\ realms' = [r \in Realm |-> IF r \in OwnerRealms(o) THEN NoRealm ELSE realms[r]]
  /\ bindings' = [b \in Binding |-> IF bindings[b].owner = o THEN NoBinding ELSE bindings[b]]
  /\ facts' = {<<"owner.deleted", o>>}

-----------------------------------------------------------------------------
(* CompanionWorkspaceService: creating Companions. *)

NewCompanion(o, k, r) ==
  [state |-> "active", owner |-> o, kind |-> k, revision |-> 1, realm |-> r]

\* The first default-eligible Companion of an Owner becomes its default.
TakesDefault(o, k) == owners[o].default = None /\ k # "guard"

AddCompanion(o, c, k, r) ==
  /\ owners[o].status = "active"
  /\ companions[c].state = "absent"
  /\ EnsureMemoryRealm(o, r)
  /\ companions' = [companions EXCEPT ![c] = NewCompanion(o, k, r)]
  /\ \/ /\ TakesDefault(o, k)
        /\ owners[o].revision < MaxRevision
        /\ owners' = [owners EXCEPT ![o].default = c, ![o].revision = @ + 1]
     \/ ~TakesDefault(o, k) /\ UNCHANGED owners
  /\ facts' = {<<"companion.workspace.initialized", c>>}
  /\ UNCHANGED bindings

\* provision_workspace and the body of provision_companion.  A realm id that is
\* taken refuses the command, also where the Owner has an active Realm and the id
\* would not be used.
ProvisionWorkspace(o, c, k, id) ==
  /\ realms[id].status = "absent"
  /\ \E r \in RealmFor(o, id) : AddCompanion(o, c, k, r)

\* Onboarding: Owner, Companion, default pointer and Realm in one transaction.
InitializeOwnerWorkspace(o, n, c, r) ==
  /\ ~Exists(o)
  /\ companions[c].state = "absent"
  /\ realms[r].status = "absent"
  /\ owners' = [owners EXCEPT ![o] = [status |-> "active", default |-> c,
                                      revision |-> 2, name |-> n]]
  /\ companions' = [companions EXCEPT ![c] = NewCompanion(o, "conversational", r)]
  /\ realms' = [realms EXCEPT ![r] = [status |-> "active", owner |-> o]]
  /\ facts' = {<<"owner.created", o>>, <<"companion.workspace.initialized", c>>}
  /\ UNCHANGED bindings

EnsureCompanionRealm(o, c, r) ==
  /\ Owned(o, c)
  /\ companions[c].state = "active"
  /\ EnsureMemoryRealm(o, r)
  /\ companions' = [companions EXCEPT ![c].realm = r]
  /\ facts' = RealmFacts(o, r)
  /\ UNCHANGED <<owners, bindings>>

-----------------------------------------------------------------------------
(* CompanionWorkspaceService: the lifecycle. *)

\* Faulty: with nobody to hand over to, the pointer is just cleared.
HandOverOrClearDefault(o, c, replacement) ==
  \/ /\ owners[o].default = c
     /\ owners[o].revision < MaxRevision
     /\ owners' = [owners EXCEPT
          ![o].default = IF replacement \in EligibleReplacements(o, c) THEN replacement ELSE None,
          ![o].revision = @ + 1]
  \/ owners[o].default # c /\ UNCHANGED owners
\* Retiring the default names its replacement in the same transaction.
HandOverDefault(o, c, replacement) ==
  \/ /\ owners[o].default = c
     /\ replacement \in EligibleReplacements(o, c)
     /\ owners[o].revision < MaxRevision
     /\ owners' = [owners EXCEPT ![o].default = replacement, ![o].revision = @ + 1]
  \/ owners[o].default # c /\ UNCHANGED owners
\* Faulty: the hand-over is not told.
RetirementFactAlone(o, c) == {<<"companion.retirement_begun", c>>}
RetirementFacts(o, c) ==
  {<<"companion.retirement_begun", c>>}
    \cup (IF owners[o].default = c THEN {<<"owner.default_companion_changed", o>>} ELSE {})

\* Faulty: the state moves and the revision does not.
MoveWithoutRevision(c, target, steps) ==
  companions' = [companions EXCEPT ![c].state = target]
MoveTo(c, target, steps) ==
  /\ companions[c].revision + steps <= MaxRevision
  /\ companions' = [companions EXCEPT ![c].state = target, ![c].revision = @ + steps]

BeginRetirement(o, c, expected, replacement) ==
  /\ Owned(o, c)
  /\ \/ companions[c].state = "retiring" /\ NoChange
     \/ /\ MayMove(c, "retiring", expected)
        /\ HandOverDefault(o, c, replacement)
        /\ MoveTo(c, "retiring", 1)
        /\ facts' = RetirementFacts(o, c)
        /\ UNCHANGED <<realms, bindings>>

ArchiveCompanion(o, c, expected) ==
  /\ Owned(o, c)
  /\ \/ companions[c].state = "archived" /\ NoChange
     \/ /\ MayMove(c, "archived", expected)
        /\ owners[o].default # c
        /\ MoveTo(c, "archived", 1)
        /\ facts' = {<<"companion.archived", c>>}
        /\ UNCHANGED <<owners, realms, bindings>>

\* Both halves in one transaction; the second compares no revision, and the
\* first returns at once for a Companion that is already retiring.
PutAwayCompanion(o, c, expected, replacement) ==
  \/ ArchiveCompanion(o, c, None)
  \/ /\ Owned(o, c)
     /\ MayMove(c, "retiring", expected)
     /\ HandOverDefault(o, c, replacement)
     /\ MoveTo(c, "archived", 2)
     /\ facts' = RetirementFacts(o, c) \cup {<<"companion.archived", c>>}
     /\ UNCHANGED <<realms, bindings>>

RestoreCompanion(o, c, expected) ==
  /\ Owned(o, c)
  /\ \/ companions[c].state = "active" /\ NoChange
     \/ /\ MayMove(c, "active", expected)
        /\ MoveTo(c, "active", 1)
        /\ facts' = {<<"companion.restored", c>>}
        /\ UNCHANGED <<owners, realms, bindings>>

\* Refuses a stale revision only when the pointer would move; the Owner's
\* status is not read.
SetDefaultCompanion(o, c, expected, r) ==
  /\ Owned(o, c)
  /\ companions[c].state = "active"
  /\ companions[c].kind # "guard"
  /\ EnsureMemoryRealm(o, r)
  /\ companions' = [companions EXCEPT ![c].realm = r]
  /\ \/ owners[o].default = c /\ UNCHANGED owners /\ facts' = RealmFacts(o, r)
     \/ /\ owners[o].default # c
        /\ Matches(expected, owners[o].revision)
        /\ owners[o].revision < MaxRevision
        /\ owners' = [owners EXCEPT ![o].default = c, ![o].revision = @ + 1]
        /\ facts' = RealmFacts(o, r) \cup {<<"owner.default_companion_changed", o>>}
  /\ UNCHANGED bindings

\* CompanionDeletionService: the Realm stays, the guard bindings cascade.
DeleteCompanion(o, c, allowDefault) ==
  /\ Owned(o, c)
  /\ \/ owners[o].default # c /\ UNCHANGED owners
     \/ /\ owners[o].default = c
        /\ allowDefault
        /\ owners[o].revision < MaxRevision
        /\ owners' = [owners EXCEPT ![o].default = None, ![o].revision = @ + 1]
  /\ companions' = [companions EXCEPT ![c] = NoCompanion]
  /\ bindings' = [b \in Binding |-> IF bindings[b].guard = c THEN NoBinding ELSE bindings[b]]
  /\ facts' = {<<"companion.deleted", c>>}
  /\ UNCHANGED realms

-----------------------------------------------------------------------------
(* GuardBindingsRepository. *)

\* The two partial unique indexes over active bindings.
Unbound(c, d) ==
  \A x \in Binding :
    bindings[x].state = "active" => bindings[x].device # d /\ bindings[x].guard # c

Bind(o, c, d, b) ==
  /\ Owned(o, c)
  /\ companions[c].state = "active"
  /\ companions[c].kind = "guard"
  /\ bindings[b].state = "absent"
  /\ Unbound(c, d)
  /\ bindings' = [bindings EXCEPT ![b] = [state |-> "active", owner |-> o, guard |-> c,
                                          device |-> d, revision |-> 1]]
  /\ facts' = {<<"guard.binding.created", b>>}
  /\ UNCHANGED <<owners, companions, realms>>

UpdatePolicy(b, expected) ==
  /\ bindings[b].state = "active"
  /\ bindings[b].revision = expected
  /\ expected < MaxRevision
  /\ bindings' = [bindings EXCEPT ![b].revision = @ + 1]
  /\ facts' = {<<"guard.policy.updated", b>>}
  /\ UNCHANGED <<owners, companions, realms>>

DisableFact == [disabled |-> "guard.binding.disabled", revoked |-> "guard.binding.revoked"]

DisableBinding(b, target) ==
  \/ bindings[b].state = target /\ NoChange
  \/ /\ bindings[b].state = "active"
     /\ bindings' = [bindings EXCEPT ![b].state = target]
     /\ facts' = {<<DisableFact[target], b>>}
     /\ UNCHANGED <<owners, companions, realms>>

-----------------------------------------------------------------------------
Init ==
  /\ owners = [o \in Owner |-> NoOwner]
  /\ companions = [c \in Companion |-> NoCompanion]
  /\ realms = [r \in Realm |-> NoRealm]
  /\ bindings = [b \in Binding |-> NoBinding]
  /\ facts = {}

OwnerCommand(o) ==
  \/ \E n \in Name : CreateOwner(o, n) \/ UpdateOwner(o, n) \/ RenameOwner(o, n)
  \/ \E n \in Name, c \in Companion, r \in Realm : InitializeOwnerWorkspace(o, n, c, r)
  \/ ArchiveOwner(o)
  \/ DeleteOwner(o)

CompanionCommand(o, c) ==
  \/ \E k \in Kind, id \in Realm : ProvisionWorkspace(o, c, k, id)
  \/ \E r \in Realm : EnsureCompanionRealm(o, c, r)
  \/ \E e \in Expected, x \in Companion :
       BeginRetirement(o, c, e, x) \/ PutAwayCompanion(o, c, e, x)
  \/ \E e \in Expected : ArchiveCompanion(o, c, e) \/ RestoreCompanion(o, c, e)
  \/ \E e \in Expected, r \in Realm : SetDefaultCompanion(o, c, e, r)
  \/ \E allow \in BOOLEAN : DeleteCompanion(o, c, allow)
  \/ \E d \in Device, b \in Binding : Bind(o, c, d, b)

BindingCommand(b) ==
  \/ \E e \in 1..MaxRevision : UpdatePolicy(b, e)
  \/ \E target \in {"disabled", "revoked"} : DisableBinding(b, target)

Next ==
  \/ \E o \in Owner : OwnerCommand(o)
  \/ \E o \in Owner, c \in Companion : CompanionCommand(o, c)
  \/ \E b \in Binding : BindingCommand(b)

Spec == Init /\ [][Next]_vars

-----------------------------------------------------------------------------
(* Invariants. *)

\* Every column holds a value the schema's CHECK constraints and foreign keys
\* allow, and the outbox rows name an action of this component.
TypeOK ==
  /\ owners \in [Owner -> OwnerRow]
  /\ companions \in [Companion -> CompanionRow]
  /\ realms \in [Realm -> RealmRow]
  /\ bindings \in [Binding -> BindingRow]
  /\ facts \in SUBSET (Action \X Subject)

\* Whatever sequence of lifecycle commands ran, an Owner's default pointer
\* names a Companion of that Owner that is active and may answer: it is what
\* get_default_for_owner resolves, never a dangling or retired one.
DefaultAnswers ==
  \A o \in Owner : owners[o].default # None =>
    /\ DefaultFor(o) = owners[o].default
    /\ companions[owners[o].default].kind # "guard"

\* Rows hang together across deletions and archives: a Companion belongs to an
\* Owner that exists and points at a Realm of that Owner; a Realm has an Owner;
\* a binding's guard is a guard-kind Companion of the binding's Owner.
CompanionsInScope ==
  \A c \in Companion : companions[c].state # "absent" =>
    /\ companions[c].owner \in Owner
    /\ Exists(companions[c].owner)
    /\ companions[c].realm \in OwnerRealms(companions[c].owner)
RealmsInScope ==
  \A r \in Realm : IF realms[r].status = "absent" THEN realms[r].owner = None
                   ELSE realms[r].owner \in Owner /\ Exists(realms[r].owner)
BindingsInScope ==
  \A b \in Binding : bindings[b].state # "absent" =>
    /\ bindings[b].owner \in Owner
    /\ bindings[b].guard \in Companion
    /\ Owned(bindings[b].owner, bindings[b].guard)
    /\ companions[bindings[b].guard].kind = "guard"
InScope == CompanionsInScope /\ RealmsInScope /\ BindingsInScope

\* An Owner never has two active Realms (the partial unique index is never what
\* stops a command), and all Companions of an active Owner, whatever their
\* state and however they were created, share that one Realm.
OneActiveRealm ==
  \A r, s \in Realm :
    realms[r].status = "active" /\ realms[s].status = "active"
      /\ realms[r].owner = realms[s].owner => r = s
CompanionsShareRealm ==
  \A c \in Companion :
    companions[c].state # "absent" /\ owners[companions[c].owner].status = "active" =>
      companions[c].realm \in ActiveRealms(companions[c].owner)
SharedRealm == OneActiveRealm /\ CompanionsShareRealm

\* A device is governed by one binding at a time and a guard Companion guards
\* one device at a time: what the two indexes keep.
OneGuard ==
  \A a, b \in Binding :
    /\ bindings[a].state = "active" /\ bindings[b].state = "active"
    /\ bindings[a].device = bindings[b].device \/ bindings[a].guard = bindings[b].guard
    => a = b

-----------------------------------------------------------------------------
(* Action properties. *)

Survives(o) == Exists(o) /\ owners'[o].status # "absent"
Lives(c)    == companions[c].state # "absent" /\ companions'[c].state # "absent"

\* An active Owner that has somebody to answer keeps somebody to answer: only
\* archiving the Owner or deleting the default Companion itself clears the
\* pointer, no retirement, archive or provision does.
KeepsDefaultStep ==
  \A o \in Owner :
     owners[o].default # None /\ owners'[o].default = None =>
       owners'[o].status # "active" \/ companions'[owners[o].default].state = "absent"
KeepsDefault == [][KeepsDefaultStep]_vars

\* What a client read under a revision stands while the row carries it: no command
\* moves a default pointer, an Owner's status or a Companion's lifecycle state and
\* leaves the revision where it was, and none moves a revision back.  This is about
\* one life of a row, for one made again starts at 1, and about one process.
RevisionMovesStep ==
  /\ \A o \in Owner : Survives(o) =>
       IF owners'[o].default = owners[o].default /\ owners'[o].status = owners[o].status
       THEN owners'[o].revision = owners[o].revision
       ELSE owners'[o].revision > owners[o].revision
  /\ \A c \in Companion : Lives(c) =>
       IF companions'[c].state = companions[c].state
       THEN companions'[c].revision = companions[c].revision
       ELSE companions'[c].revision > companions[c].revision
RevisionMoves == [][RevisionMovesStep]_vars

\* The order that drains a Companion cannot be skipped: it reaches archived from
\* active only when its retirement is recorded in the same transaction or its
\* whole Owner is archived, and nothing but archived comes back to active.
RetiresBeforeArchiveStep ==
  \A c \in Companion : Lives(c) =>
     /\ companions[c].state = "active" /\ companions'[c].state = "archived" =>
          \/ <<"companion.retirement_begun", c>> \in facts'
          \/ <<"owner.archived", companions[c].owner>> \in facts'
     /\ companions[c].state # "active" /\ companions'[c].state = "active" =>
          companions[c].state = "archived"
RetiresBeforeArchive == [][RetiresBeforeArchiveStep]_vars

\* A lifecycle fact is committed exactly once per decision: a retry that finds
\* the state it asked for commits none, and each fact names a transition that
\* really happened in its own transaction.
FactsTellTheTruthStep ==
  /\ \A c \in Companion :
       /\ <<"companion.retirement_begun", c>> \in facts' =>
            companions[c].state = "active" /\ companions'[c].state \in {"retiring", "archived"}
       /\ <<"companion.archived", c>> \in facts' =>
            companions[c].state # "archived" /\ companions'[c].state = "archived"
       /\ <<"companion.restored", c>> \in facts' =>
            companions[c].state = "archived" /\ companions'[c].state = "active"
  /\ \A o \in Owner : <<"owner.default_companion_changed", o>> \in facts' =>
       owners'[o].default \notin {owners[o].default, None}
  /\ \A r \in Realm : <<"memory_realm.cataloged", r>> \in facts' =>
       realms[r].status = "absent" /\ realms'[r].status = "active"
FactsTellTheTruth == [][FactsTellTheTruthStep]_vars

\* The other way round, who reads the facts misses no change: whatever a command
\* does to a row, also to rows it was not asked about (the pointer a retirement
\* hands over, the Companions, Realms and bindings that go with their Owner or
\* guard), is told by a fact of its own transaction.  Names are not covered, for
\* PATCH owners/{id} tells none.
Tells(x, actions) == \E action \in actions : <<action, x>> \in facts'
OwnerIsTold(o) ==
  LET was == owners[o]  now == owners'[o]
  IN  /\ was.status # now.status => Tells(o, {"owner.created", "owner.archived", "owner.deleted"})
      /\ was.default # now.default =>
           \/ Tells(o, {"owner.default_companion_changed", "owner.archived", "owner.deleted"})
           \/ Tells(now.default, {"companion.workspace.initialized"})
           \/ Tells(was.default, {"companion.deleted"})
CompanionIsTold(c) ==
  LET was == companions[c]  now == companions'[c]
  IN  /\ was.state = "absent" /\ now.state # "absent" =>
           Tells(c, {"companion.workspace.initialized"})
      /\ was.state = "active" /\ now.state \in {"retiring", "archived"} =>
           Tells(c, {"companion.retirement_begun"}) \/ Tells(was.owner, {"owner.archived"})
      /\ was.state # "archived" /\ now.state = "archived" =>
           Tells(c, {"companion.archived"}) \/ Tells(was.owner, {"owner.archived"})
      /\ was.state = "archived" /\ now.state = "active" => Tells(c, {"companion.restored"})
      /\ was.state # "absent" /\ now.state = "absent" =>
           Tells(c, {"companion.deleted"}) \/ Tells(was.owner, {"owner.deleted"})
RealmIsTold(r) ==
  LET was == realms[r]  now == realms'[r]
  IN  /\ was.status # "active" /\ now.status = "active" =>
           \/ Tells(r, {"memory_realm.cataloged"})
           \/ \E c \in Companion :
                companions'[c].realm = r /\ Tells(c, {"companion.workspace.initialized"})
      /\ was.status # now.status /\ now.status # "active" =>
           Tells(was.owner, {"owner.archived", "owner.deleted"})
BindingIsTold(b) ==
  LET was == bindings[b]  now == bindings'[b]
  IN  was # now =>
        \/ Tells(b, {"guard.binding.created", "guard.policy.updated",
                     "guard.binding.disabled", "guard.binding.revoked"})
        \/ Tells(was.owner, {"owner.archived", "owner.deleted"})
        \/ Tells(was.guard, {"companion.deleted"})
ChangesAreToldStep ==
  /\ \A o \in Owner : OwnerIsTold(o)
  /\ \A c \in Companion : CompanionIsTold(c)
  /\ \A r \in Realm : RealmIsTold(r)
  /\ \A b \in Binding : BindingIsTold(b)
ChangesAreTold == [][ChangesAreToldStep]_vars
=============================================================================
