------------------------------ MODULE Persons ------------------------------
(***************************************************************************)
(* The people of one active Owner and their personal memories               *)
(* (eidolon_data/services/persons.py): rows with a revision that commands   *)
(* must name, the pool of candidates that automatic recognition may fill,   *)
(* archive and restoration, deletion in two phases around the erasure of    *)
(* the memory elsewhere.  What happens to voices is in Voiceprints.         *)
(*                                                                         *)
(* Every command takes SQLite's write lock before its first read: it is one *)
(* action.  A client names the revision it read; one that is not current is *)
(* refused, and the action stands for a client that read the current one.   *)
(***************************************************************************)
EXTENDS Naturals, FiniteSets

CONSTANTS
  Person,
  None,         \* no row
  Capacity,     \* MAX_CANDIDATE_PERSONS
  Policy,       \* the memory defaults an Owner chooses from
  MaxRevision   \* bound on the revision of each Person

ASSUME PersonAssumption == IsFiniteSet(Person) /\ Capacity \in Nat
ASSUME PersonBoundAssumption == MaxRevision \in [Person -> Nat \ {0}]

VARIABLES
  people,       \* rows of persons
  realms,       \* rows of memory_realms that name a Person
  receipts,     \* rows of person_deletions: "none", "pending" or "completed"
  defaults      \* person_memory_defaults of the Owner

personVars == <<people, realms, receipts, defaults>>

\* recent: candidate_activity_at is within the time a candidate may stay.
PersonRow ==
  [status : {"active", "inactive"}, deleted : BOOLEAN,
   maturity : {"candidate", "established"}, recognition : {"active", "retained"},
   recent : BOOLEAN, revision : Nat \ {0}]
\* provisional: something is allowed before the Person is established;
\* blocked: automatic_preparation_blocked.
RealmRow ==
  [status : {"active", "inactive", "deleting"}, provisional : BOOLEAN, blocked : BOOLEAN]

ASSUME PolicyAssumption ==
  Policy \subseteq [provisional : BOOLEAN, prepare_on_promotion : BOOLEAN]
ASSUME PersonNoneAssumption == None \notin PersonRow \cup RealmRow

Exists(p) == people[p] # None
Present(p) == Exists(p) /\ ~people[p].deleted
Active(p) == Present(p) /\ people[p].status = "active"

\* Rows _candidate_capacity counts.
InPool(row) ==
  /\ row.maturity = "candidate" /\ row.status = "active" /\ ~row.deleted
  /\ row.recognition = "active" /\ row.recent
Pool == {p \in Person : Exists(p) /\ InPool(people[p])}
HasCapacity == Cardinality(Pool) < Capacity

\* The row of p becomes this one, under the next revision.
SetRow(p, row) ==
  /\ people[p].revision < MaxRevision[p]
  /\ people' = [people EXCEPT ![p] = [row EXCEPT !.revision = people[p].revision + 1]]

\* _deactivate_memory, and what suspend_memory writes.
Deactivated(realm) == [status |-> "inactive", provisional |-> FALSE, blocked |-> TRUE]
\* Faulty: only the state is changed.
PermissionsStay(p) == realms' = [realms EXCEPT ![p].status = "inactive", ![p].blocked = TRUE]
Deactivate(p) == realms' = [realms EXCEPT ![p] = Deactivated(realms[p])]

-----------------------------------------------------------------------------
(* Life of a row. *)

\* _insert_person and _bind_memory: a Person comes with its memory.
InsertPerson(p, maturity) ==
  /\ people' = [people EXCEPT ![p] =
       [status |-> "active", deleted |-> FALSE, maturity |-> maturity,
        recognition |-> "active", recent |-> maturity = "candidate", revision |-> 1]]
  /\ realms' = [realms EXCEPT ![p] =
       [status |-> IF maturity = "established" THEN "active" ELSE "inactive",
        provisional |-> maturity = "candidate" /\ defaults.provisional, blocked |-> FALSE]]

\* An identity once deleted, or with a memory left, is not taken again.
Unused(p) == ~Exists(p) /\ realms[p] = None /\ receipts[p] = "none"

Create(p, maturity) ==
  /\ Unused(p)
  /\ maturity = "candidate" => HasCapacity
  /\ InsertPerson(p, maturity)
  /\ UNCHANGED <<receipts, defaults>>

\* Faulty: only creation asks for room in the pool.
AlwaysRoom(p, status) == TRUE
\* A candidate that comes back to the pool needs room in it.
RoomFor(p, status) ==
  people[p].status # "active" /\ InPool([people[p] EXCEPT !.status = status]) => HasCapacity

Update(p, status) ==
  /\ Present(p)
  /\ RoomFor(p, status)
  /\ SetRow(p, [people[p] EXCEPT !.status = status])
  /\ IF status = "inactive" THEN Deactivate(p) ELSE UNCHANGED realms
  /\ UNCHANGED <<receipts, defaults>>

RetireCandidate(p) ==
  /\ Present(p)
  /\ people[p].maturity = "candidate" /\ people[p].recognition = "active"
  /\ SetRow(p, [people[p] EXCEPT !.recognition = "retained"])
  /\ UNCHANGED <<realms, receipts, defaults>>

\* What a reader of the recognition candidates does first: it retains those who
\* were not met for too long, at most 100 of them.
Expired ==
  {p \in Person :
    /\ Present(p) /\ people[p].maturity = "candidate"
    /\ people[p].recognition = "active" /\ ~people[p].recent}
RetainExpired ==
  /\ Expired # {}
  /\ \A p \in Expired : people[p].revision < MaxRevision[p]
  /\ people' = [p \in Person |->
       IF p \in Expired
         THEN [people[p] EXCEPT !.recognition = "retained", !.revision = @ + 1]
         ELSE people[p]]
  /\ UNCHANGED <<realms, receipts, defaults>>

\* The candidate was not met for the time a candidate may stay.
Elapse(p) ==
  /\ Exists(p) /\ people[p].recent
  /\ people' = [people EXCEPT ![p].recent = FALSE]
  /\ UNCHANGED <<realms, receipts, defaults>>

\* archive, on these tables.
ArchivePerson(p) ==
  /\ Present(p)
  /\ SetRow(p, [people[p] EXCEPT !.deleted = TRUE, !.status = "inactive"])
  /\ Deactivate(p)
  /\ UNCHANGED <<receipts, defaults>>

\* Faulty: an erasure that was asked for does not stop it.
Archived(p) == Exists(p) /\ people[p].deleted
Restorable(p) == Exists(p) /\ people[p].deleted /\ realms[p].status # "deleting"
Restore(p) ==
  /\ Restorable(p)
  /\ SetRow(p, [people[p] EXCEPT !.deleted = FALSE, !.status = "inactive"])
  /\ Deactivate(p)
  /\ UNCHANGED <<receipts, defaults>>

\* permanent_delete: the request, and the end once the memory was erased.
BeginDeletion(p) ==
  /\ Exists(p) /\ people[p].deleted /\ receipts[p] = "none"
  /\ SetRow(p, people[p])
  /\ realms' = [realms EXCEPT ![p].status = "deleting"]
  /\ receipts' = [receipts EXCEPT ![p] = "pending"]
  /\ UNCHANGED defaults

RemovePerson(p) ==
  /\ receipts[p] = "pending"
  /\ people' = [people EXCEPT ![p] = None]
  /\ realms' = [realms EXCEPT ![p] = None]
  /\ receipts' = [receipts EXCEPT ![p] = "completed"]
  /\ UNCHANGED defaults

-----------------------------------------------------------------------------
(* Memory. *)

SetMemoryDefaults(new) ==
  /\ new # defaults
  /\ defaults' = new
  /\ UNCHANGED <<people, realms, receipts>>

\* Faulty: the present defaults decide alone.
PreparedAnyway(realm) ==
  IF defaults.prepare_on_promotion THEN [realm EXCEPT !.status = "active"] ELSE realm
\* prepare_promoted_memory: the Owner's defaults may open the memory of a
\* candidate that becomes established, unless somebody closed it before.
Prepared(realm) ==
  IF defaults.prepare_on_promotion /\ realm.status = "inactive" /\ ~realm.blocked
    THEN [realm EXCEPT !.status = "active"] ELSE realm

SetProvisional(p, allowed) ==
  /\ Present(p)
  /\ allowed => people[p].status = "active"
  /\ realms[p].provisional # allowed
  /\ realms' = [realms EXCEPT ![p].provisional = allowed]
  /\ SetRow(p, people[p])
  /\ UNCHANGED <<receipts, defaults>>

\* Faulty: readers are not told by a new revision.
SilentSuspend(p) ==
  /\ Present(p)
  /\ realms[p].status = "active" \/ realms[p].provisional \/ ~realms[p].blocked
  /\ Deactivate(p)
  /\ UNCHANGED <<people, receipts, defaults>>
SuspendMemory(p) ==
  /\ Present(p)
  /\ realms[p].status = "active" \/ realms[p].provisional \/ ~realms[p].blocked
  /\ Deactivate(p)
  /\ SetRow(p, people[p])
  /\ UNCHANGED <<receipts, defaults>>

RestoreMemory(p) ==
  /\ Active(p) /\ people[p].maturity = "established"
  /\ realms[p].status # "active"
  /\ realms' = [realms EXCEPT ![p].status = "active"]
  /\ SetRow(p, people[p])
  /\ UNCHANGED <<receipts, defaults>>

-----------------------------------------------------------------------------
PersonInit ==
  /\ people = [p \in Person |-> None]
  /\ realms = [p \in Person |-> None]
  /\ receipts = [p \in Person |-> "none"]
  /\ defaults \in Policy

\* Steps that leave voices alone.
PersonStep ==
  \/ \E p \in Person :
       \/ \E maturity \in {"candidate", "established"} : Create(p, maturity)
       \/ \E status \in {"active", "inactive"} : Update(p, status)
       \/ RetireCandidate(p) \/ Elapse(p)
       \/ Restore(p) \/ BeginDeletion(p)
       \/ \E allowed \in BOOLEAN : SetProvisional(p, allowed)
       \/ SuspendMemory(p) \/ RestoreMemory(p)
  \/ RetainExpired
  \/ \E new \in Policy : SetMemoryDefaults(new)

-----------------------------------------------------------------------------
PersonTypeOK ==
  /\ people \in [Person -> PersonRow \cup {None}]
  /\ \A p \in Person : Exists(p) => people[p].revision <= MaxRevision[p]
  /\ realms \in [Person -> RealmRow \cup {None}]
  /\ receipts \in [Person -> {"none", "pending", "completed"}]
  /\ defaults \in Policy
  /\ \A p \in Person : Exists(p) <=> realms[p] # None

\* However candidates enter the pool, by discovery, by hand or by coming back,
\* there is room for them.
PoolBounded == Cardinality(Pool) <= Capacity

\* Memory is open only for an active, established Person, and a provisional
\* permission is held only by an active one, after any order of suspension,
\* archive, restoration and promotion.
MemoryFollowsPerson ==
  \A p \in Person : Exists(p) =>
    /\ realms[p].status = "active" => Active(p) /\ people[p].maturity = "established"
    /\ realms[p].provisional => Active(p)

\* A deletion that was asked for is never withdrawn, its memory is not used
\* while it is erased elsewhere, and the identity never comes back.
DeletionIsFinalStep ==
  \A p \in Person :
    /\ receipts[p] = "pending" =>
         \/ receipts'[p] = "completed"
         \/ receipts'[p] = "pending" /\ people'[p].deleted /\ realms'[p].status = "deleting"
    /\ receipts[p] = "completed" => receipts'[p] = "completed" /\ people'[p] = None
DeletionIsFinal == [][DeletionIsFinalStep]_personVars

\* "a manual suspension always takes precedence" (_promote_candidate): a memory
\* somebody closed is not opened by the promotion of its Person.
ClosedStaysClosedStep ==
  \A p \in Person :
    Exists(p) /\ people[p].maturity = "candidate" /\ realms[p].blocked /\ people'[p] # None
      => realms'[p].blocked /\ realms'[p].status # "active"
ClosedStaysClosed == [][ClosedStaysClosedStep]_personVars

\* A revision names one Person with one memory policy: who acts on what it read
\* acts on what is there.  The time a candidate was last met is no part of it.
Named(row) == [row EXCEPT !.recent = FALSE]
RevisionNamesPersonStep ==
  \A p \in Person : Exists(p) /\ people'[p] # None =>
    /\ people'[p].revision \in {people[p].revision, people[p].revision + 1}
    /\ people'[p].revision = people[p].revision =>
         Named(people'[p]) = Named(people[p]) /\ realms'[p] = realms[p]
RevisionNamesPerson == [][RevisionNamesPersonStep]_personVars
=============================================================================
