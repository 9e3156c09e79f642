------------------------ MODULE OwnerWorkspaceProofs ------------------------
(***************************************************************************)
(* Proofs about OwnerWorkspace, for every value of its constants.          *)
(***************************************************************************)
EXTENDS OwnerWorkspace, TLAPS

Owners     == [Owner -> OwnerRow]
Companions == [Companion -> CompanionRow]
Realms     == [Realm -> RealmRow]
Bindings   == [Binding -> BindingRow]

-----------------------------------------------------------------------------
(* UPDATE statements keep rows within the schema. *)

\* Setting one column of an Owner, or adding one to its revision.
LEMMA OwnerColumn ==
  ASSUME NEW f \in Owners, NEW o \in Owner
  PROVE  /\ \A s \in {"active", "archived"} : [f EXCEPT ![o].status = s] \in Owners
         /\ \A d \in Companion \cup {None} : [f EXCEPT ![o].default = d] \in Owners
         /\ [f EXCEPT ![o].revision = @ + 1] \in Owners
BY DEF Owners, OwnerRow

LEMMA OwnerName ==
  ASSUME NEW f \in Owners, NEW o \in Owner, NEW n \in Name
  PROVE  [f EXCEPT ![o].name = n] \in Owners
BY DEF Owners, OwnerRow

\* Moving the default pointer.
LEMMA OwnerDefault ==
  ASSUME NEW f \in Owners, NEW o \in Owner, NEW d \in Companion \cup {None}
  PROVE  [f EXCEPT ![o].default = d, ![o].revision = @ + 1] \in Owners
<1> DEFINE g == [f EXCEPT ![o].default = d]
<1>1. g \in Owners
  BY OwnerColumn
<1> HIDE DEF g
<1>2. [g EXCEPT ![o].revision = @ + 1] \in Owners
  BY <1>1, OwnerColumn
<1>3. QED
  BY <1>2 DEF g

\* Archiving an Owner.
LEMMA OwnerArchived ==
  ASSUME NEW f \in Owners, NEW o \in Owner
  PROVE  [f EXCEPT ![o].status = "archived", ![o].default = None, ![o].revision = @ + 1] \in Owners
<1> DEFINE g == [f EXCEPT ![o].status = "archived"]
<1>1. g \in Owners
  BY OwnerColumn
<1> HIDE DEF g
<1>2. [g EXCEPT ![o].default = None, ![o].revision = @ + 1] \in Owners
  BY <1>1, OwnerDefault
<1>3. QED
  BY <1>2 DEF g

\* Attaching a Realm to a Companion.
LEMMA CompanionRealm ==
  ASSUME NEW f \in Companions, NEW c \in Companion, NEW r \in Realm
  PROVE  [f EXCEPT ![c].realm = r] \in Companions
BY DEF Companions, CompanionRow

\* Moving a Companion's lifecycle state.
LEMMA CompanionState ==
  ASSUME companions \in Companions, NEW c \in Companion,
         NEW s \in {"active", "retiring", "archived"}, NEW n \in Nat, MoveTo(c, s, n)
  PROVE  companions' \in Companions
<1> DEFINE g == [companions EXCEPT ![c].state = s]
<1>1. g \in Companions
  BY DEF Companions, CompanionRow
<1> HIDE DEF g
<1>2. [g EXCEPT ![c].revision = @ + n] \in Companions
  BY <1>1 DEF Companions, CompanionRow
<1>3. QED
  BY <1>2 DEF g, MoveTo

\* The UPDATE of archive_owner over the Owner's active Companions.
LEMMA ArchiveActiveType ==
  ASSUME companions \in Companions, NEW o \in Owner
  PROVE  ArchiveActive(o) \in Companions
<1>1. ASSUME NEW c \in Companion
      PROVE  [companions[c] EXCEPT !.state = "archived", !.revision = @ + 1] \in CompanionRow
  <2> DEFINE row == [companions[c] EXCEPT !.state = "archived"]
  <2>1. companions[c] \in CompanionRow
    BY DEF Companions
  <2>2. row \in CompanionRow
    BY <2>1 DEF CompanionRow
  <2> HIDE DEF row
  <2>3. [row EXCEPT !.revision = @ + 1] \in CompanionRow
    BY <2>2 DEF CompanionRow
  <2>4. QED
    BY <2>3 DEF row
<1>2. QED
  BY <1>1 DEF ArchiveActive, Companions

-----------------------------------------------------------------------------
(* Type correctness. *)

RowsTyped ==
  owners \in Owners /\ companions \in Companions /\ realms \in Realms /\ bindings \in Bindings
FactsTyped == facts \subseteq Action \X Subject

LEMMA RealmCatalogType ==
  ASSUME realms \in Realms, NEW o \in Owner, NEW r \in Realm, EnsureMemoryRealm(o, r)
  PROVE  realms' \in Realms
BY DEF EnsureMemoryRealm, Realms, RealmRow

LEMMA HandOverType ==
  ASSUME owners \in Owners, NEW o \in Owner, NEW c \in Companion, NEW x \in Companion,
         HandOverDefault(o, c, x)
  PROVE  owners' \in Owners
BY OwnerDefault DEF HandOverDefault

LEMMA ProvisionAdds ==
  ASSUME NEW o \in Owner, NEW c \in Companion, NEW k \in Kind, NEW id \in Realm,
         ProvisionWorkspace(o, c, k, id)
  PROVE  \E r \in Realm : AddCompanion(o, c, k, r)
BY DEF ProvisionWorkspace, RealmFor, ActiveRealms, OwnerRealms

LEMMA OwnerRowsTyped ==
  ASSUME RowsTyped, NEW o \in Owner, OwnerCommand(o)
  PROVE  RowsTyped'
<1> USE DEF RowsTyped
<1>1. ASSUME NEW n \in Name, CreateOwner(o, n) PROVE RowsTyped'
  BY <1>1 DEF CreateOwner, Owners, OwnerRow
<1>2. ASSUME NEW n \in Name, UpdateOwner(o, n) \/ RenameOwner(o, n) PROVE RowsTyped'
  BY <1>2, OwnerName DEF UpdateOwner, RenameOwner
<1>3. ASSUME NEW n \in Name, NEW c \in Companion, NEW r \in Realm,
             InitializeOwnerWorkspace(o, n, c, r)
      PROVE  RowsTyped'
  BY <1>3, KindAssumption
     DEF InitializeOwnerWorkspace, NewCompanion, Owners, OwnerRow, Companions, CompanionRow,
         Realms, RealmRow
<1>4. CASE ArchiveOwner(o)
  <2>1. CASE NoChange
    BY <2>1 DEF NoChange, rows
  <2>2. CASE ~NoChange
    <3>1. owners' \in Owners
      <4>1. owners' = [owners EXCEPT ![o].status = "archived", ![o].default = None,
                                     ![o].revision = @ + 1]
        BY <1>4, <2>2 DEF ArchiveOwner
      <4>2. QED
        BY <4>1, OwnerArchived
    <3>2. companions' \in Companions
      BY <1>4, <2>2, ArchiveActiveType DEF ArchiveOwner
    <3>3. realms' \in Realms
      BY <1>4, <2>2 DEF ArchiveOwner, Realms, RealmRow
    <3>4. bindings' \in Bindings
      BY <1>4, <2>2 DEF ArchiveOwner, Bindings, BindingRow
    <3>5. QED
      BY <3>1, <3>2, <3>3, <3>4
  <2>3. QED
    BY <2>1, <2>2
<1>5. CASE DeleteOwner(o)
  BY <1>5
     DEF DeleteOwner, NoOwner, NoCompanion, NoRealm, NoBinding, Owners, OwnerRow,
         Companions, CompanionRow, Realms, RealmRow, Bindings, BindingRow
<1>6. QED
  BY <1>1, <1>2, <1>3, <1>4, <1>5 DEF OwnerCommand

LEMMA CompanionRowsTyped ==
  ASSUME RowsTyped, NEW o \in Owner, NEW c \in Companion, CompanionCommand(o, c)
  PROVE  RowsTyped'
<1> USE DEF RowsTyped
<1>0. ASSUME NoChange PROVE RowsTyped'
  BY <1>0 DEF NoChange, rows
<1>1. ASSUME NEW k \in Kind, NEW r \in Realm, AddCompanion(o, c, k, r)
      PROVE  RowsTyped'
  <2>1. owners' \in Owners
    BY <1>1, OwnerDefault DEF AddCompanion
  <2>2. companions' \in Companions
    BY <1>1 DEF AddCompanion, NewCompanion, Companions, CompanionRow
  <2>3. realms' \in Realms
    BY <1>1, RealmCatalogType DEF AddCompanion
  <2>4. QED
    BY <1>1, <2>1, <2>2, <2>3 DEF AddCompanion
<1>2. ASSUME NEW r \in Realm, EnsureCompanionRealm(o, c, r) PROVE RowsTyped'
  <2>1. companions' \in Companions
    BY <1>2, CompanionRealm DEF EnsureCompanionRealm
  <2>2. QED
    BY <1>2, <2>1, RealmCatalogType DEF EnsureCompanionRealm
<1>3. ASSUME NEW e \in Expected, NEW x \in Companion, BeginRetirement(o, c, e, x)
      PROVE  RowsTyped'
  <2>1. CASE NoChange
    BY <1>0, <2>1
  <2>2. CASE ~NoChange
    BY <1>3, <2>2, HandOverType, CompanionState DEF BeginRetirement
  <2>3. QED
    BY <2>1, <2>2
<1>4. ASSUME NEW e \in Expected, ArchiveCompanion(o, c, e) PROVE RowsTyped'
  <2>1. CASE NoChange
    BY <1>0, <2>1
  <2>2. CASE ~NoChange
    BY <1>4, <2>2, CompanionState DEF ArchiveCompanion
  <2>3. QED
    BY <2>1, <2>2
<1>5. ASSUME NEW e \in Expected, NEW x \in Companion, PutAwayCompanion(o, c, e, x)
      PROVE  RowsTyped'
  <2>1. CASE ArchiveCompanion(o, c, None)
    BY <1>4, <2>1 DEF Expected
  <2>2. CASE ~ArchiveCompanion(o, c, None)
    BY <1>5, <2>2, HandOverType, CompanionState DEF PutAwayCompanion
  <2>3. QED
    BY <2>1, <2>2
<1>6. ASSUME NEW e \in Expected, RestoreCompanion(o, c, e) PROVE RowsTyped'
  <2>1. CASE NoChange
    BY <1>0, <2>1
  <2>2. CASE ~NoChange
    BY <1>6, <2>2, CompanionState DEF RestoreCompanion
  <2>3. QED
    BY <2>1, <2>2
<1>7. ASSUME NEW e \in Expected, NEW r \in Realm, SetDefaultCompanion(o, c, e, r)
      PROVE  RowsTyped'
  <2>1. owners' \in Owners
    BY <1>7, OwnerDefault DEF SetDefaultCompanion
  <2>2. companions' \in Companions
    BY <1>7, CompanionRealm DEF SetDefaultCompanion
  <2>3. QED
    BY <1>7, <2>1, <2>2, RealmCatalogType DEF SetDefaultCompanion
<1>8. ASSUME NEW allow \in BOOLEAN, DeleteCompanion(o, c, allow) PROVE RowsTyped'
  <2>1. owners' \in Owners
    BY <1>8, OwnerDefault DEF DeleteCompanion
  <2>2. QED
    BY <1>8, <2>1
       DEF DeleteCompanion, NoCompanion, NoBinding, Companions, CompanionRow, Bindings, BindingRow
<1>9. ASSUME NEW d \in Device, NEW b \in Binding, Bind(o, c, d, b) PROVE RowsTyped'
  BY <1>9 DEF Bind, Bindings, BindingRow
<1>10. QED
  BY <1>1, <1>2, <1>3, <1>4, <1>5, <1>6, <1>7, <1>8, <1>9, ProvisionAdds DEF CompanionCommand

LEMMA BindingRowsTyped ==
  ASSUME RowsTyped, NEW b \in Binding, BindingCommand(b)
  PROVE  RowsTyped'
<1>1. ASSUME NEW e \in 1..MaxRevision, UpdatePolicy(b, e) PROVE RowsTyped'
  BY <1>1 DEF UpdatePolicy, RowsTyped, Bindings, BindingRow
<1>2. ASSUME NEW target \in {"disabled", "revoked"}, DisableBinding(b, target) PROVE RowsTyped'
  BY <1>2 DEF DisableBinding, NoChange, rows, RowsTyped, Bindings, BindingRow
<1>3. QED
  BY <1>1, <1>2 DEF BindingCommand

\* The fact a command commits names an action of this component and a row.
LEMMA NextFactsTyped == FactsTyped /\ Next => FactsTyped'
<1> SUFFICES ASSUME FactsTyped, Next PROVE FactsTyped'
  OBVIOUS
<1> USE DEF FactsTyped, Action, Subject
<1>1. ASSUME NEW o \in Owner, OwnerCommand(o) PROVE FactsTyped'
  BY <1>1
     DEF OwnerCommand, CreateOwner, UpdateOwner, RenameOwner, InitializeOwnerWorkspace,
         ArchiveOwner, DeleteOwner, NoChange
<1>2. ASSUME NEW o \in Owner, NEW c \in Companion, CompanionCommand(o, c) PROVE FactsTyped'
  BY <1>2
     DEF CompanionCommand, ProvisionWorkspace, AddCompanion, EnsureCompanionRealm, BeginRetirement,
         PutAwayCompanion, ArchiveCompanion, RestoreCompanion, SetDefaultCompanion,
         DeleteCompanion, Bind, NoChange, RealmFacts, RetirementFacts
<1>3. ASSUME NEW b \in Binding, BindingCommand(b) PROVE FactsTyped'
  BY <1>3 DEF BindingCommand, UpdatePolicy, DisableBinding, DisableFact, NoChange
<1>4. QED
  BY <1>1, <1>2, <1>3 DEF Next

LEMMA NextTypeOK == TypeOK /\ [Next]_vars => TypeOK'
<1> SUFFICES ASSUME RowsTyped, FactsTyped, [Next]_vars PROVE RowsTyped' /\ FactsTyped'
  BY DEF TypeOK, RowsTyped, FactsTyped, Owners, Companions, Realms, Bindings
<1>1. CASE UNCHANGED vars
  BY <1>1 DEF vars, RowsTyped, FactsTyped
<1>2. CASE Next
  BY <1>2, OwnerRowsTyped, CompanionRowsTyped, BindingRowsTyped, NextFactsTyped DEF Next
<1>3. QED
  BY <1>1, <1>2

\* Whatever commands run, every row stays within the schema and every fact
\* names an action of this component: the type invariant is inductive by itself.
THEOREM TypeCorrect == Spec => []TypeOK
<1>1. Init => TypeOK
  BY NoneAssumption
     DEF Init, TypeOK, OwnerRow, CompanionRow, RealmRow, BindingRow,
         NoOwner, NoCompanion, NoRealm, NoBinding
<1>2. QED
  BY <1>1, NextTypeOK, PTL DEF Spec

-----------------------------------------------------------------------------
(* What each UPDATE changes, column by column. *)

LEMMA NameEffect ==
  ASSUME owners \in Owners, NEW o \in Owner, NEW n \in Name, UpdateOwner(o, n) \/ RenameOwner(o, n)
  PROVE  \A p \in Owner : /\ owners'[p].status = owners[p].status
                          /\ owners'[p].default = owners[p].default
                          /\ owners'[p].revision = owners[p].revision
BY DEF UpdateOwner, RenameOwner, Owners, OwnerRow

\* Moving the pointer of o to d.
PointsTo(o, d) ==
  /\ \A p \in Owner : owners'[p].status = owners[p].status
  /\ \A p \in Owner \ {o} : owners'[p] = owners[p]
  /\ owners'[o].default = d
  /\ owners'[o].revision = owners[o].revision + 1

LEMMA PointerEffect ==
  ASSUME owners \in Owners, NEW o \in Owner, NEW d,
         owners' = [owners EXCEPT ![o].default = d, ![o].revision = @ + 1]
  PROVE  PointsTo(o, d)
BY DEF PointsTo, Owners, OwnerRow

\* The default pointer when c retires with x named to take over.
HandsOver(o, c, x) ==
  \/ owners[o].default # c /\ owners' = owners
  \/ owners[o].default = c /\ x \in EligibleReplacements(o, c) /\ PointsTo(o, x)

LEMMA HandOverEffect ==
  ASSUME owners \in Owners, NEW o \in Owner, NEW c \in Companion, NEW x \in Companion,
         HandOverDefault(o, c, x)
  PROVE  HandsOver(o, c, x)
BY PointerEffect DEF HandsOver, HandOverDefault

\* Moving the lifecycle state of c.
Moves(c, s, n) ==
  /\ \A x \in Companion : /\ companions'[x].owner = companions[x].owner
                          /\ companions'[x].kind = companions[x].kind
                          /\ companions'[x].realm = companions[x].realm
  /\ \A x \in Companion \ {c} : companions'[x] = companions[x]
  /\ companions'[c].state = s
  /\ companions'[c].revision = companions[c].revision + n

LEMMA MoveEffect ==
  ASSUME companions \in Companions, NEW c \in Companion,
         NEW s \in {"active", "retiring", "archived"}, NEW n \in Nat, MoveTo(c, s, n)
  PROVE  Moves(c, s, n)
BY DEF Moves, MoveTo, Companions, CompanionRow

\* Attaching the Realm r to c.
Attaches(c, r) ==
  /\ \A x \in Companion : /\ companions'[x].owner = companions[x].owner
                          /\ companions'[x].kind = companions[x].kind
                          /\ companions'[x].state = companions[x].state
                          /\ companions'[x].revision = companions[x].revision
  /\ \A x \in Companion \ {c} : companions'[x] = companions[x]
  /\ companions'[c].realm = r

LEMMA AttachEffect ==
  ASSUME companions \in Companions, NEW c \in Companion, NEW r \in Realm,
         companions' = [companions EXCEPT ![c].realm = r]
  PROVE  Attaches(c, r)
BY DEF Attaches, Companions, CompanionRow

\* Using the Realm r for o, cataloged now unless it was already there.
Catalogs(o, r) ==
  /\ \A s \in Realm \ {r} : realms'[s] = realms[s]
  /\ realms'[r].status = "active" /\ realms'[r].owner = o
  /\ \/ realms' = realms
     \/ ActiveRealms(o) = {} /\ realms[r].status = "absent"

LEMMA RealmEffect ==
  ASSUME realms \in Realms, NEW o \in Owner, NEW r \in Realm, EnsureMemoryRealm(o, r)
  PROVE  Catalogs(o, r)
BY DEF Catalogs, EnsureMemoryRealm, Realms, RealmRow, ActiveRealms, OwnerRealms

\* Archiving the Owner o.
Archives(o) ==
  /\ owners[o].status = "active"
  /\ \A p \in Owner \ {o} : owners'[p] = owners[p]
  /\ owners'[o].status = "archived"
  /\ owners'[o].default = None
  /\ owners'[o].revision = owners[o].revision + 1
  /\ \A c \in Companion :
       /\ companions'[c].owner = companions[c].owner
       /\ companions'[c].kind = companions[c].kind
       /\ companions'[c].realm = companions[c].realm
       /\ \/ companions'[c] = companions[c]
          \/ /\ Owned(o, c)
             /\ companions[c].state = "active"
             /\ companions'[c].state = "archived"
             /\ companions'[c].revision = companions[c].revision + 1
  /\ \A r \in Realm :
       /\ realms'[r].owner = realms[r].owner
       /\ \/ realms'[r] = realms[r]
          \/ realms[r].status = "active" /\ realms'[r].status = "inactive"
       /\ IF realms[r].owner = o THEN realms'[r].status # "active" ELSE realms'[r] = realms[r]
  /\ \A b \in Binding :
       /\ bindings'[b].owner = bindings[b].owner
       /\ bindings'[b].guard = bindings[b].guard
       /\ bindings'[b].device = bindings[b].device
       /\ \/ bindings'[b] = bindings[b]
          \/ /\ bindings[b].owner = o
             /\ bindings[b].state = "active"
             /\ bindings'[b].state = "disabled"

LEMMA ArchiveEffect ==
  ASSUME RowsTyped, NEW o \in Owner, ArchiveOwner(o), ~NoChange
  PROVE  Archives(o)
<1> USE DEF RowsTyped
<1>1. /\ owners[o].status = "active"
      /\ \A p \in Owner \ {o} : owners'[p] = owners[p]
      /\ owners'[o].status = "archived"
      /\ owners'[o].default = None
      /\ owners'[o].revision = owners[o].revision + 1
  BY DEF ArchiveOwner, Owners, OwnerRow
<1>2. ASSUME NEW c \in Companion
      PROVE  /\ companions'[c].owner = companions[c].owner
             /\ companions'[c].kind = companions[c].kind
             /\ companions'[c].realm = companions[c].realm
             /\ \/ companions'[c] = companions[c]
                \/ /\ Owned(o, c)
                   /\ companions[c].state = "active"
                   /\ companions'[c].state = "archived"
                   /\ companions'[c].revision = companions[c].revision + 1
  <2>1. companions[c] \in CompanionRow
    BY DEF Companions
  <2>2. companions' = ArchiveActive(o)
    BY DEF ArchiveOwner
  <2>3. CASE Owned(o, c) /\ companions[c].state = "active"
    <3>1. companions'[c] = [companions[c] EXCEPT !.state = "archived", !.revision = @ + 1]
      BY <2>2, <2>3 DEF ArchiveActive
    <3>2. QED
      BY <2>1, <2>3, <3>1 DEF CompanionRow
  <2>4. CASE ~(Owned(o, c) /\ companions[c].state = "active")
    BY <2>2, <2>4 DEF ArchiveActive
  <2>5. QED
    BY <2>3, <2>4
<1>3. ASSUME NEW r \in Realm
      PROVE  /\ realms'[r].owner = realms[r].owner
             /\ \/ realms'[r] = realms[r]
                \/ realms[r].status = "active" /\ realms'[r].status = "inactive"
             /\ IF realms[r].owner = o THEN realms'[r].status # "active" ELSE realms'[r] = realms[r]
  BY DEF ArchiveOwner, ActiveRealms, OwnerRealms, Realms, RealmRow
<1>4. ASSUME NEW b \in Binding
      PROVE  /\ bindings'[b].owner = bindings[b].owner
             /\ bindings'[b].guard = bindings[b].guard
             /\ bindings'[b].device = bindings[b].device
             /\ \/ bindings'[b] = bindings[b]
                \/ /\ bindings[b].owner = o
                   /\ bindings[b].state = "active"
                   /\ bindings'[b].state = "disabled"
  BY DEF ArchiveOwner, Bindings, BindingRow
<1>5. QED
  BY <1>1, <1>2, <1>3, <1>4 DEF Archives

\* Changing a binding without re-binding it.
LEMMA BindingEffect ==
  ASSUME bindings \in Bindings, NEW b \in Binding, BindingCommand(b)
  PROVE  /\ owners' = owners /\ companions' = companions /\ realms' = realms
         /\ \A x \in Binding :
              /\ bindings'[x].owner = bindings[x].owner
              /\ bindings'[x].guard = bindings[x].guard
              /\ bindings'[x].device = bindings[x].device
              /\ bindings'[x].state = "active" => bindings[x].state = "active"
              /\ bindings[x].state = "absent" <=> bindings'[x].state = "absent"
<1>1. ASSUME NEW e \in 1..MaxRevision, UpdatePolicy(b, e)
      PROVE  \A x \in Binding : /\ bindings'[x].owner = bindings[x].owner
                                /\ bindings'[x].guard = bindings[x].guard
                                /\ bindings'[x].device = bindings[x].device
                                /\ bindings'[x].state = bindings[x].state
  BY <1>1 DEF UpdatePolicy, Bindings, BindingRow
<1>2. ASSUME NEW target \in {"disabled", "revoked"}, DisableBinding(b, target), ~NoChange
      PROVE  /\ \A x \in Binding : /\ bindings'[x].owner = bindings[x].owner
                                   /\ bindings'[x].guard = bindings[x].guard
                                   /\ bindings'[x].device = bindings[x].device
             /\ bindings'[b].state = target
             /\ bindings[b].state = "active"
             /\ \A x \in Binding \ {b} : bindings'[x] = bindings[x]
  <2>1. bindings[b].state = "active" /\ bindings' = [bindings EXCEPT ![b].state = target]
    BY <1>2 DEF DisableBinding
  <2>2. QED
    BY <2>1 DEF Bindings, BindingRow
<1>3. CASE NoChange
  BY <1>3 DEF NoChange, rows
<1>4. CASE \E e \in 1..MaxRevision : UpdatePolicy(b, e)
  BY <1>1, <1>4 DEF UpdatePolicy
<1>5. ASSUME NEW target \in {"disabled", "revoked"}, DisableBinding(b, target), ~NoChange
      PROVE  owners' = owners /\ companions' = companions /\ realms' = realms
  BY <1>5 DEF DisableBinding
<1>6. QED
  BY <1>2, <1>3, <1>4, <1>5 DEF BindingCommand

\* Provisioning the Companion c.
Provisions(o, c, k, r) ==
  /\ owners[o].status = "active"
  /\ companions[c].state = "absent"
  /\ Catalogs(o, r)
  /\ companions'[c] = NewCompanion(o, k, r)
  /\ \A x \in Companion \ {c} : companions'[x] = companions[x]
  /\ \/ owners' = owners
     \/ owners[o].default = None /\ k # "guard" /\ PointsTo(o, c)
  /\ bindings' = bindings

LEMMA ProvisionEffect ==
  ASSUME RowsTyped, NEW o \in Owner, NEW c \in Companion, NEW k \in Kind, NEW r \in Realm,
         AddCompanion(o, c, k, r)
  PROVE  Provisions(o, c, k, r)
<1> USE DEF RowsTyped
<1>1. /\ owners[o].status = "active"
      /\ companions[c].state = "absent"
      /\ bindings' = bindings
  BY DEF AddCompanion
<1>2. Catalogs(o, r)
  BY RealmEffect DEF AddCompanion
<1>3. /\ companions'[c] = NewCompanion(o, k, r)
      /\ \A x \in Companion \ {c} : companions'[x] = companions[x]
  BY DEF AddCompanion, Companions
<1>4. \/ owners' = owners
      \/ owners[o].default = None /\ k # "guard" /\ PointsTo(o, c)
  BY PointerEffect DEF AddCompanion, TakesDefault
<1>5. QED
  BY <1>1, <1>2, <1>3, <1>4 DEF Provisions

\* Onboarding the Owner o with the Companion c and the Realm r.
Initializes(o, n, c, r) ==
  /\ ~Exists(o)
  /\ companions[c].state = "absent"
  /\ realms[r].status = "absent"
  /\ owners'[o] = [status |-> "active", default |-> c, revision |-> 2, name |-> n]
  /\ \A p \in Owner \ {o} : owners'[p] = owners[p]
  /\ companions'[c] = NewCompanion(o, "conversational", r)
  /\ \A x \in Companion \ {c} : companions'[x] = companions[x]
  /\ realms'[r] = [status |-> "active", owner |-> o]
  /\ \A s \in Realm \ {r} : realms'[s] = realms[s]
  /\ bindings' = bindings

LEMMA InitializeEffect ==
  ASSUME RowsTyped, NEW o \in Owner, NEW n \in Name, NEW c \in Companion, NEW r \in Realm,
         InitializeOwnerWorkspace(o, n, c, r)
  PROVE  Initializes(o, n, c, r)
BY DEF Initializes, RowsTyped, InitializeOwnerWorkspace, Owners, Companions, Realms

\* Making the Companion c the default of o.
MakesDefault(o, c, r) ==
  /\ Owned(o, c) /\ companions[c].state = "active" /\ companions[c].kind # "guard"
  /\ Catalogs(o, r)
  /\ Attaches(c, r)
  /\ \/ owners' = owners
     \/ owners[o].default # c /\ PointsTo(o, c)
  /\ bindings' = bindings

LEMMA SetDefaultEffect ==
  ASSUME RowsTyped, NEW o \in Owner, NEW c \in Companion, NEW e \in Expected, NEW r \in Realm,
         SetDefaultCompanion(o, c, e, r)
  PROVE  MakesDefault(o, c, r)
<1> USE DEF RowsTyped
<1>1. /\ Owned(o, c) /\ companions[c].state = "active" /\ companions[c].kind # "guard"
      /\ bindings' = bindings
  BY DEF SetDefaultCompanion
<1>2. Catalogs(o, r) /\ Attaches(c, r)
  BY RealmEffect, AttachEffect DEF SetDefaultCompanion
<1>3. \/ owners' = owners
      \/ owners[o].default # c /\ PointsTo(o, c)
  BY PointerEffect DEF SetDefaultCompanion
<1>4. QED
  BY <1>1, <1>2, <1>3 DEF MakesDefault

\* Deleting the Companion c.
Deletes(o, c) ==
  /\ Owned(o, c)
  /\ \/ owners[o].default # c /\ owners' = owners
     \/ owners[o].default = c /\ PointsTo(o, None)
  /\ companions'[c] = NoCompanion
  /\ \A x \in Companion \ {c} : companions'[x] = companions[x]
  /\ \A b \in Binding : \/ bindings[b].guard = c /\ bindings'[b] = NoBinding
                        \/ bindings[b].guard # c /\ bindings'[b] = bindings[b]
  /\ realms' = realms

LEMMA DeleteEffect ==
  ASSUME RowsTyped, NEW o \in Owner, NEW c \in Companion, NEW allow \in BOOLEAN,
         DeleteCompanion(o, c, allow)
  PROVE  Deletes(o, c)
<1> USE DEF RowsTyped
<1>1. Owned(o, c) /\ realms' = realms
  BY DEF DeleteCompanion
<1>2. \/ owners[o].default # c /\ owners' = owners
      \/ owners[o].default = c /\ PointsTo(o, None)
  BY PointerEffect DEF DeleteCompanion
<1>3. /\ companions'[c] = NoCompanion
      /\ \A x \in Companion \ {c} : companions'[x] = companions[x]
  BY DEF DeleteCompanion, Companions
<1>4. \A b \in Binding : \/ bindings[b].guard = c /\ bindings'[b] = NoBinding
                         \/ bindings[b].guard # c /\ bindings'[b] = bindings[b]
  BY DEF DeleteCompanion, Bindings
<1>5. QED
  BY <1>1, <1>2, <1>3, <1>4 DEF Deletes

-----------------------------------------------------------------------------
(* Safety.  DefaultAnswers and SharedRealm are not inductive alone: that the *)
(* Realm a command catalogs is nobody's, and that the rows of a deleted      *)
(* Owner are all gone, is InScope.                                           *)

IInv == TypeOK /\ InScope /\ SharedRealm /\ DefaultAnswers /\ OneGuard

LEMMA IInvRows == IInv => RowsTyped
BY DEF IInv, TypeOK, RowsTyped, Owners, Companions, Realms, Bindings

\* A command is one of these sixteen, or changes nothing.
LEMMA NextSteps ==
  ASSUME Next
  PROVE  \/ NoChange
         \/ \E o \in Owner, n \in Name : CreateOwner(o, n)
         \/ \E o \in Owner, n \in Name : UpdateOwner(o, n) \/ RenameOwner(o, n)
         \/ \E o \in Owner, c \in Companion, n \in Name, r \in Realm :
              InitializeOwnerWorkspace(o, n, c, r)
         \/ \E o \in Owner : ArchiveOwner(o) /\ ~NoChange
         \/ \E o \in Owner : DeleteOwner(o)
         \/ \E o \in Owner, c \in Companion, k \in Kind, r \in Realm : AddCompanion(o, c, k, r)
         \/ \E o \in Owner, c \in Companion, r \in Realm : EnsureCompanionRealm(o, c, r)
         \/ \E o \in Owner, c \in Companion, e \in Expected, x \in Companion :
              BeginRetirement(o, c, e, x) /\ ~NoChange
         \/ \E o \in Owner, c \in Companion, e \in Expected :
              ArchiveCompanion(o, c, e) /\ ~NoChange
         \/ \E o \in Owner, c \in Companion, e \in Expected, x \in Companion :
              PutAwayCompanion(o, c, e, x) /\ ~ArchiveCompanion(o, c, None)
         \/ \E o \in Owner, c \in Companion, e \in Expected :
              RestoreCompanion(o, c, e) /\ ~NoChange
         \/ \E o \in Owner, c \in Companion, e \in Expected, r \in Realm :
              SetDefaultCompanion(o, c, e, r)
         \/ \E o \in Owner, c \in Companion, allow \in BOOLEAN : DeleteCompanion(o, c, allow)
         \/ \E o \in Owner, c \in Companion, d \in Device, b \in Binding : Bind(o, c, d, b)
         \/ \E b \in Binding : BindingCommand(b)
<1>1. CASE \E o \in Owner : OwnerCommand(o)
  <2>1. PICK o \in Owner : OwnerCommand(o)
    BY <1>1
  <2>2. \/ \E n \in Name : CreateOwner(o, n)
        \/ \E n \in Name : UpdateOwner(o, n) \/ RenameOwner(o, n)
        \/ \E n \in Name, c \in Companion, r \in Realm : InitializeOwnerWorkspace(o, n, c, r)
        \/ ArchiveOwner(o)
        \/ DeleteOwner(o)
    BY <2>1 DEF OwnerCommand
  <2>3. QED
    BY <2>2
<1>2. CASE \E o \in Owner, c \in Companion : CompanionCommand(o, c)
  <2>1. PICK o \in Owner, c \in Companion : CompanionCommand(o, c)
    BY <1>2
  <2>2. \/ \E k \in Kind, id \in Realm : ProvisionWorkspace(o, c, k, id)
        \/ \E r \in Realm : EnsureCompanionRealm(o, c, r)
        \/ \E e \in Expected, x \in Companion : BeginRetirement(o, c, e, x)
        \/ \E e \in Expected, x \in Companion : PutAwayCompanion(o, c, e, x)
        \/ \E e \in Expected : ArchiveCompanion(o, c, e)
        \/ \E e \in Expected : RestoreCompanion(o, c, e)
        \/ \E e \in Expected, r \in Realm : SetDefaultCompanion(o, c, e, r)
        \/ \E allow \in BOOLEAN : DeleteCompanion(o, c, allow)
        \/ \E d \in Device, b \in Binding : Bind(o, c, d, b)
    BY <2>1 DEF CompanionCommand
  <2>3. (\E k \in Kind, id \in Realm : ProvisionWorkspace(o, c, k, id))
          => \E k \in Kind, r \in Realm : AddCompanion(o, c, k, r)
    BY ProvisionAdds
  <2>4. None \in Expected
    BY DEF Expected
  <2>5. QED
    BY <2>2, <2>3, <2>4
<1>3. CASE \E b \in Binding : BindingCommand(b)
  BY <1>3
<1>4. QED
  BY <1>1, <1>2, <1>3 DEF Next

\* Rows keep hanging together.
LEMMA NextInScope ==
  ASSUME IInv, Next
  PROVE  InScope'
<1> USE NoneAssumption, IInvRows DEF IInv, RowsTyped, InScope,
       CompanionsInScope, RealmsInScope, BindingsInScope
<1>1. CASE NoChange
  BY <1>1 DEF NoChange, rows, Exists, Owned, OwnerRealms, ActiveRealms
<1>2. ASSUME NEW o \in Owner, NEW n \in Name, CreateOwner(o, n)
      PROVE  InScope'
  BY <1>2 DEF CreateOwner, Owners, Exists, Owned, OwnerRealms, ActiveRealms
<1>3. ASSUME NEW o \in Owner, NEW n \in Name, UpdateOwner(o, n) \/ RenameOwner(o, n)
      PROVE  InScope'
  BY <1>3, NameEffect DEF UpdateOwner, RenameOwner, Exists, Owned, OwnerRealms, ActiveRealms
<1>4. ASSUME NEW o \in Owner, NEW c \in Companion, NEW n \in Name, NEW r \in Realm,
             InitializeOwnerWorkspace(o, n, c, r)
      PROVE  InScope'
  <2>1. Initializes(o, n, c, r)
    BY <1>4, InitializeEffect
  <2>2. CompanionsInScope'
    BY <2>1 DEF Initializes, NewCompanion, Exists, Owned, OwnerRealms, ActiveRealms
  <2>3. RealmsInScope'
    BY <2>1 DEF Initializes, NewCompanion, Exists, Owned, OwnerRealms, ActiveRealms
  <2>4. BindingsInScope'
    BY <2>1 DEF Initializes, NewCompanion, Exists, Owned, OwnerRealms, ActiveRealms
  <2>5. QED
    BY <2>2, <2>3, <2>4
<1>5. ASSUME NEW o \in Owner, ArchiveOwner(o), ~NoChange
      PROVE  InScope'
  <2>1. Archives(o)
    BY <1>5, ArchiveEffect
  <2>2. CompanionsInScope'
    BY <2>1 DEF Archives, Exists, Owned, OwnerRealms, ActiveRealms
  <2>3. RealmsInScope'
    BY <2>1 DEF Archives, Exists, Owned, OwnerRealms, ActiveRealms
  <2>4. BindingsInScope'
    BY <2>1 DEF Archives, Exists, Owned, OwnerRealms, ActiveRealms
  <2>5. QED
    BY <2>2, <2>3, <2>4
<1>6. ASSUME NEW o \in Owner, DeleteOwner(o)
      PROVE  InScope'
  BY <1>6
     DEF DeleteOwner, NoOwner, NoCompanion, NoRealm, NoBinding, Owners, Exists, Owned,
         OwnerRealms, ActiveRealms
<1>7. ASSUME NEW o \in Owner, NEW c \in Companion, NEW k \in Kind, NEW r \in Realm,
             AddCompanion(o, c, k, r)
      PROVE  InScope'
  <2>1. Provisions(o, c, k, r)
    BY <1>7, ProvisionEffect
  <2>2. CompanionsInScope'
    BY <2>1
       DEF Provisions, NewCompanion, Catalogs, PointsTo, Exists, Owned, OwnerRealms, ActiveRealms
  <2>3. RealmsInScope'
    BY <2>1
       DEF Provisions, NewCompanion, Catalogs, PointsTo, Exists, Owned, OwnerRealms, ActiveRealms
  <2>4. BindingsInScope'
    BY <2>1
       DEF Provisions, NewCompanion, Catalogs, PointsTo, Exists, Owned, OwnerRealms, ActiveRealms
  <2>5. QED
    BY <2>2, <2>3, <2>4
<1>8. ASSUME NEW o \in Owner, NEW c \in Companion, NEW r \in Realm, EnsureCompanionRealm(o, c, r)
      PROVE  InScope'
  <2>1. Owned(o, c) /\ Catalogs(o, r) /\ Attaches(c, r) /\ UNCHANGED <<owners, bindings>>
    BY <1>8, RealmEffect, AttachEffect DEF EnsureCompanionRealm
  <2>2. CompanionsInScope'
    BY <2>1 DEF Attaches, Catalogs, Exists, Owned, OwnerRealms, ActiveRealms
  <2>3. RealmsInScope'
    BY <2>1 DEF Attaches, Catalogs, Exists, Owned, OwnerRealms, ActiveRealms
  <2>4. BindingsInScope'
    BY <2>1 DEF Attaches, Catalogs, Exists, Owned, OwnerRealms, ActiveRealms
  <2>5. QED
    BY <2>2, <2>3, <2>4
<1>9. ASSUME NEW o \in Owner, NEW c \in Companion, NEW e \in Expected, NEW x \in Companion,
             BeginRetirement(o, c, e, x), ~NoChange
      PROVE  InScope'
  <2>1. /\ Owned(o, c) /\ Moves(c, "retiring", 1) /\ UNCHANGED <<realms, bindings>>
        /\ HandsOver(o, c, x)
    BY <1>9, HandOverEffect, MoveEffect DEF BeginRetirement
  <2>2. CompanionsInScope'
    BY <2>1
       DEF HandsOver, EligibleReplacements, Moves, PointsTo, Exists, Owned, OwnerRealms,
           ActiveRealms
  <2>3. RealmsInScope'
    BY <2>1
       DEF HandsOver, EligibleReplacements, Moves, PointsTo, Exists, Owned, OwnerRealms,
           ActiveRealms
  <2>4. BindingsInScope'
    BY <2>1
       DEF HandsOver, EligibleReplacements, Moves, PointsTo, Exists, Owned, OwnerRealms,
           ActiveRealms
  <2>5. QED
    BY <2>2, <2>3, <2>4
<1>10. ASSUME NEW o \in Owner, NEW c \in Companion, NEW e \in Expected,
             ArchiveCompanion(o, c, e), ~NoChange
       PROVE  InScope'
  <2>1. /\ Owned(o, c) /\ Moves(c, "archived", 1) /\ UNCHANGED <<owners, realms, bindings>>
        /\ owners[o].default # c
    BY <1>10, MoveEffect DEF ArchiveCompanion
  <2>2. CompanionsInScope'
    BY <2>1 DEF Moves, Exists, Owned, OwnerRealms, ActiveRealms
  <2>3. RealmsInScope'
    BY <2>1 DEF Moves, Exists, Owned, OwnerRealms, ActiveRealms
  <2>4. BindingsInScope'
    BY <2>1 DEF Moves, Exists, Owned, OwnerRealms, ActiveRealms
  <2>5. QED
    BY <2>2, <2>3, <2>4
<1>11. ASSUME NEW o \in Owner, NEW c \in Companion, NEW e \in Expected, NEW x \in Companion,
             PutAwayCompanion(o, c, e, x), ~ArchiveCompanion(o, c, None)
       PROVE  InScope'
  <2>1. /\ Owned(o, c) /\ Moves(c, "archived", 2) /\ UNCHANGED <<realms, bindings>>
        /\ HandsOver(o, c, x)
    BY <1>11, HandOverEffect, MoveEffect DEF PutAwayCompanion
  <2>2. CompanionsInScope'
    BY <2>1
       DEF HandsOver, EligibleReplacements, Moves, PointsTo, Exists, Owned, OwnerRealms,
           ActiveRealms
  <2>3. RealmsInScope'
    BY <2>1
       DEF HandsOver, EligibleReplacements, Moves, PointsTo, Exists, Owned, OwnerRealms,
           ActiveRealms
  <2>4. BindingsInScope'
    BY <2>1
       DEF HandsOver, EligibleReplacements, Moves, PointsTo, Exists, Owned, OwnerRealms,
           ActiveRealms
  <2>5. QED
    BY <2>2, <2>3, <2>4
<1>12. ASSUME NEW o \in Owner, NEW c \in Companion, NEW e \in Expected,
             RestoreCompanion(o, c, e), ~NoChange
       PROVE  InScope'
  <2>1. Owned(o, c) /\ Moves(c, "active", 1) /\ UNCHANGED <<owners, realms, bindings>>
    BY <1>12, MoveEffect DEF RestoreCompanion
  <2>2. CompanionsInScope'
    BY <2>1 DEF Moves, Exists, Owned, OwnerRealms, ActiveRealms
  <2>3. RealmsInScope'
    BY <2>1 DEF Moves, Exists, Owned, OwnerRealms, ActiveRealms
  <2>4. BindingsInScope'
    BY <2>1 DEF Moves, Exists, Owned, OwnerRealms, ActiveRealms
  <2>5. QED
    BY <2>2, <2>3, <2>4
<1>13. ASSUME NEW o \in Owner, NEW c \in Companion, NEW e \in Expected, NEW r \in Realm,
             SetDefaultCompanion(o, c, e, r)
       PROVE  InScope'
  <2>1. MakesDefault(o, c, r)
    BY <1>13, SetDefaultEffect
  <2>2. CompanionsInScope'
    BY <2>1
       DEF MakesDefault, Catalogs, Attaches, PointsTo, Exists, Owned, OwnerRealms, ActiveRealms
  <2>3. RealmsInScope'
    BY <2>1
       DEF MakesDefault, Catalogs, Attaches, PointsTo, Exists, Owned, OwnerRealms, ActiveRealms
  <2>4. BindingsInScope'
    BY <2>1
       DEF MakesDefault, Catalogs, Attaches, PointsTo, Exists, Owned, OwnerRealms, ActiveRealms
  <2>5. QED
    BY <2>2, <2>3, <2>4
<1>14. ASSUME NEW o \in Owner, NEW c \in Companion, NEW allow \in BOOLEAN,
             DeleteCompanion(o, c, allow)
       PROVE  InScope'
  <2>1. Deletes(o, c)
    BY <1>14, DeleteEffect
  <2>2. CompanionsInScope'
    BY <2>1
       DEF Deletes, PointsTo, NoCompanion, NoBinding, Exists, Owned, OwnerRealms, ActiveRealms
  <2>3. RealmsInScope'
    BY <2>1
       DEF Deletes, PointsTo, NoCompanion, NoBinding, Exists, Owned, OwnerRealms, ActiveRealms
  <2>4. BindingsInScope'
    BY <2>1
       DEF Deletes, PointsTo, NoCompanion, NoBinding, Exists, Owned, OwnerRealms, ActiveRealms
  <2>5. QED
    BY <2>2, <2>3, <2>4
<1>15. ASSUME NEW o \in Owner, NEW c \in Companion, NEW d \in Device, NEW b \in Binding,
             Bind(o, c, d, b)
       PROVE  InScope'
  BY <1>15 DEF Bind, Unbound, Bindings, Exists, Owned, OwnerRealms, ActiveRealms
<1>16. ASSUME NEW b \in Binding, BindingCommand(b)
       PROVE  InScope'
  BY <1>16, BindingEffect DEF Exists, Owned, OwnerRealms, ActiveRealms
<1>17. QED
  BY <1>1, <1>2, <1>3, <1>4, <1>5, <1>6, <1>7, <1>8, <1>9, <1>10, <1>11, <1>12, <1>13, <1>14,
     <1>15, <1>16, NextSteps

\* Every command leaves an active Owner one Realm, shared by all its Companions.
LEMMA NextSharedRealm ==
  ASSUME IInv, Next
  PROVE  SharedRealm'
<1> USE NoneAssumption, IInvRows DEF IInv, RowsTyped, SharedRealm,
       OneActiveRealm, CompanionsShareRealm
<1>1. CASE NoChange
  BY <1>1
     DEF NoChange, rows, InScope, CompanionsInScope, RealmsInScope, Exists, Owned, OwnerRealms,
         ActiveRealms
<1>2. ASSUME NEW o \in Owner, NEW n \in Name, CreateOwner(o, n)
      PROVE  SharedRealm'
  BY <1>2
     DEF CreateOwner, Owners, InScope, CompanionsInScope, RealmsInScope, Exists, Owned,
         OwnerRealms, ActiveRealms
<1>3. ASSUME NEW o \in Owner, NEW n \in Name, UpdateOwner(o, n) \/ RenameOwner(o, n)
      PROVE  SharedRealm'
  BY <1>3, NameEffect
     DEF UpdateOwner, RenameOwner, InScope, CompanionsInScope, RealmsInScope, Exists, Owned,
         OwnerRealms, ActiveRealms
<1>4. ASSUME NEW o \in Owner, NEW c \in Companion, NEW n \in Name, NEW r \in Realm,
             InitializeOwnerWorkspace(o, n, c, r)
      PROVE  SharedRealm'
  <2>1. Initializes(o, n, c, r)
    BY <1>4, InitializeEffect
  <2>2. OneActiveRealm'
    BY <2>1
       DEF Initializes, NewCompanion, InScope, CompanionsInScope, RealmsInScope, Exists, Owned,
           OwnerRealms, ActiveRealms
  <2>3. CompanionsShareRealm'
    BY <2>1
       DEF Initializes, NewCompanion, InScope, CompanionsInScope, RealmsInScope, Exists, Owned,
           OwnerRealms, ActiveRealms
  <2>4. QED
    BY <2>2, <2>3
<1>5. ASSUME NEW o \in Owner, ArchiveOwner(o), ~NoChange
      PROVE  SharedRealm'
  <2>1. Archives(o)
    BY <1>5, ArchiveEffect
  <2>2. OneActiveRealm'
    BY <2>1
       DEF Archives, InScope, CompanionsInScope, RealmsInScope, Exists, Owned, OwnerRealms,
           ActiveRealms
  <2>3. CompanionsShareRealm'
    BY <2>1
       DEF Archives, InScope, CompanionsInScope, RealmsInScope, Exists, Owned, OwnerRealms,
           ActiveRealms
  <2>4. QED
    BY <2>2, <2>3
<1>6. ASSUME NEW o \in Owner, DeleteOwner(o)
      PROVE  SharedRealm'
  BY <1>6
     DEF DeleteOwner, NoOwner, NoCompanion, NoRealm, NoBinding, Owners, InScope,
         CompanionsInScope, RealmsInScope, Exists, Owned, OwnerRealms, ActiveRealms
<1>7. ASSUME NEW o \in Owner, NEW c \in Companion, NEW k \in Kind, NEW r \in Realm,
             AddCompanion(o, c, k, r)
      PROVE  SharedRealm'
  <2>1. Provisions(o, c, k, r)
    BY <1>7, ProvisionEffect
  <2>2. OneActiveRealm'
    BY <2>1
       DEF Provisions, NewCompanion, Catalogs, PointsTo, InScope, CompanionsInScope,
           RealmsInScope, Exists, Owned, OwnerRealms, ActiveRealms
  <2>3. CompanionsShareRealm'
    BY <2>1
       DEF Provisions, NewCompanion, Catalogs, PointsTo, InScope, CompanionsInScope,
           RealmsInScope, Exists, Owned, OwnerRealms, ActiveRealms
  <2>4. QED
    BY <2>2, <2>3
<1>8. ASSUME NEW o \in Owner, NEW c \in Companion, NEW r \in Realm, EnsureCompanionRealm(o, c, r)
      PROVE  SharedRealm'
  <2>1. Owned(o, c) /\ Catalogs(o, r) /\ Attaches(c, r) /\ UNCHANGED <<owners, bindings>>
    BY <1>8, RealmEffect, AttachEffect DEF EnsureCompanionRealm
  <2>2. OneActiveRealm'
    BY <2>1
       DEF Attaches, Catalogs, InScope, CompanionsInScope, RealmsInScope, Exists, Owned,
           OwnerRealms, ActiveRealms
  <2>3. CompanionsShareRealm'
    BY <2>1
       DEF Attaches, Catalogs, InScope, CompanionsInScope, RealmsInScope, Exists, Owned,
           OwnerRealms, ActiveRealms
  <2>4. QED
    BY <2>2, <2>3
<1>9. ASSUME NEW o \in Owner, NEW c \in Companion, NEW e \in Expected, NEW x \in Companion,
             BeginRetirement(o, c, e, x), ~NoChange
      PROVE  SharedRealm'
  <2>1. /\ Owned(o, c) /\ Moves(c, "retiring", 1) /\ UNCHANGED <<realms, bindings>>
        /\ HandsOver(o, c, x)
    BY <1>9, HandOverEffect, MoveEffect DEF BeginRetirement
  <2>2. OneActiveRealm'
    BY <2>1
       DEF HandsOver, EligibleReplacements, Moves, PointsTo, InScope, CompanionsInScope,
           RealmsInScope, Exists, Owned, OwnerRealms, ActiveRealms
  <2>3. CompanionsShareRealm'
    BY <2>1
       DEF HandsOver, EligibleReplacements, Moves, PointsTo, InScope, CompanionsInScope,
           RealmsInScope, Exists, Owned, OwnerRealms, ActiveRealms
  <2>4. QED
    BY <2>2, <2>3
<1>10. ASSUME NEW o \in Owner, NEW c \in Companion, NEW e \in Expected,
             ArchiveCompanion(o, c, e), ~NoChange
       PROVE  SharedRealm'
  <2>1. /\ Owned(o, c) /\ Moves(c, "archived", 1) /\ UNCHANGED <<owners, realms, bindings>>
        /\ owners[o].default # c
    BY <1>10, MoveEffect DEF ArchiveCompanion
  <2>2. OneActiveRealm'
    BY <2>1
       DEF Moves, InScope, CompanionsInScope, RealmsInScope, Exists, Owned, OwnerRealms,
           ActiveRealms
  <2>3. CompanionsShareRealm'
    BY <2>1
       DEF Moves, InScope, CompanionsInScope, RealmsInScope, Exists, Owned, OwnerRealms,
           ActiveRealms
  <2>4. QED
    BY <2>2, <2>3
<1>11. ASSUME NEW o \in Owner, NEW c \in Companion, NEW e \in Expected, NEW x \in Companion,
             PutAwayCompanion(o, c, e, x), ~ArchiveCompanion(o, c, None)
       PROVE  SharedRealm'
  <2>1. /\ Owned(o, c) /\ Moves(c, "archived", 2) /\ UNCHANGED <<realms, bindings>>
        /\ HandsOver(o, c, x)
    BY <1>11, HandOverEffect, MoveEffect DEF PutAwayCompanion
  <2>2. OneActiveRealm'
    BY <2>1
       DEF HandsOver, EligibleReplacements, Moves, PointsTo, InScope, CompanionsInScope,
           RealmsInScope, Exists, Owned, OwnerRealms, ActiveRealms
  <2>3. CompanionsShareRealm'
    BY <2>1
       DEF HandsOver, EligibleReplacements, Moves, PointsTo, InScope, CompanionsInScope,
           RealmsInScope, Exists, Owned, OwnerRealms, ActiveRealms
  <2>4. QED
    BY <2>2, <2>3
<1>12. ASSUME NEW o \in Owner, NEW c \in Companion, NEW e \in Expected,
             RestoreCompanion(o, c, e), ~NoChange
       PROVE  SharedRealm'
  <2>1. Owned(o, c) /\ Moves(c, "active", 1) /\ UNCHANGED <<owners, realms, bindings>>
    BY <1>12, MoveEffect DEF RestoreCompanion
  <2>2. OneActiveRealm'
    BY <2>1
       DEF Moves, InScope, CompanionsInScope, RealmsInScope, Exists, Owned, OwnerRealms,
           ActiveRealms
  <2>3. CompanionsShareRealm'
    BY <2>1
       DEF Moves, InScope, CompanionsInScope, RealmsInScope, Exists, Owned, OwnerRealms,
           ActiveRealms
  <2>4. QED
    BY <2>2, <2>3
<1>13. ASSUME NEW o \in Owner, NEW c \in Companion, NEW e \in Expected, NEW r \in Realm,
             SetDefaultCompanion(o, c, e, r)
       PROVE  SharedRealm'
  <2>1. MakesDefault(o, c, r)
    BY <1>13, SetDefaultEffect
  <2>2. OneActiveRealm'
    BY <2>1
       DEF MakesDefault, Catalogs, Attaches, PointsTo, InScope, CompanionsInScope, RealmsInScope,
           Exists, Owned, OwnerRealms, ActiveRealms
  <2>3. CompanionsShareRealm'
    BY <2>1
       DEF MakesDefault, Catalogs, Attaches, PointsTo, InScope, CompanionsInScope, RealmsInScope,
           Exists, Owned, OwnerRealms, ActiveRealms
  <2>4. QED
    BY <2>2, <2>3
<1>14. ASSUME NEW o \in Owner, NEW c \in Companion, NEW allow \in BOOLEAN,
             DeleteCompanion(o, c, allow)
       PROVE  SharedRealm'
  <2>1. Deletes(o, c)
    BY <1>14, DeleteEffect
  <2>2. OneActiveRealm'
    BY <2>1
       DEF Deletes, PointsTo, NoCompanion, NoBinding, InScope, CompanionsInScope, RealmsInScope,
           Exists, Owned, OwnerRealms, ActiveRealms
  <2>3. CompanionsShareRealm'
    BY <2>1
       DEF Deletes, PointsTo, NoCompanion, NoBinding, InScope, CompanionsInScope, RealmsInScope,
           Exists, Owned, OwnerRealms, ActiveRealms
  <2>4. QED
    BY <2>2, <2>3
<1>15. ASSUME NEW o \in Owner, NEW c \in Companion, NEW d \in Device, NEW b \in Binding,
             Bind(o, c, d, b)
       PROVE  SharedRealm'
  BY <1>15
     DEF Bind, Unbound, Bindings, InScope, CompanionsInScope, RealmsInScope, Exists, Owned,
         OwnerRealms, ActiveRealms
<1>16. ASSUME NEW b \in Binding, BindingCommand(b)
       PROVE  SharedRealm'
  BY <1>16, BindingEffect
     DEF InScope, CompanionsInScope, RealmsInScope, Exists, Owned, OwnerRealms, ActiveRealms
<1>17. QED
  BY <1>1, <1>2, <1>3, <1>4, <1>5, <1>6, <1>7, <1>8, <1>9, <1>10, <1>11, <1>12, <1>13, <1>14,
     <1>15, <1>16, NextSteps

\* DefaultAnswers without the CASE of get_default_for_owner.
PointsAtActive ==
  \A o \in Owner : owners[o].default # None =>
    LET c == owners[o].default IN
    c \in Companion /\ Owned(o, c) /\ companions[c].state = "active" /\ companions[c].kind # "guard"

LEMMA IInvPoints == IInv => PointsAtActive
<1> SUFFICES ASSUME IInv, NEW o \in Owner, owners[o].default # None
             PROVE  LET c == owners[o].default IN
                    /\ c \in Companion /\ Owned(o, c)
                    /\ companions[c].state = "active" /\ companions[c].kind # "guard"
  BY DEF PointsAtActive
<1>1. owners[o].default \in Companion
  BY DEF IInv, TypeOK, OwnerRow
<1>2. QED
  BY <1>1 DEF IInv, DefaultAnswers, DefaultFor, Owned

\* Every command leaves a default pointer that answers.
LEMMA NextPointsAtActive ==
  ASSUME IInv, Next
  PROVE  PointsAtActive'
<1> USE NoneAssumption, IInvRows, IInvPoints DEF RowsTyped, PointsAtActive
<1>1. CASE NoChange
  BY <1>1 DEF NoChange, rows, Owned
<1>2. ASSUME NEW o \in Owner, NEW n \in Name, CreateOwner(o, n)
      PROVE  PointsAtActive'
  BY <1>2 DEF CreateOwner, Owners, Owned
<1>3. ASSUME NEW o \in Owner, NEW n \in Name, UpdateOwner(o, n) \/ RenameOwner(o, n)
      PROVE  PointsAtActive'
  BY <1>3, NameEffect DEF UpdateOwner, RenameOwner, Owned
<1>4. ASSUME NEW o \in Owner, NEW c \in Companion, NEW n \in Name, NEW r \in Realm,
             InitializeOwnerWorkspace(o, n, c, r)
      PROVE  PointsAtActive'
  <2>1. Initializes(o, n, c, r)
    BY <1>4, InitializeEffect
  <2>2. QED
    BY <2>1 DEF Initializes, NewCompanion, Owned
<1>5. ASSUME NEW o \in Owner, ArchiveOwner(o), ~NoChange
      PROVE  PointsAtActive'
  <2>1. Archives(o)
    BY <1>5, ArchiveEffect
  <2>2. QED
    BY <2>1 DEF Archives, Owned
<1>6. ASSUME NEW o \in Owner, DeleteOwner(o)
      PROVE  PointsAtActive'
  BY <1>6 DEF DeleteOwner, NoOwner, NoCompanion, NoRealm, NoBinding, Owners, Owned
<1>7. ASSUME NEW o \in Owner, NEW c \in Companion, NEW k \in Kind, NEW r \in Realm,
             AddCompanion(o, c, k, r)
      PROVE  PointsAtActive'
  <2>1. Provisions(o, c, k, r)
    BY <1>7, ProvisionEffect
  <2>2. QED
    BY <2>1 DEF Provisions, NewCompanion, Catalogs, PointsTo, Owned
<1>8. ASSUME NEW o \in Owner, NEW c \in Companion, NEW r \in Realm, EnsureCompanionRealm(o, c, r)
      PROVE  PointsAtActive'
  <2>1. Owned(o, c) /\ Catalogs(o, r) /\ Attaches(c, r) /\ UNCHANGED <<owners, bindings>>
    BY <1>8, RealmEffect, AttachEffect DEF EnsureCompanionRealm
  <2>2. QED
    BY <2>1 DEF Attaches, Catalogs, Owned
<1>9. ASSUME NEW o \in Owner, NEW c \in Companion, NEW e \in Expected, NEW x \in Companion,
             BeginRetirement(o, c, e, x), ~NoChange
      PROVE  PointsAtActive'
  <2>1. /\ Owned(o, c) /\ Moves(c, "retiring", 1) /\ UNCHANGED <<realms, bindings>>
        /\ HandsOver(o, c, x)
    BY <1>9, HandOverEffect, MoveEffect DEF BeginRetirement
  <2>2. QED
    BY <2>1 DEF HandsOver, EligibleReplacements, Moves, PointsTo, Owned
<1>10. ASSUME NEW o \in Owner, NEW c \in Companion, NEW e \in Expected,
             ArchiveCompanion(o, c, e), ~NoChange
       PROVE  PointsAtActive'
  <2>1. /\ Owned(o, c) /\ Moves(c, "archived", 1) /\ UNCHANGED <<owners, realms, bindings>>
        /\ owners[o].default # c
    BY <1>10, MoveEffect DEF ArchiveCompanion
  <2>2. QED
    BY <2>1 DEF Moves, Owned
<1>11. ASSUME NEW o \in Owner, NEW c \in Companion, NEW e \in Expected, NEW x \in Companion,
             PutAwayCompanion(o, c, e, x), ~ArchiveCompanion(o, c, None)
       PROVE  PointsAtActive'
  <2>1. /\ Owned(o, c) /\ Moves(c, "archived", 2) /\ UNCHANGED <<realms, bindings>>
        /\ HandsOver(o, c, x)
    BY <1>11, HandOverEffect, MoveEffect DEF PutAwayCompanion
  <2>2. QED
    BY <2>1 DEF HandsOver, EligibleReplacements, Moves, PointsTo, Owned
<1>12. ASSUME NEW o \in Owner, NEW c \in Companion, NEW e \in Expected,
             RestoreCompanion(o, c, e), ~NoChange
       PROVE  PointsAtActive'
  <2>1. Owned(o, c) /\ Moves(c, "active", 1) /\ UNCHANGED <<owners, realms, bindings>>
    BY <1>12, MoveEffect DEF RestoreCompanion
  <2>2. QED
    BY <2>1 DEF Moves, Owned
<1>13. ASSUME NEW o \in Owner, NEW c \in Companion, NEW e \in Expected, NEW r \in Realm,
             SetDefaultCompanion(o, c, e, r)
       PROVE  PointsAtActive'
  <2>1. MakesDefault(o, c, r)
    BY <1>13, SetDefaultEffect
  <2>2. QED
    BY <2>1 DEF MakesDefault, Catalogs, Attaches, PointsTo, Owned
<1>14. ASSUME NEW o \in Owner, NEW c \in Companion, NEW allow \in BOOLEAN,
             DeleteCompanion(o, c, allow)
       PROVE  PointsAtActive'
  <2>1. Deletes(o, c)
    BY <1>14, DeleteEffect
  <2>2. QED
    BY <2>1 DEF Deletes, PointsTo, NoCompanion, NoBinding, Owned
<1>15. ASSUME NEW o \in Owner, NEW c \in Companion, NEW d \in Device, NEW b \in Binding,
             Bind(o, c, d, b)
       PROVE  PointsAtActive'
  BY <1>15 DEF Bind, Unbound, Bindings, Owned
<1>16. ASSUME NEW b \in Binding, BindingCommand(b)
       PROVE  PointsAtActive'
  BY <1>16, BindingEffect DEF Owned
<1>17. QED
  BY <1>1, <1>2, <1>3, <1>4, <1>5, <1>6, <1>7, <1>8, <1>9, <1>10, <1>11, <1>12, <1>13, <1>14,
     <1>15, <1>16, NextSteps

LEMMA NextDefaultAnswers == ASSUME IInv, Next PROVE DefaultAnswers'
BY NextPointsAtActive DEF PointsAtActive, DefaultAnswers, DefaultFor

\* Every command but bind leaves no binding active that was not.
LEMMA NoNewBinding ==
  ASSUME OneGuard,
         \A b \in Binding : bindings'[b].state = "active" =>
           /\ bindings[b].state = "active"
           /\ bindings'[b].device = bindings[b].device
           /\ bindings'[b].guard = bindings[b].guard
  PROVE  OneGuard'
BY DEF OneGuard

\* Every command leaves one active binding per device and per guard.
LEMMA NextOneGuard ==
  ASSUME IInv, Next
  PROVE  OneGuard'
<1> USE IInvRows DEF IInv, RowsTyped
<1>1. CASE NoChange
  BY <1>1 DEF NoChange, rows, OneGuard
<1>2. ASSUME NEW o \in Owner, NEW n \in Name, CreateOwner(o, n)
      PROVE  OneGuard'
  BY <1>2, NoNewBinding DEF CreateOwner
<1>3. ASSUME NEW o \in Owner, NEW n \in Name, UpdateOwner(o, n) \/ RenameOwner(o, n)
      PROVE  OneGuard'
  BY <1>3, NoNewBinding DEF UpdateOwner, RenameOwner
<1>4. ASSUME NEW o \in Owner, NEW c \in Companion, NEW n \in Name, NEW r \in Realm,
             InitializeOwnerWorkspace(o, n, c, r)
      PROVE  OneGuard'
  BY <1>4, NoNewBinding, InitializeEffect DEF Initializes
<1>5. ASSUME NEW o \in Owner, ArchiveOwner(o), ~NoChange
      PROVE  OneGuard'
  BY <1>5, NoNewBinding, ArchiveEffect DEF Archives
<1>6. ASSUME NEW o \in Owner, DeleteOwner(o)
      PROVE  OneGuard'
  BY <1>6, NoNewBinding DEF DeleteOwner, NoBinding
<1>7. ASSUME NEW o \in Owner, NEW c \in Companion, NEW k \in Kind, NEW r \in Realm,
             AddCompanion(o, c, k, r)
      PROVE  OneGuard'
  BY <1>7, NoNewBinding, ProvisionEffect DEF Provisions
<1>8. ASSUME NEW o \in Owner, NEW c \in Companion, NEW r \in Realm, EnsureCompanionRealm(o, c, r)
      PROVE  OneGuard'
  BY <1>8, NoNewBinding DEF EnsureCompanionRealm
<1>9. ASSUME NEW o \in Owner, NEW c \in Companion, NEW e \in Expected, NEW x \in Companion,
             BeginRetirement(o, c, e, x), ~NoChange
      PROVE  OneGuard'
  BY <1>9, NoNewBinding DEF BeginRetirement
<1>10. ASSUME NEW o \in Owner, NEW c \in Companion, NEW e \in Expected,
             ArchiveCompanion(o, c, e), ~NoChange
       PROVE  OneGuard'
  BY <1>10, NoNewBinding DEF ArchiveCompanion
<1>11. ASSUME NEW o \in Owner, NEW c \in Companion, NEW e \in Expected, NEW x \in Companion,
             PutAwayCompanion(o, c, e, x), ~ArchiveCompanion(o, c, None)
       PROVE  OneGuard'
  BY <1>11, NoNewBinding DEF PutAwayCompanion
<1>12. ASSUME NEW o \in Owner, NEW c \in Companion, NEW e \in Expected,
             RestoreCompanion(o, c, e), ~NoChange
       PROVE  OneGuard'
  BY <1>12, NoNewBinding DEF RestoreCompanion
<1>13. ASSUME NEW o \in Owner, NEW c \in Companion, NEW e \in Expected, NEW r \in Realm,
             SetDefaultCompanion(o, c, e, r)
       PROVE  OneGuard'
  BY <1>13, NoNewBinding, SetDefaultEffect DEF MakesDefault
<1>14. ASSUME NEW o \in Owner, NEW c \in Companion, NEW allow \in BOOLEAN,
             DeleteCompanion(o, c, allow)
       PROVE  OneGuard'
  BY <1>14, NoNewBinding, DeleteEffect DEF Deletes, NoBinding
<1>15. ASSUME NEW o \in Owner, NEW c \in Companion, NEW d \in Device, NEW b \in Binding,
             Bind(o, c, d, b)
       PROVE  OneGuard'
  BY <1>15 DEF Bind, Unbound, Bindings, OneGuard
<1>16. ASSUME NEW b \in Binding, BindingCommand(b)
       PROVE  OneGuard'
  BY <1>16, NoNewBinding, BindingEffect
<1>17. QED
  BY <1>1, <1>2, <1>3, <1>4, <1>5, <1>6, <1>7, <1>8, <1>9, <1>10, <1>11, <1>12, <1>13, <1>14,
     <1>15, <1>16, NextSteps

\* The inductive invariant.
LEMMA InductiveInvariant == Spec => []IInv
<1>1. Init => IInv
  <2> SUFFICES ASSUME Init PROVE IInv
    OBVIOUS
  <2>1. TypeOK
    BY NoneAssumption
       DEF Init, TypeOK, OwnerRow, CompanionRow, RealmRow, BindingRow,
           NoOwner, NoCompanion, NoRealm, NoBinding
  <2>2. InScope /\ SharedRealm /\ DefaultAnswers /\ OneGuard
    BY DEF Init, InScope, CompanionsInScope, RealmsInScope, BindingsInScope,
           SharedRealm, OneActiveRealm, CompanionsShareRealm, DefaultAnswers, OneGuard,
           NoOwner, NoCompanion, NoRealm, NoBinding
  <2>3. QED
    BY <2>1, <2>2 DEF IInv
<1>2. IInv /\ [Next]_vars => IInv'
  <2> SUFFICES ASSUME IInv, [Next]_vars PROVE IInv'
    OBVIOUS
  <2>1. CASE UNCHANGED vars
    BY <2>1 DEF vars, IInv, TypeOK, InScope, CompanionsInScope, RealmsInScope, BindingsInScope,
                SharedRealm, OneActiveRealm, CompanionsShareRealm, DefaultAnswers, OneGuard,
                Exists, Owned, OwnerRealms, ActiveRealms, DefaultFor
  <2>2. CASE Next
    BY <2>2, NextTypeOK, NextInScope, NextSharedRealm, NextDefaultAnswers, NextOneGuard DEF IInv
  <2>3. QED
    BY <2>1, <2>2
<1>3. QED
  BY <1>1, <1>2, PTL DEF Spec

\* The invariants of OwnerWorkspace, for any number of Owners, Companions, Realms,
\* bindings and commands: a default pointer answers, rows stay in their Owner's
\* scope, an active Owner's Companions share its one active Realm, and the indexes
\* over active bindings hold.
THEOREM Safe == Spec => [](InScope /\ SharedRealm /\ DefaultAnswers /\ OneGuard)
<1>1. IInv => InScope /\ SharedRealm /\ DefaultAnswers /\ OneGuard
  BY DEF IInv
<1>2. QED
  BY <1>1, InductiveInvariant, PTL

\* ensure_memory_realm, archive, restore and deletion, in any order and for any
\* number of Companions: an active Owner has one active Realm and all share it.
THEOREM RealmIsShared == Spec => []SharedRealm
BY Safe, PTL

-----------------------------------------------------------------------------
(* What no command may do. *)

LEMMA MayMoveFrom ==
  ASSUME companions \in Companions, NEW c \in Companion, NEW t, NEW e, MayMove(c, t, e)
  PROVE  /\ t = "retiring" => companions[c].state = "active"
         /\ t = "archived" => companions[c].state = "retiring"
         /\ t = "active" => companions[c].state = "archived"
<1>1. companions[c].state \in {"absent", "active", "retiring", "archived"}
  BY DEF Companions, CompanionRow
<1>2. t \in LifecycleTransitions[companions[c].state]
  BY DEF MayMove
<1>3. QED
  BY <1>1, <1>2 DEF LifecycleTransitions

LEMMA RevisionsAreNumbers ==
  RowsTyped => /\ \A o \in Owner : /\ owners[o].revision \in Nat
                                  /\ owners[o].default \in Companion \cup {None}
               /\ \A c \in Companion : companions[c].revision \in Nat
BY DEF RowsTyped, Owners, OwnerRow, Companions, CompanionRow

\* No command moves a pointer, a status or a state under an unchanged revision.
LEMMA NextRevisionMoves ==
  ASSUME IInv, Next
  PROVE  RevisionMovesStep
<1> USE NoneAssumption, IInvRows, RevisionsAreNumbers DEF RowsTyped, RevisionMovesStep
<1>1. CASE NoChange
  BY <1>1 DEF NoChange, rows, Survives, Lives, Exists
<1>2. ASSUME NEW o \in Owner, NEW n \in Name, CreateOwner(o, n)
      PROVE  RevisionMovesStep
  BY <1>2 DEF CreateOwner, Owners, Survives, Lives, Exists
<1>3. ASSUME NEW o \in Owner, NEW n \in Name, UpdateOwner(o, n) \/ RenameOwner(o, n)
      PROVE  RevisionMovesStep
  BY <1>3, NameEffect DEF UpdateOwner, RenameOwner, Survives, Lives, Exists
<1>4. ASSUME NEW o \in Owner, NEW c \in Companion, NEW n \in Name, NEW r \in Realm,
             InitializeOwnerWorkspace(o, n, c, r)
      PROVE  RevisionMovesStep
  <2>1. Initializes(o, n, c, r)
    BY <1>4, InitializeEffect
  <2>2. QED
    BY <2>1 DEF Initializes, NewCompanion, Survives, Lives, Exists
<1>5. ASSUME NEW o \in Owner, ArchiveOwner(o), ~NoChange
      PROVE  RevisionMovesStep
  <2>1. Archives(o)
    BY <1>5, ArchiveEffect
  <2>2. QED
    BY <2>1 DEF Archives, Survives, Lives, Exists
<1>6. ASSUME NEW o \in Owner, DeleteOwner(o)
      PROVE  RevisionMovesStep
  BY <1>6
     DEF DeleteOwner, NoOwner, NoCompanion, NoRealm, NoBinding, Owners, Survives, Lives, Exists
<1>7. ASSUME NEW o \in Owner, NEW c \in Companion, NEW k \in Kind, NEW r \in Realm,
             AddCompanion(o, c, k, r)
      PROVE  RevisionMovesStep
  <2>1. Provisions(o, c, k, r)
    BY <1>7, ProvisionEffect
  <2>2. QED
    BY <2>1 DEF Provisions, NewCompanion, Catalogs, PointsTo, Survives, Lives, Exists
<1>8. ASSUME NEW o \in Owner, NEW c \in Companion, NEW r \in Realm, EnsureCompanionRealm(o, c, r)
      PROVE  RevisionMovesStep
  <2>1. Owned(o, c) /\ Catalogs(o, r) /\ Attaches(c, r) /\ UNCHANGED <<owners, bindings>>
    BY <1>8, RealmEffect, AttachEffect DEF EnsureCompanionRealm
  <2>2. QED
    BY <2>1 DEF Attaches, Catalogs, Survives, Lives, Exists
<1>9. ASSUME NEW o \in Owner, NEW c \in Companion, NEW e \in Expected, NEW x \in Companion,
             BeginRetirement(o, c, e, x), ~NoChange
      PROVE  RevisionMovesStep
  <2>1. /\ Owned(o, c) /\ Moves(c, "retiring", 1) /\ UNCHANGED <<realms, bindings>>
        /\ HandsOver(o, c, x)
        /\ companions[c].state = "active"
    BY <1>9, HandOverEffect, MoveEffect, MayMoveFrom DEF BeginRetirement
  <2>2. QED
    BY <2>1 DEF HandsOver, EligibleReplacements, Moves, PointsTo, Survives, Lives, Exists
<1>10. ASSUME NEW o \in Owner, NEW c \in Companion, NEW e \in Expected,
             ArchiveCompanion(o, c, e), ~NoChange
       PROVE  RevisionMovesStep
  <2>1. /\ Owned(o, c) /\ Moves(c, "archived", 1) /\ UNCHANGED <<owners, realms, bindings>>
        /\ owners[o].default # c
        /\ companions[c].state = "retiring"
    BY <1>10, MoveEffect, MayMoveFrom DEF ArchiveCompanion
  <2>2. QED
    BY <2>1 DEF Moves, Survives, Lives, Exists
<1>11. ASSUME NEW o \in Owner, NEW c \in Companion, NEW e \in Expected, NEW x \in Companion,
             PutAwayCompanion(o, c, e, x), ~ArchiveCompanion(o, c, None)
       PROVE  RevisionMovesStep
  <2>1. /\ Owned(o, c) /\ Moves(c, "archived", 2) /\ UNCHANGED <<realms, bindings>>
        /\ HandsOver(o, c, x)
        /\ companions[c].state = "active"
    BY <1>11, HandOverEffect, MoveEffect, MayMoveFrom DEF PutAwayCompanion
  <2>2. QED
    BY <2>1 DEF HandsOver, EligibleReplacements, Moves, PointsTo, Survives, Lives, Exists
<1>12. ASSUME NEW o \in Owner, NEW c \in Companion, NEW e \in Expected,
             RestoreCompanion(o, c, e), ~NoChange
       PROVE  RevisionMovesStep
  <2>1. /\ Owned(o, c) /\ Moves(c, "active", 1) /\ UNCHANGED <<owners, realms, bindings>>
        /\ companions[c].state = "archived"
    BY <1>12, MoveEffect, MayMoveFrom DEF RestoreCompanion
  <2>2. QED
    BY <2>1 DEF Moves, Survives, Lives, Exists
<1>13. ASSUME NEW o \in Owner, NEW c \in Companion, NEW e \in Expected, NEW r \in Realm,
             SetDefaultCompanion(o, c, e, r)
       PROVE  RevisionMovesStep
  <2>1. MakesDefault(o, c, r)
    BY <1>13, SetDefaultEffect
  <2>2. QED
    BY <2>1 DEF MakesDefault, Catalogs, Attaches, PointsTo, Survives, Lives, Exists
<1>14. ASSUME NEW o \in Owner, NEW c \in Companion, NEW allow \in BOOLEAN,
             DeleteCompanion(o, c, allow)
       PROVE  RevisionMovesStep
  <2>1. Deletes(o, c)
    BY <1>14, DeleteEffect
  <2>2. QED
    BY <2>1 DEF Deletes, PointsTo, NoCompanion, NoBinding, Survives, Lives, Exists
<1>15. ASSUME NEW o \in Owner, NEW c \in Companion, NEW d \in Device, NEW b \in Binding,
             Bind(o, c, d, b)
       PROVE  RevisionMovesStep
  BY <1>15 DEF Bind, Unbound, Bindings, Survives, Lives, Exists
<1>16. ASSUME NEW b \in Binding, BindingCommand(b)
       PROVE  RevisionMovesStep
  BY <1>16, BindingEffect DEF Survives, Lives, Exists
<1>17. QED
  BY <1>1, <1>2, <1>3, <1>4, <1>5, <1>6, <1>7, <1>8, <1>9, <1>10, <1>11, <1>12, <1>13, <1>14,
     <1>15, <1>16, NextSteps

LEMMA AbsentPointsNowhere ==
  ASSUME IInv, NEW o \in Owner, ~Exists(o)
  PROVE  owners[o].default = None
BY IInvPoints DEF IInv, InScope, CompanionsInScope, PointsAtActive, Owned

\* No command drops a default pointer of an Owner that stays active.
LEMMA NextKeepsDefault ==
  ASSUME IInv, Next
  PROVE  KeepsDefaultStep
<1> USE NoneAssumption, IInvRows, RevisionsAreNumbers DEF RowsTyped, KeepsDefaultStep
<1>1. CASE NoChange
  BY <1>1 DEF NoChange, rows, Exists
<1>2. ASSUME NEW o \in Owner, NEW n \in Name, CreateOwner(o, n)
      PROVE  KeepsDefaultStep
  <2>1. owners[o].default = None
    BY <1>2, AbsentPointsNowhere DEF CreateOwner
  <2>2. QED
    BY <1>2, <2>1 DEF CreateOwner, Owners
<1>3. ASSUME NEW o \in Owner, NEW n \in Name, UpdateOwner(o, n) \/ RenameOwner(o, n)
      PROVE  KeepsDefaultStep
  BY <1>3, NameEffect DEF UpdateOwner, RenameOwner, Exists
<1>4. ASSUME NEW o \in Owner, NEW c \in Companion, NEW n \in Name, NEW r \in Realm,
             InitializeOwnerWorkspace(o, n, c, r)
      PROVE  KeepsDefaultStep
  <2>1. Initializes(o, n, c, r)
    BY <1>4, InitializeEffect
  <2>2. QED
    BY <2>1 DEF Initializes, NewCompanion, Exists
<1>5. ASSUME NEW o \in Owner, ArchiveOwner(o), ~NoChange
      PROVE  KeepsDefaultStep
  <2>1. Archives(o)
    BY <1>5, ArchiveEffect
  <2>2. QED
    BY <2>1 DEF Archives, Exists
<1>6. ASSUME NEW o \in Owner, DeleteOwner(o)
      PROVE  KeepsDefaultStep
  BY <1>6 DEF DeleteOwner, NoOwner, NoCompanion, NoRealm, NoBinding, Owners, Exists
<1>7. ASSUME NEW o \in Owner, NEW c \in Companion, NEW k \in Kind, NEW r \in Realm,
             AddCompanion(o, c, k, r)
      PROVE  KeepsDefaultStep
  <2>1. Provisions(o, c, k, r)
    BY <1>7, ProvisionEffect
  <2>2. QED
    BY <2>1 DEF Provisions, NewCompanion, Catalogs, PointsTo, Exists
<1>8. ASSUME NEW o \in Owner, NEW c \in Companion, NEW r \in Realm, EnsureCompanionRealm(o, c, r)
      PROVE  KeepsDefaultStep
  <2>1. Owned(o, c) /\ Catalogs(o, r) /\ Attaches(c, r) /\ UNCHANGED <<owners, bindings>>
    BY <1>8, RealmEffect, AttachEffect DEF EnsureCompanionRealm
  <2>2. QED
    BY <2>1 DEF Attaches, Catalogs, Exists
<1>9. ASSUME NEW o \in Owner, NEW c \in Companion, NEW e \in Expected, NEW x \in Companion,
             BeginRetirement(o, c, e, x), ~NoChange
      PROVE  KeepsDefaultStep
  <2>1. /\ Owned(o, c) /\ Moves(c, "retiring", 1) /\ UNCHANGED <<realms, bindings>>
        /\ HandsOver(o, c, x)
        /\ companions[c].state = "active"
    BY <1>9, HandOverEffect, MoveEffect, MayMoveFrom DEF BeginRetirement
  <2>2. QED
    BY <2>1 DEF HandsOver, EligibleReplacements, Moves, PointsTo, Exists
<1>10. ASSUME NEW o \in Owner, NEW c \in Companion, NEW e \in Expected,
             ArchiveCompanion(o, c, e), ~NoChange
       PROVE  KeepsDefaultStep
  <2>1. /\ Owned(o, c) /\ Moves(c, "archived", 1) /\ UNCHANGED <<owners, realms, bindings>>
        /\ owners[o].default # c
        /\ companions[c].state = "retiring"
    BY <1>10, MoveEffect, MayMoveFrom DEF ArchiveCompanion
  <2>2. QED
    BY <2>1 DEF Moves, Exists
<1>11. ASSUME NEW o \in Owner, NEW c \in Companion, NEW e \in Expected, NEW x \in Companion,
             PutAwayCompanion(o, c, e, x), ~ArchiveCompanion(o, c, None)
       PROVE  KeepsDefaultStep
  <2>1. /\ Owned(o, c) /\ Moves(c, "archived", 2) /\ UNCHANGED <<realms, bindings>>
        /\ HandsOver(o, c, x)
        /\ companions[c].state = "active"
    BY <1>11, HandOverEffect, MoveEffect, MayMoveFrom DEF PutAwayCompanion
  <2>2. QED
    BY <2>1 DEF HandsOver, EligibleReplacements, Moves, PointsTo, Exists
<1>12. ASSUME NEW o \in Owner, NEW c \in Companion, NEW e \in Expected,
             RestoreCompanion(o, c, e), ~NoChange
       PROVE  KeepsDefaultStep
  <2>1. /\ Owned(o, c) /\ Moves(c, "active", 1) /\ UNCHANGED <<owners, realms, bindings>>
        /\ companions[c].state = "archived"
    BY <1>12, MoveEffect, MayMoveFrom DEF RestoreCompanion
  <2>2. QED
    BY <2>1 DEF Moves, Exists
<1>13. ASSUME NEW o \in Owner, NEW c \in Companion, NEW e \in Expected, NEW r \in Realm,
             SetDefaultCompanion(o, c, e, r)
       PROVE  KeepsDefaultStep
  <2>1. MakesDefault(o, c, r)
    BY <1>13, SetDefaultEffect
  <2>2. QED
    BY <2>1 DEF MakesDefault, Catalogs, Attaches, PointsTo, Exists
<1>14. ASSUME NEW o \in Owner, NEW c \in Companion, NEW allow \in BOOLEAN,
             DeleteCompanion(o, c, allow)
       PROVE  KeepsDefaultStep
  <2>1. Deletes(o, c)
    BY <1>14, DeleteEffect
  <2>2. QED
    BY <2>1 DEF Deletes, PointsTo, NoCompanion, NoBinding, Exists
<1>15. ASSUME NEW o \in Owner, NEW c \in Companion, NEW d \in Device, NEW b \in Binding,
             Bind(o, c, d, b)
       PROVE  KeepsDefaultStep
  BY <1>15 DEF Bind, Unbound, Bindings, Exists
<1>16. ASSUME NEW b \in Binding, BindingCommand(b)
       PROVE  KeepsDefaultStep
  BY <1>16, BindingEffect DEF Exists
<1>17. QED
  BY <1>1, <1>2, <1>3, <1>4, <1>5, <1>6, <1>7, <1>8, <1>9, <1>10, <1>11, <1>12, <1>13, <1>14,
     <1>15, <1>16, NextSteps

\* No command skips the drain.
LEMMA NextRetiresBeforeArchive ==
  ASSUME IInv, Next
  PROVE  RetiresBeforeArchiveStep
<1> USE NoneAssumption, IInvRows, RevisionsAreNumbers DEF RowsTyped, RetiresBeforeArchiveStep
<1>1. CASE NoChange
  BY <1>1 DEF NoChange, rows, Lives
<1>2. ASSUME NEW o \in Owner, NEW n \in Name, CreateOwner(o, n)
      PROVE  RetiresBeforeArchiveStep
  BY <1>2 DEF CreateOwner, Owners, Lives
<1>3. ASSUME NEW o \in Owner, NEW n \in Name, UpdateOwner(o, n) \/ RenameOwner(o, n)
      PROVE  RetiresBeforeArchiveStep
  BY <1>3, NameEffect DEF UpdateOwner, RenameOwner, Lives
<1>4. ASSUME NEW o \in Owner, NEW c \in Companion, NEW n \in Name, NEW r \in Realm,
             InitializeOwnerWorkspace(o, n, c, r)
      PROVE  RetiresBeforeArchiveStep
  <2>1. Initializes(o, n, c, r)
    BY <1>4, InitializeEffect
  <2>2. QED
    BY <2>1 DEF Initializes, NewCompanion, Lives
<1>5. ASSUME NEW o \in Owner, ArchiveOwner(o), ~NoChange
      PROVE  RetiresBeforeArchiveStep
  <2>1. Archives(o) /\ facts' = {<<"owner.archived", o>>}
    BY <1>5, ArchiveEffect DEF ArchiveOwner
  <2>2. QED
    BY <2>1 DEF Archives, Lives, Owned
<1>6. ASSUME NEW o \in Owner, DeleteOwner(o)
      PROVE  RetiresBeforeArchiveStep
  BY <1>6 DEF DeleteOwner, NoOwner, NoCompanion, NoRealm, NoBinding, Owners, Lives
<1>7. ASSUME NEW o \in Owner, NEW c \in Companion, NEW k \in Kind, NEW r \in Realm,
             AddCompanion(o, c, k, r)
      PROVE  RetiresBeforeArchiveStep
  <2>1. Provisions(o, c, k, r)
    BY <1>7, ProvisionEffect
  <2>2. QED
    BY <2>1 DEF Provisions, NewCompanion, Catalogs, PointsTo, Lives
<1>8. ASSUME NEW o \in Owner, NEW c \in Companion, NEW r \in Realm, EnsureCompanionRealm(o, c, r)
      PROVE  RetiresBeforeArchiveStep
  <2>1. Owned(o, c) /\ Catalogs(o, r) /\ Attaches(c, r) /\ UNCHANGED <<owners, bindings>>
    BY <1>8, RealmEffect, AttachEffect DEF EnsureCompanionRealm
  <2>2. QED
    BY <2>1 DEF Attaches, Catalogs, Lives
<1>9. ASSUME NEW o \in Owner, NEW c \in Companion, NEW e \in Expected, NEW x \in Companion,
             BeginRetirement(o, c, e, x), ~NoChange
      PROVE  RetiresBeforeArchiveStep
  <2>1. /\ Owned(o, c) /\ Moves(c, "retiring", 1) /\ UNCHANGED <<realms, bindings>>
        /\ HandsOver(o, c, x)
        /\ companions[c].state = "active"
    BY <1>9, HandOverEffect, MoveEffect, MayMoveFrom DEF BeginRetirement
  <2>2. QED
    BY <2>1 DEF HandsOver, EligibleReplacements, Moves, PointsTo, Lives
<1>10. ASSUME NEW o \in Owner, NEW c \in Companion, NEW e \in Expected,
             ArchiveCompanion(o, c, e), ~NoChange
       PROVE  RetiresBeforeArchiveStep
  <2>1. /\ Owned(o, c) /\ Moves(c, "archived", 1) /\ UNCHANGED <<owners, realms, bindings>>
        /\ owners[o].default # c
        /\ companions[c].state = "retiring"
    BY <1>10, MoveEffect, MayMoveFrom DEF ArchiveCompanion
  <2>2. QED
    BY <2>1 DEF Moves, Lives
<1>11. ASSUME NEW o \in Owner, NEW c \in Companion, NEW e \in Expected, NEW x \in Companion,
             PutAwayCompanion(o, c, e, x), ~ArchiveCompanion(o, c, None)
       PROVE  RetiresBeforeArchiveStep
  <2>1. Moves(c, "archived", 2) /\ <<"companion.retirement_begun", c>> \in facts'
    BY <1>11, MoveEffect DEF PutAwayCompanion, RetirementFacts
  <2>2. QED
    BY <2>1 DEF Moves, Lives
<1>12. ASSUME NEW o \in Owner, NEW c \in Companion, NEW e \in Expected,
             RestoreCompanion(o, c, e), ~NoChange
       PROVE  RetiresBeforeArchiveStep
  <2>1. /\ Owned(o, c) /\ Moves(c, "active", 1) /\ UNCHANGED <<owners, realms, bindings>>
        /\ companions[c].state = "archived"
    BY <1>12, MoveEffect, MayMoveFrom DEF RestoreCompanion
  <2>2. QED
    BY <2>1 DEF Moves, Lives
<1>13. ASSUME NEW o \in Owner, NEW c \in Companion, NEW e \in Expected, NEW r \in Realm,
             SetDefaultCompanion(o, c, e, r)
       PROVE  RetiresBeforeArchiveStep
  <2>1. MakesDefault(o, c, r)
    BY <1>13, SetDefaultEffect
  <2>2. QED
    BY <2>1 DEF MakesDefault, Catalogs, Attaches, PointsTo, Lives
<1>14. ASSUME NEW o \in Owner, NEW c \in Companion, NEW allow \in BOOLEAN,
             DeleteCompanion(o, c, allow)
       PROVE  RetiresBeforeArchiveStep
  <2>1. Deletes(o, c)
    BY <1>14, DeleteEffect
  <2>2. QED
    BY <2>1 DEF Deletes, PointsTo, NoCompanion, NoBinding, Lives
<1>15. ASSUME NEW o \in Owner, NEW c \in Companion, NEW d \in Device, NEW b \in Binding,
             Bind(o, c, d, b)
       PROVE  RetiresBeforeArchiveStep
  BY <1>15 DEF Bind, Unbound, Bindings, Lives
<1>16. ASSUME NEW b \in Binding, BindingCommand(b)
       PROVE  RetiresBeforeArchiveStep
  BY <1>16, BindingEffect DEF Lives
<1>17. QED
  BY <1>1, <1>2, <1>3, <1>4, <1>5, <1>6, <1>7, <1>8, <1>9, <1>10, <1>11, <1>12, <1>13, <1>14,
     <1>15, <1>16, NextSteps

\* The facts that say something about a transition: any other set tells no lie.
Decisions ==
  {"companion.retirement_begun", "companion.archived", "companion.restored",
   "owner.default_companion_changed", "memory_realm.cataloged"}

LEMMA QuietFacts ==
  ASSUME \A x \in Subject, decision \in Decisions : <<decision, x>> \notin facts'
  PROVE  FactsTellTheTruthStep
BY DEF Subject, Decisions, FactsTellTheTruthStep

\* What a retirement says of the pointer it hands over.
LEMMA RetirementTells ==
  ASSUME IInv, NEW o \in Owner, NEW c \in Companion, NEW x \in Companion, HandsOver(o, c, x)
  PROVE  owners[o].default = c => owners'[o].default \notin {c, None}
BY NoneAssumption DEF HandsOver, EligibleReplacements, PointsTo

\* What using a Realm says of it.
LEMMA CatalogTells ==
  ASSUME IInv, NEW o \in Owner, NEW r \in Realm, EnsureMemoryRealm(o, r), ActiveRealms(o) = {}
  PROVE  realms[r].status = "absent" /\ realms'[r].status = "active"
BY IInvRows DEF RowsTyped, Realms, EnsureMemoryRealm

LEMMA NextFactsTellTheTruth ==
  ASSUME IInv, Next
  PROVE  FactsTellTheTruthStep
<1> USE IInvRows DEF RowsTyped
<1>1. CASE NoChange
  BY <1>1, QuietFacts DEF NoChange
<1>2. ASSUME NEW o \in Owner, NEW n \in Name,
             CreateOwner(o, n) \/ UpdateOwner(o, n) \/ RenameOwner(o, n)
      PROVE  FactsTellTheTruthStep
  BY <1>2, QuietFacts DEF CreateOwner, UpdateOwner, RenameOwner, Decisions
<1>3. ASSUME NEW o \in Owner, NEW c \in Companion, NEW n \in Name, NEW r \in Realm,
             InitializeOwnerWorkspace(o, n, c, r)
      PROVE  FactsTellTheTruthStep
  BY <1>3, QuietFacts DEF InitializeOwnerWorkspace, Decisions
<1>4. ASSUME NEW o \in Owner, ArchiveOwner(o) \/ DeleteOwner(o), ~NoChange
      PROVE  FactsTellTheTruthStep
  BY <1>4, QuietFacts DEF ArchiveOwner, DeleteOwner, Decisions
<1>5. ASSUME NEW o \in Owner, NEW c \in Companion, NEW k \in Kind, NEW r \in Realm,
             AddCompanion(o, c, k, r)
      PROVE  FactsTellTheTruthStep
  BY <1>5, QuietFacts DEF AddCompanion, Decisions
<1>6. ASSUME NEW o \in Owner, NEW c \in Companion, NEW r \in Realm, EnsureCompanionRealm(o, c, r)
      PROVE  FactsTellTheTruthStep
  BY <1>6, CatalogTells DEF EnsureCompanionRealm, RealmFacts, FactsTellTheTruthStep
<1>7. ASSUME NEW o \in Owner, NEW c \in Companion, NEW e \in Expected, NEW x \in Companion,
             BeginRetirement(o, c, e, x), ~NoChange
      PROVE  FactsTellTheTruthStep
  <2>1. /\ HandsOver(o, c, x) /\ Moves(c, "retiring", 1) /\ companions[c].state = "active"
        /\ facts' = RetirementFacts(o, c)
    BY <1>7, HandOverEffect, MoveEffect, MayMoveFrom DEF BeginRetirement
  <2>2. QED
    BY <2>1, RetirementTells DEF Moves, RetirementFacts, FactsTellTheTruthStep
<1>8. ASSUME NEW o \in Owner, NEW c \in Companion, NEW e \in Expected,
             ArchiveCompanion(o, c, e), ~NoChange
      PROVE  FactsTellTheTruthStep
  <2>1. /\ Moves(c, "archived", 1) /\ companions[c].state = "retiring"
        /\ facts' = {<<"companion.archived", c>>}
    BY <1>8, MoveEffect, MayMoveFrom DEF ArchiveCompanion
  <2>2. QED
    BY <2>1 DEF Moves, FactsTellTheTruthStep
<1>9. ASSUME NEW o \in Owner, NEW c \in Companion, NEW e \in Expected, NEW x \in Companion,
             PutAwayCompanion(o, c, e, x), ~ArchiveCompanion(o, c, None)
      PROVE  FactsTellTheTruthStep
  <2>1. /\ HandsOver(o, c, x) /\ Moves(c, "archived", 2) /\ companions[c].state = "active"
        /\ facts' = RetirementFacts(o, c) \cup {<<"companion.archived", c>>}
    BY <1>9, HandOverEffect, MoveEffect, MayMoveFrom DEF PutAwayCompanion
  <2>2. QED
    BY <2>1, RetirementTells DEF Moves, RetirementFacts, FactsTellTheTruthStep
<1>10. ASSUME NEW o \in Owner, NEW c \in Companion, NEW e \in Expected,
              RestoreCompanion(o, c, e), ~NoChange
       PROVE  FactsTellTheTruthStep
  <2>1. /\ Moves(c, "active", 1) /\ companions[c].state = "archived"
        /\ facts' = {<<"companion.restored", c>>}
    BY <1>10, MoveEffect, MayMoveFrom DEF RestoreCompanion
  <2>2. QED
    BY <2>1 DEF Moves, FactsTellTheTruthStep
<1>11. ASSUME NEW o \in Owner, NEW c \in Companion, NEW e \in Expected, NEW r \in Realm,
              SetDefaultCompanion(o, c, e, r)
       PROVE  FactsTellTheTruthStep
  <2>1. EnsureMemoryRealm(o, r)
    BY <1>11 DEF SetDefaultCompanion
  <2>2. CASE facts' = RealmFacts(o, r)
    BY <2>1, <2>2, CatalogTells DEF RealmFacts, FactsTellTheTruthStep
  <2>3. CASE /\ owners[o].default # c /\ owners'[o].default = c
             /\ facts' = RealmFacts(o, r) \cup {<<"owner.default_companion_changed", o>>}
    BY <2>1, <2>3, CatalogTells, NoneAssumption DEF RealmFacts, FactsTellTheTruthStep
  <2>4. QED
    BY <1>11, <2>2, <2>3, PointerEffect DEF SetDefaultCompanion, PointsTo
<1>12. ASSUME NEW o \in Owner, NEW c \in Companion, NEW allow \in BOOLEAN,
              DeleteCompanion(o, c, allow)
       PROVE  FactsTellTheTruthStep
  BY <1>12, QuietFacts DEF DeleteCompanion, Decisions
<1>13. ASSUME NEW o \in Owner, NEW c \in Companion, NEW d \in Device, NEW b \in Binding,
              Bind(o, c, d, b)
       PROVE  FactsTellTheTruthStep
  BY <1>13, QuietFacts DEF Bind, Decisions
<1>14. ASSUME NEW b \in Binding, BindingCommand(b)
       PROVE  FactsTellTheTruthStep
  <2>1. \/ facts' = {}
        \/ facts' \in {{<<"guard.policy.updated", b>>}, {<<"guard.binding.disabled", b>>},
                       {<<"guard.binding.revoked", b>>}}
    BY <1>14 DEF BindingCommand, UpdatePolicy, DisableBinding, DisableFact, NoChange
  <2>2. QED
    BY <2>1, QuietFacts DEF Decisions
<1>15. QED
  BY <1>1, <1>2, <1>3, <1>4, <1>5, <1>6, <1>7, <1>8, <1>9, <1>10, <1>11, <1>12, <1>13, <1>14,
     NextSteps

\* A row that stays as it was needs no fact.
LEMMA SameRowIsTold ==
  /\ \A p \in Owner : owners'[p] = owners[p] => OwnerIsTold(p)
  /\ \A x \in Companion : companions'[x].state = companions[x].state => CompanionIsTold(x)
  /\ \A s \in Realm : realms'[s].status = realms[s].status => RealmIsTold(s)
  /\ \A y \in Binding : bindings'[y] = bindings[y] => BindingIsTold(y)
BY DEF OwnerIsTold, CompanionIsTold, RealmIsTold, BindingIsTold

\* The pointer, told with the change of Companion that moved it or by itself.
LEMMA PointerIsTold ==
  ASSUME NEW o \in Owner, NEW d, PointsTo(o, d),
         \/ <<"owner.default_companion_changed", o>> \in facts'
         \/ <<"companion.workspace.initialized", d>> \in facts'
         \/ <<"companion.deleted", owners[o].default>> \in facts'
  PROVE  \A p \in Owner : OwnerIsTold(p)
BY SameRowIsTold DEF PointsTo, OwnerIsTold, Tells

\* The Realm a command catalogs, told by itself or with the Companion it is for.
LEMMA CatalogIsTold ==
  ASSUME NEW o \in Owner, NEW r \in Realm, Catalogs(o, r),
         \/ realms' # realms => <<"memory_realm.cataloged", r>> \in facts'
         \/ \E c \in Companion : /\ companions'[c].realm = r
                                 /\ <<"companion.workspace.initialized", c>> \in facts'
  PROVE  \A s \in Realm : RealmIsTold(s)
<1>1. CASE realms' = realms
  BY <1>1, SameRowIsTold
<1>2. CASE realms' # realms
  <2>1. RealmIsTold(r)
    BY <1>2 DEF Catalogs, RealmIsTold, Tells
  <2>2. QED
    BY <2>1, SameRowIsTold DEF Catalogs
<1>3. QED
  BY <1>1, <1>2

\* Whatever a command does to a row is told.
LEMMA NextChangesAreTold ==
  ASSUME IInv, Next
  PROVE  ChangesAreToldStep
<1> USE IInvRows DEF RowsTyped
<1>1. CASE NoChange
  BY <1>1, SameRowIsTold DEF NoChange, rows, ChangesAreToldStep
<1>2. ASSUME NEW o \in Owner, NEW n \in Name, CreateOwner(o, n)
      PROVE  ChangesAreToldStep
  <2>1. /\ ~Exists(o) /\ <<"owner.created", o>> \in facts'
        /\ owners'[o].default = None
        /\ \A p \in Owner \ {o} : owners'[p] = owners[p]
    BY <1>2 DEF CreateOwner, Owners
  <2>2. OwnerIsTold(o)
    BY <2>1, AbsentPointsNowhere DEF OwnerIsTold, Tells
  <2>3. QED
    BY <1>2, <2>1, <2>2, SameRowIsTold DEF CreateOwner, ChangesAreToldStep
<1>3. ASSUME NEW o \in Owner, NEW n \in Name, UpdateOwner(o, n) \/ RenameOwner(o, n)
      PROVE  ChangesAreToldStep
  <2>1. \A p \in Owner : OwnerIsTold(p)
    BY <1>3, NameEffect DEF OwnerIsTold
  <2>2. QED
    BY <1>3, <2>1, SameRowIsTold DEF UpdateOwner, RenameOwner, ChangesAreToldStep
<1>4. ASSUME NEW o \in Owner, NEW c \in Companion, NEW n \in Name, NEW r \in Realm,
             InitializeOwnerWorkspace(o, n, c, r)
      PROVE  ChangesAreToldStep
  <2>1. /\ Initializes(o, n, c, r)
        /\ <<"owner.created", o>> \in facts' /\ <<"companion.workspace.initialized", c>> \in facts'
    BY <1>4, InitializeEffect DEF InitializeOwnerWorkspace
  <2>2. OwnerIsTold(o)
    BY <2>1 DEF Initializes, OwnerIsTold, Tells
  <2>3. CompanionIsTold(c)
    BY <2>1 DEF Initializes, CompanionIsTold, NewCompanion, Tells
  <2>4. RealmIsTold(r)
    BY <2>1 DEF Initializes, RealmIsTold, NewCompanion, Tells
  <2>5. QED
    BY <2>1, <2>2, <2>3, <2>4, SameRowIsTold DEF Initializes, ChangesAreToldStep
<1>5. ASSUME NEW o \in Owner, ArchiveOwner(o), ~NoChange
      PROVE  ChangesAreToldStep
  <2>1. Archives(o) /\ <<"owner.archived", o>> \in facts'
    BY <1>5, ArchiveEffect DEF ArchiveOwner
  <2>2. \A p \in Owner : OwnerIsTold(p)
    <3>1. OwnerIsTold(o)
      BY <2>1 DEF OwnerIsTold, Archives, Tells
    <3>2. QED
      BY <2>1, <3>1, SameRowIsTold DEF Archives
  <2>3. \A x \in Companion : CompanionIsTold(x)
    BY <2>1, SameRowIsTold DEF Archives, CompanionIsTold, Owned, Tells
  <2>4. \A s \in Realm : RealmIsTold(s)
    BY <2>1, SameRowIsTold DEF Archives, RealmIsTold, Tells
  <2>5. \A y \in Binding : BindingIsTold(y)
    BY <2>1, SameRowIsTold DEF Archives, BindingIsTold, Tells
  <2>6. QED
    BY <2>2, <2>3, <2>4, <2>5 DEF ChangesAreToldStep
<1>6. ASSUME NEW o \in Owner, DeleteOwner(o)
      PROVE  ChangesAreToldStep
  <2>1. <<"owner.deleted", o>> \in facts'
    BY <1>6 DEF DeleteOwner
  <2>2. \A p \in Owner : OwnerIsTold(p)
    BY <1>6, <2>1, SameRowIsTold DEF DeleteOwner, OwnerIsTold, Tells, Owners
  <2>3. \A x \in Companion : CompanionIsTold(x)
    BY <1>6, <2>1, SameRowIsTold DEF DeleteOwner, CompanionIsTold, NoCompanion, Owned, Tells
  <2>4. \A s \in Realm : RealmIsTold(s)
    BY <1>6, <2>1, SameRowIsTold DEF DeleteOwner, RealmIsTold, NoRealm, OwnerRealms, Tells
  <2>5. \A y \in Binding : BindingIsTold(y)
    BY <1>6, <2>1, SameRowIsTold DEF DeleteOwner, BindingIsTold, Tells
  <2>6. QED
    BY <2>2, <2>3, <2>4, <2>5 DEF ChangesAreToldStep
<1>7. ASSUME NEW o \in Owner, NEW c \in Companion, NEW k \in Kind, NEW r \in Realm,
             AddCompanion(o, c, k, r)
      PROVE  ChangesAreToldStep
  <2>1. Provisions(o, c, k, r) /\ <<"companion.workspace.initialized", c>> \in facts'
    BY <1>7, ProvisionEffect DEF AddCompanion
  <2>2. \A p \in Owner : OwnerIsTold(p)
    BY <2>1, SameRowIsTold, PointerIsTold DEF Provisions
  <2>3. CompanionIsTold(c)
    BY <2>1 DEF Provisions, CompanionIsTold, NewCompanion, Tells
  <2>4. \A s \in Realm : RealmIsTold(s)
    <3>1. companions'[c].realm = r
      BY <2>1 DEF Provisions, NewCompanion
    <3>2. QED
      BY <2>1, <3>1, CatalogIsTold DEF Provisions
  <2>5. QED
    BY <2>1, <2>2, <2>3, <2>4, SameRowIsTold DEF Provisions, ChangesAreToldStep
<1>8. ASSUME NEW o \in Owner, NEW c \in Companion, NEW r \in Realm, EnsureCompanionRealm(o, c, r)
      PROVE  ChangesAreToldStep
  <2>1. /\ Catalogs(o, r) /\ Attaches(c, r) /\ facts' = RealmFacts(o, r)
        /\ owners' = owners /\ bindings' = bindings
    BY <1>8, RealmEffect, AttachEffect DEF EnsureCompanionRealm
  <2>2. \A s \in Realm : RealmIsTold(s)
    BY <2>1, CatalogIsTold DEF Catalogs, RealmFacts
  <2>3. QED
    BY <2>1, <2>2, SameRowIsTold DEF Attaches, ChangesAreToldStep
<1>9. ASSUME NEW o \in Owner, NEW c \in Companion, NEW e \in Expected, NEW x \in Companion,
             BeginRetirement(o, c, e, x), ~NoChange
      PROVE  ChangesAreToldStep
  <2>1. /\ HandsOver(o, c, x) /\ Moves(c, "retiring", 1) /\ companions[c].state = "active"
        /\ facts' = RetirementFacts(o, c) /\ realms' = realms /\ bindings' = bindings
    BY <1>9, HandOverEffect, MoveEffect, MayMoveFrom DEF BeginRetirement
  <2>2. \A p \in Owner : OwnerIsTold(p)
    BY <2>1, SameRowIsTold, PointerIsTold DEF HandsOver, RetirementFacts
  <2>3. CompanionIsTold(c)
    BY <2>1 DEF Moves, CompanionIsTold, RetirementFacts, Tells
  <2>4. QED
    BY <2>1, <2>2, <2>3, SameRowIsTold DEF Moves, ChangesAreToldStep
<1>10. ASSUME NEW o \in Owner, NEW c \in Companion, NEW e \in Expected,
              ArchiveCompanion(o, c, e), ~NoChange
       PROVE  ChangesAreToldStep
  <2>1. /\ Moves(c, "archived", 1) /\ companions[c].state = "retiring"
        /\ facts' = {<<"companion.archived", c>>}
        /\ owners' = owners /\ realms' = realms /\ bindings' = bindings
    BY <1>10, MoveEffect, MayMoveFrom DEF ArchiveCompanion
  <2>2. CompanionIsTold(c)
    BY <2>1 DEF Moves, CompanionIsTold, Tells
  <2>3. QED
    BY <2>1, <2>2, SameRowIsTold DEF Moves, ChangesAreToldStep
<1>11. ASSUME NEW o \in Owner, NEW c \in Companion, NEW e \in Expected, NEW x \in Companion,
              PutAwayCompanion(o, c, e, x), ~ArchiveCompanion(o, c, None)
       PROVE  ChangesAreToldStep
  <2>1. /\ HandsOver(o, c, x) /\ Moves(c, "archived", 2) /\ companions[c].state = "active"
        /\ facts' = RetirementFacts(o, c) \cup {<<"companion.archived", c>>}
        /\ realms' = realms /\ bindings' = bindings
    BY <1>11, HandOverEffect, MoveEffect, MayMoveFrom DEF PutAwayCompanion
  <2>2. \A p \in Owner : OwnerIsTold(p)
    BY <2>1, SameRowIsTold, PointerIsTold DEF HandsOver, RetirementFacts
  <2>3. CompanionIsTold(c)
    BY <2>1 DEF Moves, CompanionIsTold, RetirementFacts, Tells
  <2>4. QED
    BY <2>1, <2>2, <2>3, SameRowIsTold DEF Moves, ChangesAreToldStep
<1>12. ASSUME NEW o \in Owner, NEW c \in Companion, NEW e \in Expected,
              RestoreCompanion(o, c, e), ~NoChange
       PROVE  ChangesAreToldStep
  <2>1. /\ Moves(c, "active", 1) /\ companions[c].state = "archived"
        /\ facts' = {<<"companion.restored", c>>}
        /\ owners' = owners /\ realms' = realms /\ bindings' = bindings
    BY <1>12, MoveEffect, MayMoveFrom DEF RestoreCompanion
  <2>2. CompanionIsTold(c)
    BY <2>1 DEF Moves, CompanionIsTold, Tells
  <2>3. QED
    BY <2>1, <2>2, SameRowIsTold DEF Moves, ChangesAreToldStep
<1>13. ASSUME NEW o \in Owner, NEW c \in Companion, NEW e \in Expected, NEW r \in Realm,
              SetDefaultCompanion(o, c, e, r)
       PROVE  ChangesAreToldStep
  <2>1. /\ Catalogs(o, r) /\ Attaches(c, r) /\ RealmFacts(o, r) \subseteq facts'
        /\ bindings' = bindings
    BY <1>13, SetDefaultEffect DEF SetDefaultCompanion, MakesDefault
  <2>2. \A p \in Owner : OwnerIsTold(p)
    <3>1. \/ owners' = owners
          \/ PointsTo(o, c) /\ <<"owner.default_companion_changed", o>> \in facts'
      BY <1>13, PointerEffect DEF SetDefaultCompanion
    <3>2. QED
      BY <3>1, SameRowIsTold, PointerIsTold
  <2>3. \A s \in Realm : RealmIsTold(s)
    BY <2>1, CatalogIsTold DEF Catalogs, RealmFacts
  <2>4. QED
    BY <2>1, <2>2, <2>3, SameRowIsTold DEF Attaches, ChangesAreToldStep
<1>14. ASSUME NEW o \in Owner, NEW c \in Companion, NEW allow \in BOOLEAN,
              DeleteCompanion(o, c, allow)
       PROVE  ChangesAreToldStep
  <2>1. Deletes(o, c) /\ <<"companion.deleted", c>> \in facts'
    BY <1>14, DeleteEffect DEF DeleteCompanion
  <2>2. \A p \in Owner : OwnerIsTold(p)
    BY <2>1, SameRowIsTold, PointerIsTold DEF Deletes
  <2>3. CompanionIsTold(c)
    BY <2>1 DEF Deletes, CompanionIsTold, NoCompanion, Tells
  <2>4. \A y \in Binding : BindingIsTold(y)
    BY <2>1, SameRowIsTold DEF Deletes, BindingIsTold, Tells
  <2>5. QED
    BY <2>1, <2>2, <2>3, <2>4, SameRowIsTold DEF Deletes, ChangesAreToldStep
<1>15. ASSUME NEW o \in Owner, NEW c \in Companion, NEW d \in Device, NEW b \in Binding,
              Bind(o, c, d, b)
       PROVE  ChangesAreToldStep
  <2>1. /\ <<"guard.binding.created", b>> \in facts'
        /\ \A y \in Binding \ {b} : bindings'[y] = bindings[y]
    BY <1>15 DEF Bind, Bindings
  <2>2. BindingIsTold(b)
    BY <2>1 DEF BindingIsTold, Tells
  <2>3. QED
    BY <1>15, <2>1, <2>2, SameRowIsTold DEF Bind, ChangesAreToldStep
<1>16. ASSUME NEW b \in Binding, BindingCommand(b), ~NoChange
       PROVE  ChangesAreToldStep
  <2>1. \/ <<"guard.policy.updated", b>> \in facts'
        \/ <<"guard.binding.disabled", b>> \in facts'
        \/ <<"guard.binding.revoked", b>> \in facts'
    BY <1>16 DEF BindingCommand, UpdatePolicy, DisableBinding, DisableFact
  <2>2. BindingIsTold(b)
    BY <2>1 DEF BindingIsTold, Tells
  <2>3. \A y \in Binding \ {b} : bindings'[y] = bindings[y]
    BY <1>16 DEF BindingCommand, UpdatePolicy, DisableBinding, Bindings
  <2>4. QED
    BY <1>16, <2>2, <2>3, BindingEffect, SameRowIsTold DEF ChangesAreToldStep
<1>17. QED
  BY <1>1, <1>2, <1>3, <1>4, <1>5, <1>6, <1>7, <1>8, <1>9, <1>10, <1>11, <1>12, <1>13, <1>14,
     <1>15, <1>16, NextSteps

\* What a reader saw of an Owner at revision n, its pointer d and status s: the row
\* is past n, or it still shows that.
OwnerPastOr(o, n, d, s) ==
  \/ owners[o].revision > n
  \/ owners[o].revision = n /\ owners[o].default = d /\ owners[o].status = s
\* The same of a Companion and its lifecycle state s.
CompanionPastOr(c, n, s) ==
  \/ companions[c].revision > n
  \/ companions[c].revision = n /\ companions[c].state = s
ReadStandsStep ==
  /\ \A o \in Owner, n \in Nat, d \in Companion \cup {None}, s \in {"active", "archived"} :
       Survives(o) /\ OwnerPastOr(o, n, d, s) => OwnerPastOr(o, n, d, s)'
  /\ \A c \in Companion, n \in Nat, s \in {"active", "retiring", "archived"} :
       Lives(c) /\ CompanionPastOr(c, n, s) => CompanionPastOr(c, n, s)'

LEMMA MovedReadStands ==
  ASSUME RowsTyped, RowsTyped', RevisionMovesStep
  PROVE  ReadStandsStep
<1>1. /\ \A o \in Owner : owners[o].revision \in Nat /\ owners'[o].revision \in Nat
      /\ \A c \in Companion : companions[c].revision \in Nat /\ companions'[c].revision \in Nat
  BY DEF RowsTyped, Owners, OwnerRow, Companions, CompanionRow
<1>2. ASSUME NEW o \in Owner, NEW n \in Nat, NEW d, NEW s,
             Survives(o), OwnerPastOr(o, n, d, s)
      PROVE  OwnerPastOr(o, n, d, s)'
  <2>1. \/ owners'[o].revision > owners[o].revision
        \/ /\ owners'[o].revision = owners[o].revision
           /\ owners'[o].default = owners[o].default /\ owners'[o].status = owners[o].status
    BY <1>2 DEF RevisionMovesStep
  <2>2. QED
    BY <1>1, <1>2, <2>1 DEF OwnerPastOr
<1>3. ASSUME NEW c \in Companion, NEW n \in Nat, NEW s, Lives(c), CompanionPastOr(c, n, s)
      PROVE  CompanionPastOr(c, n, s)'
  <2>1. \/ companions'[c].revision > companions[c].revision
        \/ /\ companions'[c].revision = companions[c].revision
           /\ companions'[c].state = companions[c].state
    BY <1>3 DEF RevisionMovesStep
  <2>2. QED
    BY <1>1, <1>3, <2>1 DEF CompanionPastOr
<1>4. QED
  BY <1>2, <1>3 DEF ReadStandsStep

\* No command moves an Owner's pointer or status or a Companion's state under an
\* unchanged revision, or a revision back: what a client read at a revision is what
\* the row shows for as long as it carries that revision, through any commands of one
\* process that leave the row in place.  A row made again starts at revision 1.
THEOREM ReadStandsWithItsRevision == Spec => RevisionMoves /\ [][ReadStandsStep]_vars
<1>1. IInv /\ IInv' /\ [Next]_vars => [RevisionMovesStep]_vars /\ [ReadStandsStep]_vars
  BY NextRevisionMoves, MovedReadStands, IInvRows
     DEF IInv, TypeOK, RowsTyped, Owners, Companions, Realms, Bindings
<1>2. QED
  BY <1>1, InductiveInvariant, PTL DEF Spec, RevisionMoves

\* Only archiving the Owner or deleting the default Companion clears a default.
THEOREM DefaultIsKept == Spec => KeepsDefault
<1>1. IInv /\ [Next]_vars => [KeepsDefaultStep]_vars
  BY NextKeepsDefault
<1>2. QED
  BY <1>1, InductiveInvariant, PTL DEF Spec, KeepsDefault

\* A Companion is archived from active only with its retirement recorded in the
\* same transaction or with its Owner, and only archived ones come back.
THEOREM DrainIsNotSkipped == Spec => RetiresBeforeArchive
<1>1. IInv /\ [Next]_vars => [RetiresBeforeArchiveStep]_vars
  BY NextRetiresBeforeArchive
<1>2. QED
  BY <1>1, InductiveInvariant, PTL DEF Spec, RetiresBeforeArchive

\* Each lifecycle fact names a transition of its own transaction, so that a retry
\* that finds the state it asked for commits none.
THEOREM FactsAreTrue == Spec => FactsTellTheTruth
<1>1. IInv /\ [Next]_vars => [FactsTellTheTruthStep]_vars
  BY NextFactsTellTheTruth
<1>2. QED
  BY <1>1, InductiveInvariant, PTL DEF Spec, FactsTellTheTruth

\* Whatever a command does to an Owner's status or pointer, to a Companion's state,
\* to a Realm or to a binding is told by a fact of its own transaction.
THEOREM NothingGoesUntold == Spec => ChangesAreTold
<1>1. IInv /\ [Next]_vars => [ChangesAreToldStep]_vars
  BY NextChangesAreTold
<1>2. QED
  BY <1>1, InductiveInvariant, PTL DEF Spec, ChangesAreTold
=============================================================================
