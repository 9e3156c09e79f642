------------------------- MODULE VoiceprintsProofs -------------------------
(***************************************************************************)
(* Proofs about Persons and Voiceprints, for any number of people, voices,  *)
(* enrollments and turns.                                                   *)
(***************************************************************************)
EXTENDS Voiceprints, FiniteSetTheorems, TLAPS

\* A deletion that was asked for holds the Person archived and its memory
\* closed, and one that ended leaves nothing.
DeletionHolds(p) ==
  /\ receipts[p] = "pending" =>
       Exists(p) /\ people[p].deleted /\ realms[p].status = "deleting"
  /\ receipts[p] = "completed" => ~Exists(p)

\* What holds of the rows of each Person.
PersonHolds(p) ==
  /\ people[p] \in PersonRow \cup {None}
  /\ realms[p] \in RealmRow \cup {None}
  /\ receipts[p] \in {"none", "pending", "completed"}
  /\ Exists(p) <=> realms[p] # None
  /\ Exists(p) => people[p].revision <= MaxRevision[p]
  /\ Exists(p) =>
       /\ realms[p].status = "active" => Active(p) /\ people[p].maturity = "established"
       /\ realms[p].provisional => Active(p)
  /\ DeletionHolds(p)

Tables ==
  /\ people = [p \in Person |-> people[p]]
  /\ realms = [p \in Person |-> realms[p]]
  /\ receipts = [p \in Person |-> receipts[p]]
  /\ defaults \in Policy

PersonInv == Tables /\ \A p \in Person : PersonHolds(p)

\* What a step does to the rows of one Person.
PersonMoves(p) ==
  /\ PersonHolds(p)'
  /\ receipts[p] = "pending" =>
       \/ receipts'[p] = "completed"
       \/ receipts'[p] = "pending" /\ people'[p].deleted /\ realms'[p].status = "deleting"
  /\ receipts[p] = "completed" => receipts'[p] = "completed" /\ people'[p] = None
  /\ Exists(p) /\ people[p].maturity = "candidate" /\ realms[p].blocked /\ people'[p] # None
       => realms'[p].blocked /\ realms'[p].status # "active"
  /\ Exists(p) /\ people'[p] # None =>
       /\ people'[p].revision \in {people[p].revision, people[p].revision + 1}
       /\ people'[p].revision = people[p].revision =>
            Named(people'[p]) = Named(people[p]) /\ realms'[p] = realms[p]
Stays(p) ==
  people'[p] = people[p] /\ realms'[p] = realms[p] /\ receipts'[p] = receipts[p]
PersonsMove ==
  /\ Tables'
  /\ \A p \in Person : PersonMoves(p)

USE PersonNoneAssumption, PersonBoundAssumption

LEMMA PersonInvIsIt == PersonInv <=> PersonTypeOK /\ MemoryFollowsPerson
                                     /\ \A p \in Person : DeletionHolds(p)
BY DEF PersonInv, PersonTypeOK, MemoryFollowsPerson, Tables, PersonHolds

LEMMA RowsAreRecords ==
  ASSUME NEW p \in Person, PersonHolds(p), Exists(p)
  PROVE  /\ people[p] \in PersonRow /\ realms[p] \in RealmRow
         /\ people[p].revision \in Nat \ {0}
BY DEF PersonHolds, Exists, PersonRow

LEMMA StaysMoves ==
  ASSUME NEW p \in Person, PersonHolds(p), Stays(p)
  PROVE  PersonMoves(p)
BY DEF Stays, PersonMoves, PersonHolds, DeletionHolds, Exists, Active, Present, Named, PersonRow

\* A row under its next revision.
LEMMA RowSet ==
  ASSUME PersonInv, NEW p \in Person, Exists(p), NEW row \in PersonRow, SetRow(p, row)
  PROVE  /\ people' = [q \in Person |-> people'[q]]
         /\ people'[p] \in PersonRow
         /\ people'[p].revision = people[p].revision + 1
         /\ people'[p].revision <= MaxRevision[p]
         /\ people'[p].status = row.status /\ people'[p].deleted = row.deleted
         /\ people'[p].maturity = row.maturity /\ people'[p].recognition = row.recognition
         /\ people'[p].recent = row.recent
         /\ \A q \in Person \ {p} : people'[q] = people[q]
<1>1. people[p].revision \in Nat \ {0}
  BY RowsAreRecords DEF PersonInv
<1>2. people' = [q \in Person |-> IF q = p THEN [row EXCEPT !.revision = people[p].revision + 1]
                                        ELSE people[q]]
  BY DEF SetRow, PersonInv, Tables
<1>3. [row EXCEPT !.revision = people[p].revision + 1] \in PersonRow
  BY <1>1 DEF PersonRow
<1>4. people'[p].revision <= MaxRevision[p]
  BY <1>1, <1>2, <1>3 DEF SetRow, PersonRow
<1>5. QED
  BY <1>1, <1>2, <1>3, <1>4 DEF PersonRow

LEMMA DeactivateEffect ==
  ASSUME PersonInv, NEW p \in Person, Deactivate(p)
  PROVE  /\ realms' = [q \in Person |-> realms'[q]]
         /\ realms'[p] \in RealmRow
         /\ realms'[p].status = "inactive" /\ ~realms'[p].provisional /\ realms'[p].blocked
         /\ \A q \in Person \ {p} : realms'[q] = realms[q]
<1>1. realms' = [q \in Person |-> IF q = p THEN Deactivated(realms[p]) ELSE realms[q]]
  BY DEF Deactivate, PersonInv, Tables
<1>2. QED
  BY <1>1 DEF Deactivated, RealmRow

-----------------------------------------------------------------------------
(* One step after the other. *)

LEMMA UpdateMoves ==
  ASSUME PersonInv, NEW p \in Person, NEW status \in {"active", "inactive"}, Update(p, status)
  PROVE  PersonsMove /\ \A q \in Person \ {p} : Stays(q)
<1>1. Exists(p) /\ PersonHolds(p) /\ people[p] \in PersonRow /\ realms[p] \in RealmRow
      /\ people[p].revision \in Nat \ {0}
  BY RowsAreRecords DEF Update, Present, PersonInv
<1> DEFINE row == [people[p] EXCEPT !.status = status]
<1>2. row \in PersonRow /\ row.status = status /\ row.deleted = people[p].deleted
      /\ row.maturity = people[p].maturity /\ row.recognition = people[p].recognition
  BY <1>1 DEF PersonRow
<1>3. SetRow(p, row)
  BY DEF Update
<1> HIDE DEF row
<1>4. /\ people' = [q \in Person |-> people'[q]]
      /\ people'[p] \in PersonRow /\ people'[p].revision = people[p].revision + 1
      /\ people'[p].revision <= MaxRevision[p] /\ people'[p].status = status
      /\ people'[p].deleted = people[p].deleted /\ people'[p].maturity = people[p].maturity
      /\ \A q \in Person \ {p} : people'[q] = people[q]
  BY <1>1, <1>2, <1>3, RowSet
<1>5. realms' = [q \in Person |-> realms'[q]] /\ \A q \in Person \ {p} : realms'[q] = realms[q]
  BY DeactivateEffect DEF Update, PersonInv, Tables
<1>6. /\ realms'[p] \in RealmRow
      /\ status = "inactive" =>
           realms'[p].status = "inactive" /\ ~realms'[p].provisional /\ realms'[p].blocked
      /\ status = "active" => realms'[p] = realms[p]
  BY <1>1, DeactivateEffect DEF Update
<1>7. \A q \in Person \ {p} : Stays(q)
  BY <1>4, <1>5 DEF Stays, Update
<1>8. PersonMoves(p)
  BY <1>1, <1>4, <1>6 DEF Update, Present, PersonMoves, PersonHolds, DeletionHolds, Exists, Active
<1>9. QED
  BY <1>4, <1>5, <1>7, <1>8, StaysMoves DEF PersonsMove, PersonInv, Tables, Update

LEMMA InsertMoves ==
  ASSUME PersonInv, NEW p \in Person, NEW maturity \in {"candidate", "established"},
         Unused(p), InsertPerson(p, maturity), UNCHANGED <<receipts, defaults>>
  PROVE  PersonsMove /\ \A q \in Person \ {p} : Stays(q)
<1> DEFINE row == [status |-> "active", deleted |-> FALSE, maturity |-> maturity,
                   recognition |-> "active", recent |-> maturity = "candidate", revision |-> 1]
           realm == [status |-> IF maturity = "established" THEN "active" ELSE "inactive",
                     provisional |-> maturity = "candidate" /\ defaults.provisional,
                     blocked |-> FALSE]
<1>1. row \in PersonRow
  BY DEF PersonRow
<1>2. realm \in RealmRow
  BY DEF RealmRow
<1>3. people' = [q \in Person |-> IF q = p THEN row ELSE people[q]]
  BY DEF InsertPerson, PersonInv, Tables
<1>4. realms' = [q \in Person |-> IF q = p THEN realm ELSE realms[q]]
  BY DEF InsertPerson, PersonInv, Tables
<1>5. \A q \in Person \ {p} : Stays(q)
  BY <1>3, <1>4 DEF Stays
<1>6. people'[p] = row /\ realms'[p] = realm /\ receipts'[p] = receipts[p]
  BY <1>3, <1>4
<1>7. /\ people'[p] \in PersonRow /\ people'[p].revision = 1 /\ people'[p].status = "active"
      /\ people'[p].deleted = FALSE /\ people'[p].maturity = maturity
  BY <1>1, <1>6
<1>8. /\ realms'[p] \in RealmRow
      /\ realms'[p].status = "active" => maturity = "established"
  BY <1>2, <1>6
<1>9. 1 <= MaxRevision[p]
  OBVIOUS
<1>10. receipts'[p] = "none"
  BY <1>6 DEF Unused
<1> HIDE DEF row, realm
<1>11. PersonHolds(p)'
  BY <1>7, <1>8, <1>9, <1>10 DEF PersonHolds, DeletionHolds, Exists, Active, Present
<1>12. PersonMoves(p)
  BY <1>11, <1>10 DEF PersonMoves, Unused
<1>13. QED
  BY <1>3, <1>4, <1>5, <1>12, StaysMoves DEF PersonsMove, PersonInv, Tables

LEMMA CreateMoves ==
  ASSUME PersonInv, NEW p \in Person, NEW maturity \in {"candidate", "established"},
         Create(p, maturity)
  PROVE  PersonsMove /\ \A q \in Person \ {p} : Stays(q)
BY InsertMoves DEF Create

\* A command that writes one row and leaves its memory alone.
LEMMA RetireMoves ==
  ASSUME PersonInv, NEW p \in Person, RetireCandidate(p)
  PROVE  PersonsMove /\ \A q \in Person \ {p} : Stays(q)
<1>1. Exists(p) /\ PersonHolds(p) /\ people[p] \in PersonRow /\ realms[p] \in RealmRow
      /\ people[p].revision \in Nat \ {0}
  BY RowsAreRecords DEF RetireCandidate, Present, PersonInv
<1> DEFINE row == [people[p] EXCEPT !.recognition = "retained"]
<1>2. row \in PersonRow /\ row.status = people[p].status /\ row.deleted = people[p].deleted
      /\ row.maturity = people[p].maturity
  BY <1>1 DEF PersonRow
<1>3. SetRow(p, row)
  BY DEF RetireCandidate
<1> HIDE DEF row
<1>4. /\ people' = [q \in Person |-> people'[q]]
      /\ people'[p] \in PersonRow /\ people'[p].revision = people[p].revision + 1
      /\ people'[p].revision <= MaxRevision[p] /\ people'[p].status = people[p].status
      /\ people'[p].deleted = people[p].deleted /\ people'[p].maturity = people[p].maturity
      /\ \A q \in Person \ {p} : people'[q] = people[q]
  BY <1>1, <1>2, <1>3, RowSet
<1>5. UNCHANGED <<realms, receipts, defaults>>
  BY DEF RetireCandidate
<1>6. \A q \in Person \ {p} : Stays(q)
  BY <1>4, <1>5 DEF Stays
<1>7. PersonMoves(p)
  BY <1>1, <1>4, <1>5 DEF PersonMoves, PersonHolds, DeletionHolds, Exists, Active, Present
<1>8. QED
  BY <1>4, <1>5, <1>6, <1>7, StaysMoves DEF PersonsMove, PersonInv, Tables

LEMMA RetainMoves ==
  ASSUME PersonInv, RetainExpired
  PROVE  PersonsMove
<1>1. ASSUME NEW q \in Person PROVE PersonMoves(q)
  <2>1. PersonHolds(q)
    BY DEF PersonInv
  <2>2. CASE q \in Expired
    <3>1. Exists(q) /\ ~people[q].deleted /\ people[q].revision < MaxRevision[q]
      BY <2>2 DEF Expired, Present, RetainExpired
    <3>2. people[q] \in PersonRow /\ realms[q] \in RealmRow /\ people[q].revision \in Nat \ {0}
      BY <2>1, <3>1, RowsAreRecords
    <3>3. people'[q] = [people[q] EXCEPT !.recognition = "retained",
                                          !.revision = people[q].revision + 1]
      BY <2>2 DEF RetainExpired
    <3> DEFINE n == people[q].revision + 1
               row == [people[q] EXCEPT !.recognition = "retained", !.revision = n]
    <3> n \in Nat \ {0}
      BY <3>2
    <3> HIDE DEF n
    <3>3a. /\ row \in PersonRow /\ row.revision = n
          /\ row.status = people[q].status /\ row.deleted = people[q].deleted
          /\ row.maturity = people[q].maturity
      BY <3>2 DEF PersonRow
    <3>4. /\ people'[q] \in PersonRow /\ people'[q].revision = people[q].revision + 1
          /\ people'[q].status = people[q].status /\ people'[q].deleted = people[q].deleted
          /\ people'[q].maturity = people[q].maturity
      BY <3>3, <3>3a DEF n
    <3>5. people'[q].revision <= MaxRevision[q]
      BY <3>1, <3>2, <3>4
    <3>6. UNCHANGED <<realms, receipts, defaults>>
      BY DEF RetainExpired
    <3>7. QED
      BY <2>1, <3>1, <3>2, <3>4, <3>5, <3>6
      DEF PersonMoves, PersonHolds, DeletionHolds, Exists, Active, Present
  <2>3. CASE q \notin Expired
    <3>1. Stays(q)
      BY <2>3 DEF RetainExpired, Stays
    <3>2. QED
      BY <2>1, <3>1, StaysMoves
  <2>4. QED
    BY <2>2, <2>3
<1>2. QED
  BY <1>1 DEF PersonsMove, PersonInv, Tables, RetainExpired

LEMMA ElapseMoves ==
  ASSUME PersonInv, NEW p \in Person, Elapse(p)
  PROVE  PersonsMove /\ \A q \in Person \ {p} : Stays(q)
<1>1. Exists(p) /\ PersonHolds(p) /\ people[p] \in PersonRow /\ realms[p] \in RealmRow
      /\ people[p].revision \in Nat \ {0}
  BY RowsAreRecords DEF Elapse, PersonInv
<1>2. people' = [q \in Person |-> IF q = p THEN [people[p] EXCEPT !.recent = FALSE] ELSE people[q]]
      /\ UNCHANGED <<realms, receipts, defaults>>
  BY DEF Elapse, PersonInv, Tables
<1>3. /\ people'[p] \in PersonRow /\ people'[p].revision = people[p].revision
      /\ people'[p].status = people[p].status /\ people'[p].deleted = people[p].deleted
      /\ people'[p].maturity = people[p].maturity
      /\ Named(people'[p]) = Named(people[p])
  BY <1>1, <1>2 DEF PersonRow, Named
<1>4. \A q \in Person \ {p} : Stays(q)
  BY <1>2 DEF Stays
<1>5. PersonMoves(p)
  BY <1>1, <1>2, <1>3 DEF PersonMoves, PersonHolds, DeletionHolds, Exists, Active, Present
<1>6. QED
  BY <1>2, <1>4, <1>5, StaysMoves DEF PersonsMove, PersonInv, Tables

LEMMA ArchiveMoves ==
  ASSUME PersonInv, NEW p \in Person, ArchivePerson(p)
  PROVE  PersonsMove /\ \A q \in Person \ {p} : Stays(q)
<1>1. Exists(p) /\ PersonHolds(p) /\ people[p] \in PersonRow /\ realms[p] \in RealmRow
      /\ people[p].revision \in Nat \ {0} /\ ~people[p].deleted
  BY RowsAreRecords DEF ArchivePerson, Present, PersonInv
<1> DEFINE row == [people[p] EXCEPT !.deleted = TRUE, !.status = "inactive"]
<1>2. row \in PersonRow /\ row.maturity = people[p].maturity /\ row.deleted
  BY <1>1 DEF PersonRow
<1>3. SetRow(p, row)
  BY DEF ArchivePerson
<1> HIDE DEF row
<1>4. /\ people' = [q \in Person |-> people'[q]]
      /\ people'[p] \in PersonRow /\ people'[p].revision = people[p].revision + 1
      /\ people'[p].revision <= MaxRevision[p] /\ people'[p].deleted
      /\ people'[p].maturity = people[p].maturity
      /\ \A q \in Person \ {p} : people'[q] = people[q]
  BY <1>1, <1>2, <1>3, RowSet
<1>5. /\ realms' = [q \in Person |-> realms'[q]] /\ \A q \in Person \ {p} : realms'[q] = realms[q]
      /\ realms'[p] \in RealmRow
      /\ realms'[p].status = "inactive" /\ ~realms'[p].provisional /\ realms'[p].blocked
  BY DeactivateEffect DEF ArchivePerson
<1>6. UNCHANGED <<receipts, defaults>>
  BY DEF ArchivePerson
<1>7. \A q \in Person \ {p} : Stays(q)
  BY <1>4, <1>5, <1>6 DEF Stays
<1>8. PersonMoves(p)
  BY <1>1, <1>4, <1>5, <1>6 DEF PersonMoves, PersonHolds, DeletionHolds, Exists, Active, Present
<1>9. QED
  BY <1>4, <1>5, <1>6, <1>7, <1>8, StaysMoves DEF PersonsMove, PersonInv, Tables

LEMMA RestoreMoves ==
  ASSUME PersonInv, NEW p \in Person, Restore(p)
  PROVE  PersonsMove /\ \A q \in Person \ {p} : Stays(q)
<1>1. Exists(p) /\ PersonHolds(p) /\ people[p] \in PersonRow /\ realms[p] \in RealmRow
      /\ people[p].revision \in Nat \ {0} /\ realms[p].status # "deleting"
  BY RowsAreRecords DEF Restore, Restorable, PersonInv
<1> DEFINE row == [people[p] EXCEPT !.deleted = FALSE, !.status = "inactive"]
<1>2. row \in PersonRow /\ row.maturity = people[p].maturity
  BY <1>1 DEF PersonRow
<1>3. SetRow(p, row)
  BY DEF Restore
<1> HIDE DEF row
<1>4. /\ people' = [q \in Person |-> people'[q]]
      /\ people'[p] \in PersonRow /\ people'[p].revision = people[p].revision + 1
      /\ people'[p].revision <= MaxRevision[p]
      /\ people'[p].maturity = people[p].maturity
      /\ \A q \in Person \ {p} : people'[q] = people[q]
  BY <1>1, <1>2, <1>3, RowSet
<1>5. /\ realms' = [q \in Person |-> realms'[q]] /\ \A q \in Person \ {p} : realms'[q] = realms[q]
      /\ realms'[p] \in RealmRow
      /\ realms'[p].status = "inactive" /\ ~realms'[p].provisional /\ realms'[p].blocked
  BY DeactivateEffect DEF Restore
<1>6. UNCHANGED <<receipts, defaults>>
  BY DEF Restore
<1>7. \A q \in Person \ {p} : Stays(q)
  BY <1>4, <1>5, <1>6 DEF Stays
<1>8. PersonMoves(p)
  BY <1>1, <1>4, <1>5, <1>6 DEF PersonMoves, PersonHolds, DeletionHolds, Exists, Active, Present
<1>9. QED
  BY <1>4, <1>5, <1>6, <1>7, <1>8, StaysMoves DEF PersonsMove, PersonInv, Tables

LEMMA BeginDeletionMoves ==
  ASSUME PersonInv, NEW p \in Person, BeginDeletion(p)
  PROVE  PersonsMove /\ \A q \in Person \ {p} : Stays(q)
<1>1. Exists(p) /\ PersonHolds(p) /\ people[p] \in PersonRow /\ realms[p] \in RealmRow
      /\ people[p].revision \in Nat \ {0} /\ people[p].deleted
  BY RowsAreRecords DEF BeginDeletion, PersonInv
<1>2. SetRow(p, people[p])
  BY DEF BeginDeletion
<1>3. /\ people' = [q \in Person |-> people'[q]]
      /\ people'[p] \in PersonRow /\ people'[p].revision = people[p].revision + 1
      /\ people'[p].revision <= MaxRevision[p]
      /\ people'[p].maturity = people[p].maturity /\ people'[p].deleted
      /\ \A q \in Person \ {p} : people'[q] = people[q]
  BY <1>1, <1>2, RowSet
<1>4. realms' = [q \in Person |->
        IF q = p THEN [realms[p] EXCEPT !.status = "deleting"] ELSE realms[q]]
  BY DEF BeginDeletion, PersonInv, Tables
<1>5. /\ realms'[p] \in RealmRow /\ realms'[p].status = "deleting"
      /\ realms'[p].blocked = realms[p].blocked
      /\ realms'[p].provisional = realms[p].provisional
  BY <1>1, <1>4 DEF RealmRow
<1>6. /\ receipts' = [q \in Person |-> IF q = p THEN "pending" ELSE receipts[q]]
      /\ receipts[p] = "none" /\ UNCHANGED defaults
  BY DEF BeginDeletion, PersonInv, Tables
<1>7. ~realms[p].provisional
  BY <1>1 DEF PersonHolds, Active, Present
<1>8. \A q \in Person \ {p} : Stays(q)
  BY <1>3, <1>4, <1>6 DEF Stays
<1>9. PersonMoves(p)
  BY <1>1, <1>3, <1>5, <1>6, <1>7 DEF PersonMoves, PersonHolds, DeletionHolds, Exists
<1>10. QED
  BY <1>3, <1>4, <1>6, <1>8, <1>9, StaysMoves DEF PersonsMove, PersonInv, Tables

LEMMA RemoveMoves ==
  ASSUME PersonInv, NEW p \in Person, RemovePerson(p)
  PROVE  PersonsMove /\ \A q \in Person \ {p} : Stays(q)
<1>1. /\ people' = [q \in Person |-> IF q = p THEN None ELSE people[q]]
      /\ realms' = [q \in Person |-> IF q = p THEN None ELSE realms[q]]
      /\ receipts' = [q \in Person |-> IF q = p THEN "completed" ELSE receipts[q]]
      /\ receipts[p] = "pending" /\ UNCHANGED defaults
  BY DEF RemovePerson, PersonInv, Tables
<1>2. \A q \in Person \ {p} : Stays(q)
  BY <1>1 DEF Stays
<1>3. PersonMoves(p)
  BY <1>1 DEF PersonMoves, PersonHolds, DeletionHolds, Exists
<1>4. QED
  BY <1>1, <1>2, <1>3, StaysMoves DEF PersonsMove, PersonInv, Tables

\* A command on the memory of one Person, whose row keeps all but its revision.
LEMMA MemoryMoves ==
  ASSUME PersonInv, NEW p \in Person, Present(p), SetRow(p, people[p]),
         realms' = [realms EXCEPT ![p] = realms'[p]], realms'[p] \in RealmRow,
         realms'[p].status = "active" => Active(p) /\ people[p].maturity = "established",
         realms'[p].provisional => Active(p),
         people[p].maturity = "candidate" /\ realms[p].blocked =>
           realms'[p].blocked /\ realms'[p].status # "active",
         UNCHANGED <<receipts, defaults>>
  PROVE  PersonsMove /\ \A q \in Person \ {p} : Stays(q)
<1>1. Exists(p) /\ PersonHolds(p) /\ people[p] \in PersonRow /\ realms[p] \in RealmRow
      /\ people[p].revision \in Nat \ {0} /\ ~people[p].deleted
  BY RowsAreRecords DEF Present, PersonInv
<1>2. /\ people' = [q \in Person |-> people'[q]]
      /\ people'[p] \in PersonRow /\ people'[p].revision = people[p].revision + 1
      /\ people'[p].revision <= MaxRevision[p] /\ people'[p].status = people[p].status
      /\ people'[p].maturity = people[p].maturity /\ people'[p].deleted = people[p].deleted
      /\ \A q \in Person \ {p} : people'[q] = people[q]
  BY <1>1, RowSet
<1>3. \A q \in Person \ {p} : Stays(q)
  BY <1>2 DEF Stays, PersonInv, Tables
<1>4. PersonMoves(p)
  BY <1>1, <1>2 DEF PersonMoves, PersonHolds, DeletionHolds, Exists, Active, Present
<1>5. realms' = [q \in Person |-> realms'[q]]
  BY DEF PersonInv, Tables
<1>6. QED
  BY <1>2, <1>3, <1>4, <1>5, StaysMoves DEF PersonsMove, PersonInv, Tables

LEMMA SetProvisionalMoves ==
  ASSUME PersonInv, NEW p \in Person, NEW allowed \in BOOLEAN, SetProvisional(p, allowed)
  PROVE  PersonsMove /\ \A q \in Person \ {p} : Stays(q)
<1>1. PersonHolds(p) /\ realms[p] \in RealmRow /\ Present(p)
  BY RowsAreRecords DEF SetProvisional, Present, PersonInv
<1>2. realms' = [q \in Person |->
        IF q = p THEN [realms[p] EXCEPT !.provisional = allowed] ELSE realms[q]]
  BY DEF SetProvisional, PersonInv, Tables
<1>3. /\ realms'[p] \in RealmRow /\ realms'[p].status = realms[p].status
      /\ realms'[p].blocked = realms[p].blocked /\ realms'[p].provisional = allowed
  BY <1>1, <1>2 DEF RealmRow
<1>4. realms' = [realms EXCEPT ![p] = realms'[p]]
  BY <1>2 DEF PersonInv, Tables
<1>5. realms[p].status = "active" => Active(p) /\ people[p].maturity = "established"
  BY <1>1 DEF PersonHolds, Present
<1>6. allowed => Active(p)
  BY <1>1 DEF SetProvisional, Active
<1>7. SetRow(p, people[p]) /\ UNCHANGED <<receipts, defaults>>
  BY DEF SetProvisional
<1>8. QED
  BY <1>1, <1>3, <1>4, <1>5, <1>6, <1>7, MemoryMoves

LEMMA SuspendMoves ==
  ASSUME PersonInv, NEW p \in Person, SuspendMemory(p)
  PROVE  PersonsMove /\ \A q \in Person \ {p} : Stays(q)
<1>1. /\ realms'[p] \in RealmRow
      /\ realms'[p].status = "inactive" /\ ~realms'[p].provisional /\ realms'[p].blocked
  BY DeactivateEffect DEF SuspendMemory
<1>2. realms' = [realms EXCEPT ![p] = realms'[p]]
  BY DEF SuspendMemory, Deactivate, PersonInv, Tables
<1>3. Present(p) /\ SetRow(p, people[p]) /\ UNCHANGED <<receipts, defaults>>
  BY DEF SuspendMemory
<1>4. QED
  BY <1>1, <1>2, <1>3, MemoryMoves

LEMMA RestoreMemoryMoves ==
  ASSUME PersonInv, NEW p \in Person, RestoreMemory(p)
  PROVE  PersonsMove /\ \A q \in Person \ {p} : Stays(q)
<1>1. Active(p) /\ Present(p) /\ Exists(p) /\ people[p].maturity = "established"
  BY DEF RestoreMemory, Active, Present
<1>2. PersonHolds(p) /\ realms[p] \in RealmRow
  BY <1>1, RowsAreRecords DEF PersonInv
<1>3. realms' = [q \in Person |->
        IF q = p THEN [realms[p] EXCEPT !.status = "active"] ELSE realms[q]]
  BY DEF RestoreMemory, PersonInv, Tables
<1>4. realms'[p] \in RealmRow
  BY <1>2, <1>3 DEF RealmRow
<1>5. realms' = [realms EXCEPT ![p] = realms'[p]]
  BY <1>3 DEF PersonInv, Tables
<1>6. SetRow(p, people[p]) /\ UNCHANGED <<receipts, defaults>>
  BY DEF RestoreMemory
<1>7. QED
  BY <1>1, <1>4, <1>5, <1>6, MemoryMoves

LEMMA DefaultsMove ==
  ASSUME PersonInv, NEW new \in Policy, SetMemoryDefaults(new)
  PROVE  PersonsMove /\ \A q \in Person : Stays(q)
<1>1. \A q \in Person : Stays(q)
  BY DEF SetMemoryDefaults, Stays
<1>2. QED
  BY <1>1, StaysMoves DEF PersonsMove, PersonInv, Tables, SetMemoryDefaults

LEMMA PersonStepMoves ==
  ASSUME PersonInv, PersonStep
  PROVE  PersonsMove
BY CreateMoves, UpdateMoves, RetireMoves, ElapseMoves, RestoreMoves, BeginDeletionMoves,
   SetProvisionalMoves, SuspendMoves, RestoreMemoryMoves, RetainMoves, DefaultsMove
DEF PersonStep

\* Only Archive takes a Person away from its voice.
PresentStay == \A q \in Person : Present(q) => Present(q)'
\* A step brings at most one candidate into the pool, and only into a free place.
PoolStep ==
  \/ Pool' \subseteq Pool
  \/ HasCapacity /\ \E p \in Person : Pool' \subseteq Pool \cup {p}

LEMMA PoolGrowsByOne ==
  ASSUME NEW p \in Person, \A q \in Person \ {p} : people'[q] = people[q],
         p \in Pool' => p \in Pool \/ HasCapacity
  PROVE  PoolStep
<1>1. Pool' \subseteq Pool \cup {p}
  BY DEF Pool, Exists, InPool
<1>2. CASE p \in Pool'
  BY <1>1, <1>2 DEF PoolStep
<1>3. CASE p \notin Pool'
  BY <1>1, <1>3 DEF PoolStep
<1>4. QED
  BY <1>2, <1>3

LEMMA RowSetKeeps ==
  ASSUME PersonInv, NEW p \in Person, Exists(p), NEW row \in PersonRow, SetRow(p, row)
  PROVE  /\ people[p].deleted \/ ~row.deleted => PresentStay
         /\ (InPool(row) => p \in Pool \/ HasCapacity) => PoolStep
<1>1. /\ people'[p] \in PersonRow /\ people'[p].deleted = row.deleted
      /\ people'[p].status = row.status /\ people'[p].maturity = row.maturity
      /\ people'[p].recognition = row.recognition /\ people'[p].recent = row.recent
      /\ \A q \in Person \ {p} : people'[q] = people[q]
  BY RowSet
<1>2. row.deleted \in BOOLEAN
  BY DEF PersonRow
<1>3. people[p].deleted \/ ~row.deleted => PresentStay
  BY <1>1, <1>2 DEF PresentStay, Present, Exists
<1>4. p \in Pool' => InPool(row)
  BY <1>1 DEF Pool, InPool
<1>5. QED
  BY <1>1, <1>3, <1>4, PoolGrowsByOne

LEMMA SameRowKeeps ==
  ASSUME PersonInv, NEW p \in Person, Exists(p), SetRow(p, people[p])
  PROVE  PresentStay /\ PoolStep
<1>1. people[p] \in PersonRow /\ people[p].deleted \in BOOLEAN
  BY RowsAreRecords DEF PersonInv, PersonRow
<1>2. InPool(people[p]) => p \in Pool
  BY DEF Pool
<1>3. QED
  BY <1>1, <1>2, RowSetKeeps

LEMMA SamePeopleKeep ==
  ASSUME UNCHANGED people
  PROVE  PresentStay /\ PoolStep
BY DEF PresentStay, PoolStep, Pool, Present, Exists

LEMMA InsertKeeps ==
  ASSUME PersonInv, NEW p \in Person, NEW maturity \in {"candidate", "established"},
         Unused(p), InsertPerson(p, maturity), maturity = "candidate" => HasCapacity
  PROVE  PresentStay /\ PoolStep /\ Present(p)'
<1> DEFINE row == [status |-> "active", deleted |-> FALSE, maturity |-> maturity,
                   recognition |-> "active", recent |-> maturity = "candidate", revision |-> 1]
<1>1. people' = [q \in Person |-> IF q = p THEN row ELSE people[q]]
  BY DEF InsertPerson, PersonInv, Tables
<1>2. row \in PersonRow
  BY DEF PersonRow
<1>3. row # None /\ ~row.deleted /\ row.maturity = maturity
  BY <1>2
<1> HIDE DEF row
<1>4. PresentStay /\ Present(p)'
  BY <1>1, <1>3 DEF PresentStay, Present, Exists
<1>5. p \in Pool' => HasCapacity
  BY <1>1, <1>3 DEF Pool, InPool
<1>6. QED
  BY <1>1, <1>4, <1>5, PoolGrowsByOne

LEMMA PersonStepKeeps ==
  ASSUME PersonInv, PersonStep
  PROVE  PresentStay /\ PoolStep
<1>1. ASSUME NEW p \in Person, NEW maturity \in {"candidate", "established"}, Create(p, maturity)
      PROVE  PresentStay /\ PoolStep
  BY <1>1, InsertKeeps DEF Create
<1>2. ASSUME NEW p \in Person, NEW status \in {"active", "inactive"}, Update(p, status)
      PROVE  PresentStay /\ PoolStep
  <2>1. Exists(p) /\ ~people[p].deleted /\ people[p] \in PersonRow
    BY <1>2, RowsAreRecords DEF Update, Present, PersonInv
  <2> DEFINE row == [people[p] EXCEPT !.status = status]
  <2>2. /\ row \in PersonRow /\ ~row.deleted /\ row.maturity = people[p].maturity
        /\ row.recognition = people[p].recognition /\ row.recent = people[p].recent
    BY <2>1 DEF PersonRow
  <2>3. SetRow(p, row) /\ (people[p].status # "active" /\ InPool(row) => HasCapacity)
    BY <1>2 DEF Update, RoomFor
  <2> HIDE DEF row
  <2>4. people[p].status = "active" /\ InPool(row) => p \in Pool
    BY <2>1, <2>2 DEF Pool, InPool
  <2>5. QED
    BY <2>1, <2>2, <2>3, <2>4, RowSetKeeps
<1>3. ASSUME NEW p \in Person, RetireCandidate(p) PROVE PresentStay /\ PoolStep
  <2>1. Exists(p) /\ ~people[p].deleted /\ people[p] \in PersonRow
    BY <1>3, RowsAreRecords DEF RetireCandidate, Present, PersonInv
  <2> DEFINE row == [people[p] EXCEPT !.recognition = "retained"]
  <2>2. row \in PersonRow /\ ~row.deleted /\ row.recognition = "retained"
    BY <2>1 DEF PersonRow
  <2>3. SetRow(p, row)
    BY <1>3 DEF RetireCandidate
  <2> HIDE DEF row
  <2>4. ~InPool(row)
    BY <2>2 DEF InPool
  <2>5. QED
    BY <2>1, <2>2, <2>3, <2>4, RowSetKeeps
<1>4. ASSUME NEW p \in Person, Elapse(p) PROVE PresentStay /\ PoolStep
  <2>1. people[p] \in PersonRow
    BY <1>4, RowsAreRecords DEF Elapse, PersonInv
  <2> DEFINE row == [people[p] EXCEPT !.recent = FALSE]
  <2>2. row \in PersonRow /\ row.deleted = people[p].deleted /\ ~row.recent
    BY <2>1 DEF PersonRow
  <2>3. people' = [q \in Person |-> IF q = p THEN row ELSE people[q]]
    BY <1>4 DEF Elapse, PersonInv, Tables
  <2> HIDE DEF row
  <2>4. PresentStay
    BY <2>2, <2>3 DEF PresentStay, Present, Exists
  <2>5. p \notin Pool'
    BY <2>2, <2>3 DEF Pool, InPool
  <2>6. QED
    BY <2>3, <2>4, <2>5, PoolGrowsByOne
<1>5. ASSUME NEW p \in Person, Restore(p) PROVE PresentStay /\ PoolStep
  <2>1. Exists(p) /\ people[p] \in PersonRow
    BY <1>5, RowsAreRecords DEF Restore, Restorable, PersonInv
  <2> DEFINE row == [people[p] EXCEPT !.deleted = FALSE, !.status = "inactive"]
  <2>2. row \in PersonRow /\ ~row.deleted /\ row.status = "inactive"
    BY <2>1 DEF PersonRow
  <2>3. SetRow(p, row)
    BY <1>5 DEF Restore
  <2> HIDE DEF row
  <2>4. ~InPool(row)
    BY <2>2 DEF InPool
  <2>5. QED
    BY <2>1, <2>2, <2>3, <2>4, RowSetKeeps
<1>6. ASSUME NEW p \in Person,
             \/ BeginDeletion(p) \/ SuspendMemory(p) \/ RestoreMemory(p)
             \/ \E allowed \in BOOLEAN : SetProvisional(p, allowed)
      PROVE  PresentStay /\ PoolStep
  BY <1>6, SameRowKeeps DEF BeginDeletion, SuspendMemory, RestoreMemory, SetProvisional, Active, Present
<1>7. ASSUME RetainExpired PROVE PresentStay /\ PoolStep
  <2>1. ASSUME NEW q \in Person, Exists(q)
        PROVE  (Present(q) => Present(q)') /\ (q \in Pool' => q \in Pool)
    <3>1. people[q] \in PersonRow /\ people[q].revision \in Nat \ {0}
      BY <2>1, RowsAreRecords DEF PersonInv
    <3> DEFINE n == people[q].revision + 1
               row == [people[q] EXCEPT !.recognition = "retained", !.revision = n]
    <3> n \in Nat \ {0}
      BY <3>1
    <3> HIDE DEF n
    <3>2. row \in PersonRow /\ row.deleted = people[q].deleted /\ row.recognition = "retained"
      BY <3>1 DEF PersonRow
    <3>3. people'[q] = people[q] \/ people'[q] = row
      BY <1>7 DEF RetainExpired, n
    <3> HIDE DEF row
    <3>4. CASE people'[q] = people[q]
      BY <2>1, <3>4 DEF Present, Exists, Pool
    <3>5. CASE people'[q] = row
      BY <2>1, <3>2, <3>5 DEF Present, Exists, Pool, InPool
    <3>6. QED
      BY <3>3, <3>4, <3>5
  <2>2. \A q \in Person : ~Exists(q) => people'[q] = None
    BY <1>7 DEF RetainExpired, Expired, Present, Exists
  <2>3. QED
    BY <2>1, <2>2 DEF PresentStay, PoolStep, Pool, Present, Exists
<1>8. ASSUME NEW new \in Policy, SetMemoryDefaults(new) PROVE PresentStay /\ PoolStep
  BY <1>8, SamePeopleKeep DEF SetMemoryDefaults
<1>9. QED
  BY <1>1, <1>2, <1>3, <1>4, <1>5, <1>6, <1>7, <1>8 DEF PersonStep

LEMMA ArchiveKeepsPool ==
  ASSUME PersonInv, NEW p \in Person, ArchivePerson(p)
  PROVE  PoolStep
<1>1. Exists(p) /\ people[p] \in PersonRow
  BY RowsAreRecords DEF ArchivePerson, Present, PersonInv
<1> DEFINE row == [people[p] EXCEPT !.deleted = TRUE, !.status = "inactive"]
<1>2. row \in PersonRow /\ row.deleted
  BY <1>1 DEF PersonRow
<1>3. SetRow(p, row)
  BY DEF ArchivePerson
<1> HIDE DEF row
<1>4. ~InPool(row)
  BY <1>2 DEF InPool
<1>5. QED
  BY <1>1, <1>2, <1>3, <1>4, RowSetKeeps

LEMMA RemoveKeepsPool ==
  ASSUME PersonInv, NEW p \in Person, RemovePerson(p)
  PROVE  PoolStep
<1>1. people' = [q \in Person |-> IF q = p THEN None ELSE people[q]]
  BY DEF RemovePerson, PersonInv, Tables
<1>2. p \notin Pool'
  BY <1>1 DEF Pool, Exists
<1>3. QED
  BY <1>1, <1>2, PoolGrowsByOne

LEMMA PoolStaysBounded ==
  ASSUME PoolBounded, PoolStep
  PROVE  PoolBounded'
<1>1. Pool \in SUBSET Person /\ Pool' \in SUBSET Person
  BY DEF Pool
<1>2. IsFiniteSet(Pool) /\ Cardinality(Pool) \in Nat
  BY <1>1, PersonAssumption, FS_Subset, FS_CardinalityType
<1>3. IsFiniteSet(Pool') /\ Cardinality(Pool') \in Nat
  BY <1>1, PersonAssumption, FS_Subset, FS_CardinalityType
<1>4. CASE Pool' \subseteq Pool
  <2>1. Cardinality(Pool') <= Cardinality(Pool)
    BY <1>2, <1>4, FS_Subset
  <2>2. QED
    BY <1>2, <1>3, <2>1, PersonAssumption DEF PoolBounded
<1>5. ASSUME NEW p \in Person, HasCapacity, Pool' \subseteq Pool \cup {p} PROVE PoolBounded'
  <2>1. IsFiniteSet(Pool \cup {p}) /\ Cardinality(Pool \cup {p}) <= Cardinality(Pool) + 1
    BY <1>2, FS_AddElement
  <2>2. Cardinality(Pool') <= Cardinality(Pool \cup {p}) /\ Cardinality(Pool \cup {p}) \in Nat
    BY <1>5, <2>1, FS_Subset, FS_CardinalityType
  <2>3. QED
    BY <1>2, <1>3, <1>5, <2>1, <2>2, PersonAssumption DEF PoolBounded, HasCapacity
<1>6. QED
  BY <1>4, <1>5 DEF PoolStep

-----------------------------------------------------------------------------
(* Voices. *)

USE VoiceAssumption, VoiceNoneAssumption

VoiceTables ==
  /\ profiles \in [Profile -> ProfileRow \cup {None}]
  /\ enrollments \in [Enrollment -> EnrollmentRow \cup {None}]
  /\ observations \in [Turn -> ObservationRow \cup {None}]

\* The enrollments that name a profile are of one Person, whose voice it is once
\* it exists; those that are ready made revisions it has left behind or has.
Lines ==
  /\ \A e, f \in Enrollment :
       HasRow(enrollments, e) /\ HasRow(enrollments, f)
         /\ enrollments[e].profile = enrollments[f].profile
       => enrollments[e].person = enrollments[f].person
  /\ \A e \in Enrollment :
       HasRow(enrollments, e) /\ HasRow(profiles, enrollments[e].profile)
       => profiles[enrollments[e].profile].person = enrollments[e].person
  /\ \A e \in Enrollment :
       HasRow(enrollments, e) /\ enrollments[e].state = "ready"
       => /\ HasRow(profiles, enrollments[e].profile)
          /\ enrollments[e].target < profiles[enrollments[e].profile].revision

VoiceInv == VoiceTables /\ OneVoice /\ EvidenceHasVoice /\ Lines /\ RevisionsMadeOnce

\* What a step that leaves the profiles alone does to an enrollment.
EnrollmentMoves(e) ==
  \/ enrollments'[e] = enrollments[e]
  \/ /\ HasRow(enrollments, e) /\ enrollments'[e] # None
     /\ enrollments'[e].person = enrollments[e].person
     /\ enrollments'[e].profile = enrollments[e].profile
     /\ enrollments[e].state # "ready" /\ enrollments'[e].state # "ready"
     /\ enrollments'[e].samples > 0 => enrollments'[e].state = "collecting"
     /\ enrollments[e].state \in {"expired", "cancelled"} => enrollments'[e].state = "cancelled"

LEMMA EnrollmentsMove ==
  ASSUME VoiceInv, PresentStay, UNCHANGED profiles, VoiceTables',
         \A e \in Enrollment : EnrollmentMoves(e)
  PROVE  VoiceInv'
<1>1. OneVoice'
  BY DEF VoiceInv, VoiceTables, OneVoice, PresentStay, EnrollmentMoves, HasRow, ProfileRow, EnrollmentRow
<1>2. EvidenceHasVoice'
  BY DEF VoiceInv, VoiceTables, EvidenceHasVoice, EnrollmentMoves, HasRow, ProfileRow, EnrollmentRow
<1>3. Lines'
  BY DEF VoiceInv, VoiceTables, Lines, EnrollmentMoves, HasRow
<1>4. RevisionsMadeOnce'
  BY DEF VoiceInv, RevisionsMadeOnce, EnrollmentMoves, HasRow
<1>5. QED
  BY <1>1, <1>2, <1>3, <1>4 DEF VoiceInv

StaysPresent(p) == people'[p] # None /\ ~people'[p].deleted

\* A step that removes profiles and enrollments, none without those it depends on.
LEMMA RowsGo ==
  ASSUME VoiceInv, NEW V \in SUBSET Profile, NEW E \in SUBSET Enrollment,
         profiles' = Without(profiles, V), enrollments' = Without(enrollments, E),
         VoiceTables',
         \A e \in Enrollment : HasRow(enrollments, e) /\ enrollments[e].profile \in V => e \in E,
         \A e \in E : HasRow(enrollments, e) /\ HasRow(profiles, enrollments[e].profile)
           => enrollments[e].profile \in V,
         \A v \in Profile \ V : HasRow(profiles, v) => StaysPresent(profiles[v].person),
         \A e \in Enrollment \ E : HasRow(enrollments, e) => StaysPresent(enrollments[e].person)
  PROVE  VoiceInv'
<1>1. /\ \A v \in Profile : profiles'[v] = IF v \in V THEN None ELSE profiles[v]
      /\ \A e \in Enrollment : enrollments'[e] = IF e \in E THEN None ELSE enrollments[e]
  BY DEF Without, VoiceInv, VoiceTables
<1>2. OneVoice'
  BY <1>1 DEF VoiceInv, OneVoice, HasRow, StaysPresent, Present, Exists
<1>3. EvidenceHasVoice'
  BY <1>1 DEF VoiceInv, VoiceTables, EvidenceHasVoice, HasRow, EnrollmentRow, ProfileRow
<1>4. Lines'
  BY <1>1 DEF VoiceInv, VoiceTables, Lines, HasRow, EnrollmentRow
<1>5. RevisionsMadeOnce'
  BY <1>1 DEF VoiceInv, RevisionsMadeOnce, HasRow
<1>6. QED
  BY <1>2, <1>3, <1>4, <1>5 DEF VoiceInv

\* One row of an enrollment that is not ready is rewritten.
LEMMA OneEnrollmentMoves ==
  ASSUME VoiceInv, NEW e \in Enrollment, HasRow(enrollments, e), NEW row \in EnrollmentRow,
         enrollments' = [enrollments EXCEPT ![e] = row],
         row.person = enrollments[e].person, row.profile = enrollments[e].profile,
         enrollments[e].state # "ready", row.state # "ready",
         row.samples > 0 => row.state = "collecting",
         enrollments[e].state \in {"expired", "cancelled"} => row.state = "cancelled",
         UNCHANGED <<personVars, profiles, observations>>
  PROVE  VoiceInv' /\ \A f \in Enrollment : EnrollmentMoves(f)
<1>1. PresentStay
  BY DEF PresentStay, Present, Exists, personVars
<1>2. VoiceTables'
  BY DEF VoiceInv, VoiceTables
<1>3. \A f \in Enrollment : EnrollmentMoves(f)
  BY DEF VoiceInv, VoiceTables, EnrollmentMoves, HasRow
<1>4. QED
  BY <1>1, <1>2, <1>3, EnrollmentsMove

LEMMA EnrollmentsAreRecords ==
  ASSUME VoiceInv, NEW e \in Enrollment, HasRow(enrollments, e)
  PROVE  /\ enrollments[e] \in EnrollmentRow
         /\ enrollments[e].person \in Person /\ enrollments[e].profile \in Profile
         /\ enrollments[e].target \in Nat /\ enrollments[e].samples \in 0..Required
BY DEF VoiceInv, VoiceTables, HasRow, EnrollmentRow

LEMMA EndedRow ==
  ASSUME NEW row \in EnrollmentRow, NEW state \in {"expired", "cancelled"}
  PROVE  /\ Ended(row, state) \in EnrollmentRow
         /\ Ended(row, state).person = row.person /\ Ended(row, state).profile = row.profile
         /\ Ended(row, state).state = state /\ Ended(row, state).samples = 0
<1>1. 0 \in 0..Required
  OBVIOUS
<1>2. CASE state = "expired"
  BY <1>1, <1>2 DEF Ended, EnrollmentRow
<1>3. CASE state = "cancelled"
  BY <1>1, <1>3 DEF Ended, EnrollmentRow
<1>4. QED
  BY <1>2, <1>3

LEMMA PassTimeMoves ==
  ASSUME VoiceInv, NEW e \in Enrollment, PassTime(e)
  PROVE  VoiceInv' /\ \A f \in Enrollment : EnrollmentMoves(f)
<1>1. enrollments[e] \in EnrollmentRow
  BY EnrollmentsAreRecords DEF PassTime
<1> DEFINE row == [enrollments[e] EXCEPT !.overdue = TRUE]
<1>2. row \in EnrollmentRow /\ row.person = enrollments[e].person
      /\ row.profile = enrollments[e].profile /\ row.state = enrollments[e].state
  BY <1>1 DEF EnrollmentRow
<1>3. enrollments' = [enrollments EXCEPT ![e] = row]
  BY DEF PassTime
<1> HIDE DEF row
<1>4. QED
  BY <1>1, <1>2, <1>3, OneEnrollmentMoves DEF PassTime

LEMMA ReadEnrollmentMoves ==
  ASSUME VoiceInv, NEW e \in Enrollment, ReadEnrollment(e)
  PROVE  VoiceInv' /\ \A f \in Enrollment : EnrollmentMoves(f)
<1>1. HasRow(enrollments, e) /\ enrollments[e].state = "collecting"
  BY DEF ReadEnrollment, Overdue
<1>2. enrollments[e] \in EnrollmentRow
  BY <1>1, EnrollmentsAreRecords
<1> DEFINE row == Ended(enrollments[e], "expired")
<1>3. /\ row \in EnrollmentRow /\ row.person = enrollments[e].person
      /\ row.profile = enrollments[e].profile /\ row.state = "expired" /\ row.samples = 0
  BY <1>2, EndedRow
<1>4. /\ enrollments' = [enrollments EXCEPT ![e] = row]
      /\ UNCHANGED <<personVars, profiles, observations>>
  BY DEF ReadEnrollment
<1> HIDE DEF row
<1>5. row.samples > 0 => row.state = "collecting"
  BY <1>3
<1>6. QED
  BY <1>1, <1>3, <1>4, <1>5, OneEnrollmentMoves

LEMMA CancelMoves ==
  ASSUME VoiceInv, NEW e \in Enrollment, Cancel(e)
  PROVE  VoiceInv' /\ \A f \in Enrollment : EnrollmentMoves(f)
<1>1. enrollments[e] \in EnrollmentRow
  BY EnrollmentsAreRecords DEF Cancel
<1> DEFINE row == Ended(enrollments[e], "cancelled")
<1>2. /\ row \in EnrollmentRow /\ row.person = enrollments[e].person
      /\ row.profile = enrollments[e].profile /\ row.state = "cancelled" /\ row.samples = 0
  BY <1>1, EndedRow
<1>3. /\ enrollments' = [enrollments EXCEPT ![e] = row]
      /\ HasRow(enrollments, e) /\ enrollments[e].state # "ready"
      /\ UNCHANGED <<personVars, profiles, observations>>
  BY DEF Cancel
<1> HIDE DEF row
<1>4. row.samples > 0 => row.state = "collecting"
  BY <1>2
<1>5. QED
  BY <1>2, <1>3, <1>4, OneEnrollmentMoves

LEMMA AddSampleMoves ==
  ASSUME VoiceInv, NEW e \in Enrollment, AddSample(e)
  PROVE  VoiceInv' /\ \A f \in Enrollment : EnrollmentMoves(f)
<1>1. /\ HasRow(enrollments, e) /\ enrollments[e].state = "collecting"
      /\ enrollments[e].samples < Required
  BY DEF AddSample, Collecting
<1>2. enrollments[e] \in EnrollmentRow /\ enrollments[e].samples + 1 \in 0..Required
  BY <1>1, EnrollmentsAreRecords
<1> DEFINE n == enrollments[e].samples + 1
           row == [enrollments[e] EXCEPT !.samples = n]
<1>3. enrollments' = [enrollments EXCEPT ![e] = row]
  BY DEF AddSample
<1> n \in 0..Required
  BY <1>2
<1> HIDE DEF n
<1>4. row \in EnrollmentRow /\ row.person = enrollments[e].person
      /\ row.profile = enrollments[e].profile /\ row.state = enrollments[e].state
  BY <1>2 DEF EnrollmentRow
<1> HIDE DEF row
<1>5. QED
  BY <1>1, <1>3, <1>4, OneEnrollmentMoves DEF AddSample

LEMMA ExpireMoves ==
  ASSUME VoiceInv, ExpireEnrollments
  PROVE  VoiceInv' /\ \A f \in Enrollment : EnrollmentMoves(f)
<1>1. PresentStay
  BY DEF PresentStay, Present, Exists, personVars, ExpireEnrollments
<1>2. ASSUME NEW f \in Enrollment
      PROVE  enrollments'[f] \in EnrollmentRow \cup {None} /\ EnrollmentMoves(f)
  <2>1. CASE Overdue(f)
    <3>1. HasRow(enrollments, f) /\ enrollments[f].state = "collecting"
      BY <2>1 DEF Overdue
    <3>2. enrollments[f] \in EnrollmentRow
      BY <3>1, EnrollmentsAreRecords
    <3>3. enrollments'[f] = Ended(enrollments[f], "expired")
      BY <2>1 DEF ExpireEnrollments
    <3>4. QED
      BY <3>1, <3>2, <3>3, EndedRow DEF EnrollmentMoves, HasRow
  <2>2. CASE ~Overdue(f)
    BY <2>2 DEF ExpireEnrollments, EnrollmentMoves, VoiceInv, VoiceTables
  <2>3. QED
    BY <2>1, <2>2
<1>3. VoiceTables'
  BY <1>2 DEF ExpireEnrollments, VoiceInv, VoiceTables
<1>4. QED
  BY <1>1, <1>2, <1>3, EnrollmentsMove DEF ExpireEnrollments

LEMMA CreateEnrollmentKeeps ==
  ASSUME VoiceInv, NEW e \in Enrollment, NEW p \in Person, NEW v \in Profile,
         CreateEnrollment(e, p, v)
  PROVE  VoiceInv'
<1> DEFINE row == [person |-> p, profile |-> v, target |-> RevisionOf(v),
                   state |-> "collecting", samples |-> 0, overdue |-> FALSE]
<1>1. RevisionOf(v) \in Nat
  BY DEF RevisionOf, VoiceInv, VoiceTables, HasRow, ProfileRow
<1>2. row \in EnrollmentRow
  BY <1>1 DEF EnrollmentRow
<1>3. /\ row # None /\ row.person = p /\ row.profile = v
      /\ row.state = "collecting" /\ row.samples = 0
  BY <1>2
<1>4. enrollments' = [f \in Enrollment |-> IF f = e THEN row ELSE enrollments[f]]
  BY DEF CreateEnrollment, VoiceInv, VoiceTables
<1> HIDE DEF row
<1>5. VoiceTables'
  <2>1. VoiceTables /\ UNCHANGED <<profiles, observations>>
    BY DEF CreateEnrollment, VoiceInv
  <2>2. enrollments' \in [Enrollment -> EnrollmentRow \cup {None}]
    BY <1>2, <1>4, <2>1 DEF VoiceTables
  <2>3. QED
    BY <2>1, <2>2 DEF VoiceTables
<1>6. UNCHANGED <<profiles, people>> /\ Present(p) /\ enrollments[e] = None
  BY DEF CreateEnrollment, NotBegun, HasRow, Active, personVars
<1>7. \/ HasRow(profiles, v) /\ profiles[v].person = p
      \/ Fresh(v)
  BY DEF CreateEnrollment, ProfilesOf
<1>8. OneVoice'
  BY <1>3, <1>4, <1>6 DEF VoiceInv, OneVoice, HasRow, Present, Exists
<1>9. EvidenceHasVoice'
  BY <1>3, <1>4, <1>6 DEF VoiceInv, VoiceTables, EvidenceHasVoice, HasRow, ProfileRow
<1>10. \A f \in Enrollment :
         HasRow(enrollments, f) /\ enrollments[f].profile = v => enrollments[f].person = p
  BY <1>7 DEF VoiceInv, Lines, Fresh, HasRow
<1>11. Lines'
  BY <1>3, <1>4, <1>6, <1>7, <1>10 DEF VoiceInv, Lines, Fresh, HasRow
<1>12. RevisionsMadeOnce'
  BY <1>3, <1>4 DEF VoiceInv, RevisionsMadeOnce, HasRow
<1>13. QED
  BY <1>5, <1>8, <1>9, <1>11, <1>12 DEF VoiceInv

LEMMA CompleteKeeps ==
  ASSUME VoiceInv, NEW e \in Enrollment, Complete(e)
  PROVE  VoiceInv'
<1> DEFINE p == enrollments[e].person
           v == enrollments[e].profile
           r == enrollments[e].target
<1>1. /\ HasRow(enrollments, e) /\ enrollments[e].state = "collecting"
      /\ enrollments[e].samples = Required
      /\ Active(p) /\ ProfilesOf(p) \subseteq {v} /\ RevisionOf(v) = r
  BY DEF Complete, Collecting, Unchanged
<1>2. enrollments[e] \in EnrollmentRow /\ p \in Person /\ v \in Profile /\ r \in Nat
  BY <1>1, EnrollmentsAreRecords
<1> DEFINE row == [person |-> p, revision |-> r + 1, enrollment |-> e]
<1>3. row \in ProfileRow
  BY <1>2 DEF ProfileRow
<1>4. row # None /\ row.person = p /\ row.revision = r + 1 /\ row.enrollment = e
  BY <1>3
<1>5. profiles' = [w \in Profile |-> IF w = v THEN row ELSE profiles[w]]
  BY <1>1 DEF Complete, VoiceInv, VoiceTables
<1> DEFINE done == [enrollments[e] EXCEPT !.state = "ready"]
<1>6. /\ done \in EnrollmentRow /\ done.person = p /\ done.profile = v /\ done.target = r
      /\ done.state = "ready"
  BY <1>2 DEF EnrollmentRow
<1>7. done # None
  BY <1>6
<1>8. enrollments'[e] = done
  BY DEF Complete, Replaced
<1> HIDE DEF row, done
<1>9. ASSUME NEW f \in Enrollment \ {e}
      PROVE  /\ enrollments'[f] \in EnrollmentRow \cup {None}
             /\ HasRow(enrollments, f) <=> enrollments'[f] # None
             /\ HasRow(enrollments, f) =>
                  /\ enrollments'[f].person = enrollments[f].person
                  /\ enrollments'[f].profile = enrollments[f].profile
                  /\ enrollments'[f].target = enrollments[f].target
                  /\ enrollments'[f].state = enrollments[f].state
                  /\ enrollments[f].state # "ready" => enrollments'[f].samples = enrollments[f].samples
                  /\ enrollments[f].state = "ready" =>
                       enrollments'[f].samples =
                         IF enrollments[f].profile = v THEN 0 ELSE enrollments[f].samples
  <2>1. CASE HasRow(enrollments, f) /\ enrollments[f].state = "ready" /\ enrollments[f].profile = v
    <3>1. enrollments[f] \in EnrollmentRow
      BY <2>1, EnrollmentsAreRecords
    <3>2. enrollments'[f] = [enrollments[f] EXCEPT !.samples = 0]
      BY <2>1 DEF Complete, Replaced
    <3>3. 0 \in 0..Required
      OBVIOUS
    <3>4. /\ enrollments'[f] \in EnrollmentRow
          /\ enrollments'[f].person = enrollments[f].person
          /\ enrollments'[f].profile = enrollments[f].profile
          /\ enrollments'[f].target = enrollments[f].target
          /\ enrollments'[f].state = enrollments[f].state /\ enrollments'[f].samples = 0
      BY <3>1, <3>2, <3>3 DEF EnrollmentRow
    <3>5. QED
      BY <2>1, <3>4
  <2>2. CASE ~(HasRow(enrollments, f) /\ enrollments[f].state = "ready" /\ enrollments[f].profile = v)
    <3>1. enrollments'[f] = enrollments[f]
      BY <2>2 DEF Complete, Replaced
    <3>2. QED
      BY <2>2, <3>1 DEF HasRow, VoiceInv, VoiceTables
  <2>3. QED
    BY <2>1, <2>2
<1>10. VoiceTables'
  <2>1. enrollments' = [f \in Enrollment |-> enrollments'[f]]
    BY DEF Complete, Replaced
  <2>2. enrollments' \in [Enrollment -> EnrollmentRow \cup {None}]
    BY <1>6, <1>8, <1>9, <2>1
  <2>3. profiles \in [Profile -> ProfileRow \cup {None}]
        /\ observations \in [Turn -> ObservationRow \cup {None}]
    BY DEF VoiceInv, VoiceTables
  <2>4. profiles' \in [Profile -> ProfileRow \cup {None}]
    BY <1>3, <1>5, <2>3
  <2>5. observations' = observations
    BY DEF Complete
  <2>6. QED
    BY <2>2, <2>3, <2>4, <2>5 DEF VoiceTables
<1>11. UNCHANGED people /\ Present(p)
  BY <1>1 DEF Complete, personVars, Active
<1> HIDE DEF p, v, r
<1>12. \A w \in Profile : HasRow(profiles, w) /\ profiles[w].person = p => w = v
  BY <1>1 DEF ProfilesOf
<1>13. OneVoice'
  BY <1>2, <1>4, <1>5, <1>6, <1>7, <1>8, <1>9, <1>11, <1>12 DEF VoiceInv, OneVoice, HasRow, Present, Exists
<1>14. HasRow(profiles, v) => profiles[v].revision = r
  BY <1>1 DEF RevisionOf
<1>15. \A f \in Enrollment : HasRow(enrollments, f) /\ enrollments[f].profile = v =>
         enrollments[f].person = p
  BY <1>1, <1>2 DEF VoiceInv, Lines, p, v
<1>16. \A f \in Enrollment :
         HasRow(enrollments, f) /\ enrollments[f].state = "ready" /\ enrollments[f].profile = v
           => enrollments[f].target < r
  BY <1>2, <1>14 DEF VoiceInv, Lines
<1>17. EvidenceHasVoice'
  <2>1. ASSUME NEW f \in Enrollment, enrollments'[f] # None, enrollments'[f].samples > 0
        PROVE  \/ enrollments'[f].state = "collecting"
               \/ /\ enrollments'[f].state = "ready"
                  /\ profiles'[enrollments'[f].profile] # None
                  /\ profiles'[enrollments'[f].profile].enrollment = f
    <3>1. CASE f = e
      BY <1>2, <1>4, <1>5, <1>6, <1>8, <3>1
    <3>2. CASE f # e
      <4>1. /\ HasRow(enrollments, f) /\ enrollments[f].profile \in Profile
            /\ enrollments[f].samples \in 0..Required
        BY <1>9, <2>1, <3>2, EnrollmentsAreRecords
      <4>2. enrollments[f].samples > 0
            /\ ~(enrollments[f].state = "ready" /\ enrollments[f].profile = v)
        BY <1>9, <2>1, <3>2, <4>1
      <4>3. enrollments'[f].state = enrollments[f].state
            /\ enrollments'[f].profile = enrollments[f].profile
        BY <1>9, <3>2, <4>1
      <4>4. QED
        BY <1>5, <4>1, <4>2, <4>3 DEF VoiceInv, EvidenceHasVoice, HasRow
    <3>3. QED
      BY <3>1, <3>2
  <2>2. \A w \in Profile : profiles'[w] # None /\ profiles'[w].enrollment # None =>
          /\ enrollments'[profiles'[w].enrollment] # None
          /\ enrollments'[profiles'[w].enrollment].state = "ready"
          /\ enrollments'[profiles'[w].enrollment].profile = w
    <3>1. ASSUME NEW w \in Profile \ {v}, HasRow(profiles, w), profiles[w].enrollment # None
          PROVE  LET f == profiles[w].enrollment IN
                 /\ f \in Enrollment \ {e} /\ HasRow(enrollments, f)
                 /\ enrollments[f].state = "ready" /\ enrollments[f].profile = w
      BY <1>1, <3>1 DEF VoiceInv, VoiceTables, EvidenceHasVoice, HasRow, ProfileRow
    <3>2. QED
      BY <1>4, <1>5, <1>6, <1>7, <1>8, <1>9, <3>1 DEF HasRow
  <2>3. QED
    BY <2>1, <2>2 DEF EvidenceHasVoice, HasRow
<1>18. Lines'
  <2>1. \A f, g \in Enrollment :
          enrollments'[f] # None /\ enrollments'[g] # None
            /\ enrollments'[f].profile = enrollments'[g].profile
          => enrollments'[f].person = enrollments'[g].person
    BY <1>6, <1>8, <1>9, <1>15 DEF VoiceInv, Lines, HasRow
  <2>2. \A f \in Enrollment :
          enrollments'[f] # None /\ profiles'[enrollments'[f].profile] # None
          => profiles'[enrollments'[f].profile].person = enrollments'[f].person
    <3>1. ASSUME NEW f \in Enrollment \ {e}, HasRow(enrollments, f)
          PROVE  enrollments[f].profile \in Profile
      BY <3>1, EnrollmentsAreRecords
    <3>2. QED
      BY <1>2, <1>4, <1>5, <1>6, <1>8, <1>9, <1>15, <3>1 DEF VoiceInv, Lines, HasRow
  <2>3. \A f \in Enrollment :
          enrollments'[f] # None /\ enrollments'[f].state = "ready"
          => /\ profiles'[enrollments'[f].profile] # None
             /\ enrollments'[f].target < profiles'[enrollments'[f].profile].revision
    <3>1. ASSUME NEW f \in Enrollment \ {e}, HasRow(enrollments, f)
          PROVE  enrollments[f].profile \in Profile /\ enrollments[f].target \in Nat
      BY <3>1, EnrollmentsAreRecords
    <3>2. QED
      BY <1>2, <1>4, <1>5, <1>6, <1>8, <1>9, <1>16, <3>1 DEF VoiceInv, Lines, HasRow
  <2>4. QED
    BY <2>1, <2>2, <2>3 DEF Lines, HasRow
<1>19. RevisionsMadeOnce'
  <2>1. \A f \in Enrollment \ {e} : HasRow(enrollments, f) => enrollments[f].target \in Nat
    BY EnrollmentsAreRecords
  <2>2. QED
    BY <1>2, <1>6, <1>8, <1>9, <1>16, <2>1 DEF VoiceInv, RevisionsMadeOnce, HasRow
<1>20. QED
  BY <1>10, <1>13, <1>17, <1>18, <1>19 DEF VoiceInv

LEMMA DeleteProfileKeeps ==
  ASSUME VoiceInv, NEW v \in Profile, DeleteProfile(v)
  PROVE  VoiceInv'
<1>1. /\ profiles' = Without(profiles, {v}) /\ enrollments' = Without(enrollments, EnrollmentsFor(v))
      /\ UNCHANGED <<people, observations>>
  BY DEF DeleteProfile, personVars
<1>2. VoiceTables'
  BY <1>1 DEF Without, VoiceInv, VoiceTables
<1>3. \A q : Present(q) => StaysPresent(q)
  BY <1>1 DEF StaysPresent, Present, Exists
<1>4. EnrollmentsFor(v) \in SUBSET Enrollment
  BY DEF EnrollmentsFor
<1>5. /\ \A e \in Enrollment : HasRow(enrollments, e) /\ enrollments[e].profile \in {v}
           => e \in EnrollmentsFor(v)
      /\ \A e \in EnrollmentsFor(v) : enrollments[e].profile \in {v}
  BY DEF EnrollmentsFor
<1>6. /\ \A w \in Profile \ {v} : HasRow(profiles, w) => StaysPresent(profiles[w].person)
      /\ \A e \in Enrollment \ EnrollmentsFor(v) :
           HasRow(enrollments, e) => StaysPresent(enrollments[e].person)
  BY <1>3 DEF VoiceInv, OneVoice
<1>7. QED
  BY <1>1, <1>2, <1>4, <1>5, <1>6, RowsGo

\* A Person goes, archived or for good, with its voice.
LEMMA EraseVoiceKeeps ==
  ASSUME VoiceInv, NEW p \in Person, EraseVoice(p),
         observations' \in [Turn -> ObservationRow \cup {None}],
         \A q \in Person \ {p} : people'[q] = people[q]
  PROVE  VoiceInv'
<1> DEFINE V == RowsOf(profiles, p)
           E == RowsOf(enrollments, p)
<1>1. /\ V = {v \in Profile : HasRow(profiles, v) /\ profiles[v].person = p}
      /\ E = {e \in Enrollment : HasRow(enrollments, e) /\ enrollments[e].person = p}
  BY DEF RowsOf, VoiceInv, VoiceTables
<1>2. profiles' = Without(profiles, V) /\ enrollments' = Without(enrollments, E)
  BY DEF EraseVoice
<1> HIDE DEF V, E
<1>3. VoiceTables'
  BY <1>2 DEF Without, VoiceInv, VoiceTables
<1>4. /\ \A e \in Enrollment : HasRow(enrollments, e) /\ enrollments[e].profile \in V => e \in E
      /\ \A e \in E : HasRow(enrollments, e) /\ HasRow(profiles, enrollments[e].profile)
           => enrollments[e].profile \in V
  <2>1. \A e \in Enrollment : HasRow(enrollments, e) => enrollments[e].profile \in Profile
    BY EnrollmentsAreRecords
  <2>2. QED
    BY <1>1, <2>1 DEF VoiceInv, Lines
<1>5. \A q \in Person \ {p} : Present(q) => StaysPresent(q)
  BY DEF StaysPresent, Present, Exists
<1>6. \A v \in Profile \ V : HasRow(profiles, v) => StaysPresent(profiles[v].person)
  <2>1. \A v \in Profile : HasRow(profiles, v) => profiles[v].person \in Person
    BY DEF VoiceInv, VoiceTables, HasRow, ProfileRow
  <2>2. QED
    BY <1>1, <1>5, <2>1 DEF VoiceInv, OneVoice
<1>7. \A e \in Enrollment \ E : HasRow(enrollments, e) => StaysPresent(enrollments[e].person)
  <2>1. \A e \in Enrollment : HasRow(enrollments, e) => enrollments[e].person \in Person
    BY EnrollmentsAreRecords
  <2>2. QED
    BY <1>1, <1>5, <2>1 DEF VoiceInv, OneVoice
<1>8. V \in SUBSET Profile /\ E \in SUBSET Enrollment
  BY <1>1
<1>9. QED
  BY <1>2, <1>3, <1>4, <1>6, <1>7, <1>8, RowsGo

LEMMA DiscoverKeeps ==
  ASSUME PersonInv, VoiceInv, NEW t \in Turn, NEW v \in Profile, Discover(t, v)
  PROVE  VoiceInv' /\ PersonsMove /\ PoolStep
<1> DEFINE p == DerivedPerson[t]
           row == [person |-> p, revision |-> 1, enrollment |-> None]
           seen == [person |-> p, profile |-> v, revision |-> 1, matched |-> FALSE]
<1>1. p \in Person
  OBVIOUS
<1>2. row \in ProfileRow /\ seen \in ObservationRow
  BY <1>1 DEF ProfileRow, ObservationRow
<1>3. row # None /\ row.person = p /\ row.enrollment = None
  BY <1>2
<1>4. profiles' = [w \in Profile |-> IF w = v THEN row ELSE profiles[w]]
  BY DEF Discover, VoiceInv, VoiceTables
<1>5. observations' \in [Turn -> ObservationRow \cup {None}]
  BY <1>2 DEF Discover, VoiceInv, VoiceTables
<1>6. Unused(p) /\ InsertPerson(p, "candidate") /\ HasCapacity
      /\ UNCHANGED <<receipts, defaults, enrollments>>
  BY DEF Discover
<1>7. Fresh(v)
  BY DEF Discover
<1> HIDE DEF p, row, seen
<1>8. PersonsMove
  BY <1>1, <1>6, InsertMoves
<1>9. PresentStay /\ PoolStep /\ Present(p)'
  BY <1>1, <1>6, InsertKeeps
<1>10. VoiceTables'
  BY <1>2, <1>4, <1>5, <1>6 DEF VoiceInv, VoiceTables
<1>11. \A w \in Profile : HasRow(profiles, w) => profiles[w].person # p
  BY <1>6 DEF VoiceInv, OneVoice, Unused, Present
<1>12. /\ \A w \in Profile : HasRow(profiles, w) => profiles[w].person \in Person
       /\ \A e \in Enrollment : HasRow(enrollments, e) => enrollments[e].person \in Person
  BY EnrollmentsAreRecords DEF VoiceInv, VoiceTables, HasRow, ProfileRow
<1>13. OneVoice'
  BY <1>3, <1>4, <1>6, <1>9, <1>11, <1>12 DEF VoiceInv, OneVoice, PresentStay, HasRow
<1>14. \A e \in Enrollment : HasRow(enrollments, e) =>
         enrollments[e].profile \in Profile /\ enrollments[e].profile # v
  BY <1>7, EnrollmentsAreRecords DEF Fresh
<1>15. EvidenceHasVoice'
  BY <1>3, <1>4, <1>6, <1>14 DEF VoiceInv, EvidenceHasVoice, HasRow
<1>16. Lines'
  BY <1>4, <1>6, <1>14 DEF VoiceInv, Lines, HasRow
<1>17. RevisionsMadeOnce'
  BY <1>6 DEF VoiceInv, RevisionsMadeOnce, HasRow
<1>18. QED
  BY <1>8, <1>9, <1>10, <1>13, <1>15, <1>16, <1>17 DEF VoiceInv

\* The candidate becomes established, and its memory is opened or not.
LEMMA PromotionMoves ==
  ASSUME PersonInv, NEW p \in Person, Exists(p), InPool(people[p]),
         SetRow(p, [people[p] EXCEPT !.maturity = "established"]),
         realms' = [realms EXCEPT ![p] = Prepared(realms[p])],
         UNCHANGED <<receipts, defaults>>
  PROVE  PersonsMove /\ PresentStay /\ PoolStep
<1>1. PersonHolds(p) /\ people[p] \in PersonRow /\ realms[p] \in RealmRow
      /\ people[p].revision \in Nat \ {0} /\ ~people[p].deleted /\ people[p].status = "active"
  BY RowsAreRecords DEF InPool, PersonInv
<1> DEFINE row == [people[p] EXCEPT !.maturity = "established"]
<1>2. /\ row \in PersonRow /\ row.maturity = "established" /\ ~row.deleted
      /\ row.status = "active"
  BY <1>1 DEF PersonRow
<1>3. SetRow(p, row)
  OBVIOUS
<1> HIDE DEF row
<1>4. /\ people' = [q \in Person |-> people'[q]]
      /\ people'[p] \in PersonRow /\ people'[p].revision = people[p].revision + 1
      /\ people'[p].revision <= MaxRevision[p] /\ people'[p].status = "active"
      /\ people'[p].maturity = "established" /\ ~people'[p].deleted
      /\ \A q \in Person \ {p} : people'[q] = people[q]
  BY <1>2, <1>3, RowSet
<1>5. realms' = [q \in Person |-> IF q = p THEN Prepared(realms[p]) ELSE realms[q]]
  BY DEF PersonInv, Tables
<1>6. /\ Prepared(realms[p]) \in RealmRow
      /\ Prepared(realms[p]).blocked = realms[p].blocked
      /\ Prepared(realms[p]).status \in {realms[p].status, "active"}
      /\ realms[p].blocked => Prepared(realms[p]) = realms[p]
  BY <1>1 DEF Prepared, RealmRow
<1>7. \A q \in Person \ {p} : Stays(q)
  BY <1>4, <1>5 DEF Stays
<1>8. realms[p].status # "active" \/ people[p].maturity = "established"
  BY <1>1 DEF PersonHolds
<1>9. realms'[p] = Prepared(realms[p])
  BY <1>5
<1>10. PersonHolds(p)'
  BY <1>1, <1>4, <1>6, <1>9 DEF PersonHolds, DeletionHolds, Exists, Active, Present
<1>11. PersonMoves(p)
  BY <1>1, <1>4, <1>6, <1>8, <1>9, <1>10 DEF PersonMoves, PersonHolds, DeletionHolds
<1>12. PersonsMove
  BY <1>4, <1>5, <1>7, <1>11, StaysMoves DEF PersonsMove, PersonInv, Tables
<1>13. ~InPool(row)
  BY <1>2 DEF InPool
<1>14. QED
  BY <1>2, <1>3, <1>12, <1>13, RowSetKeeps

LEMMA RecordEvidenceKeeps ==
  ASSUME PersonInv, VoiceInv, NEW t \in Turn, NEW v \in Profile, NEW eligible,
         RecordEvidence(t, v, eligible)
  PROVE  VoiceInv' /\ PersonsMove /\ PoolStep
<1> DEFINE p == profiles[v].person
           seen == [person |-> p, profile |-> v, revision |-> profiles[v].revision, matched |-> TRUE]
<1>1. p \in Person /\ profiles[v].revision \in Nat \ {0}
  BY DEF RecordEvidence, VoiceInv, VoiceTables, HasRow, ProfileRow
<1>2. seen \in ObservationRow
  BY <1>1 DEF ObservationRow
<1>3. observations' \in [Turn -> ObservationRow \cup {None}]
  BY <1>2 DEF RecordEvidence, VoiceInv, VoiceTables
<1>4. Exists(p) /\ InPool(people[p]) /\ UNCHANGED <<receipts, defaults, profiles, enrollments>>
  BY DEF RecordEvidence
<1>5. \/ /\ SetRow(p, [people[p] EXCEPT !.maturity = "established"])
         /\ realms' = [realms EXCEPT ![p] = Prepared(realms[p])]
      \/ UNCHANGED <<people, realms>>
  BY DEF RecordEvidence
<1> HIDE DEF p, seen
<1>6. PersonsMove /\ PresentStay /\ PoolStep
  <2>1. CASE UNCHANGED <<people, realms>>
    <3>1. \A q \in Person : Stays(q)
      BY <1>4, <2>1 DEF Stays
    <3>2. PersonsMove
      BY <1>4, <2>1, <3>1, StaysMoves DEF PersonsMove, PersonInv, Tables
    <3>3. QED
      BY <2>1, <3>2, SamePeopleKeep
  <2>2. QED
    BY <1>1, <1>4, <1>5, <2>1, PromotionMoves
<1>7. VoiceTables'
  BY <1>3, <1>4 DEF VoiceInv, VoiceTables
<1>8. \A e \in Enrollment : EnrollmentMoves(e)
  BY <1>4 DEF EnrollmentMoves
<1>9. QED
  BY <1>4, <1>6, <1>7, <1>8, EnrollmentsMove

-----------------------------------------------------------------------------
(* The invariant, and each step from it. *)

IInv == PersonInv /\ VoiceInv /\ PoolBounded

LEMMA InitHolds ==
  ASSUME Init
  PROVE  IInv
<1>1. PersonInv
  BY DEF Init, PersonInit, PersonInv, Tables, PersonHolds, DeletionHolds, Exists
<1>2. VoiceInv
  BY DEF Init, VoiceInv, VoiceTables, OneVoice, EvidenceHasVoice, Lines, RevisionsMadeOnce, HasRow
<1>3. Pool = {}
  BY DEF Init, PersonInit, Pool, Exists
<1>4. QED
  BY <1>1, <1>2, <1>3, FS_EmptySet, PersonAssumption DEF IInv, PoolBounded

\* What each step does to people, to the pool and to enrollments.
StepHolds == VoiceInv' /\ PersonsMove /\ PoolStep /\ EnrollmentEndsOnceStep

LEMMA SamePeopleMove ==
  ASSUME PersonInv, UNCHANGED personVars
  PROVE  PersonsMove /\ PoolStep /\ PresentStay
<1>1. \A q \in Person : Stays(q)
  BY DEF Stays, personVars
<1>2. PersonsMove
  BY <1>1, StaysMoves DEF PersonsMove, PersonInv, Tables, personVars
<1>3. QED
  BY <1>2, SamePeopleKeep DEF personVars

LEMMA MovesEndOnce ==
  ASSUME \A e \in Enrollment : EnrollmentMoves(e)
  PROVE  EnrollmentEndsOnceStep
BY DEF EnrollmentMoves, EnrollmentEndsOnceStep, HasRow

LEMMA GoneEndOnce ==
  ASSUME VoiceInv, NEW E, enrollments' = Without(enrollments, E)
  PROVE  EnrollmentEndsOnceStep
<1>1. \A e \in Enrollment : enrollments'[e] \in {None, enrollments[e]}
  BY DEF Without, VoiceInv, VoiceTables
<1>2. QED
  BY <1>1 DEF EnrollmentEndsOnceStep, HasRow

LEMMA SameVoicesHold ==
  ASSUME IInv, PersonsMove, PoolStep, PresentStay, UNCHANGED voiceVars
  PROVE  StepHolds
<1>1. \A e \in Enrollment : EnrollmentMoves(e)
  BY DEF voiceVars, EnrollmentMoves
<1>2. VoiceTables'
  BY DEF voiceVars, IInv, VoiceInv, VoiceTables
<1>3. QED
  BY <1>1, <1>2, EnrollmentsMove, MovesEndOnce DEF IInv, StepHolds, voiceVars

LEMMA EnrollmentStepHolds ==
  ASSUME IInv, EnrollmentStep
  PROVE  StepHolds
<1>1. UNCHANGED personVars
  BY DEF EnrollmentStep, CreateEnrollment, PassTime, ReadEnrollment, Cancel, AddSample,
         Complete, ExpireEnrollments
<1>2. PersonsMove /\ PoolStep
  BY <1>1, SamePeopleMove DEF IInv
<1>3. ASSUME NEW e \in Enrollment, NEW p \in Person, NEW v \in Profile, CreateEnrollment(e, p, v)
      PROVE  VoiceInv' /\ EnrollmentEndsOnceStep
  <2>1. \A f \in Enrollment \ {e} : enrollments'[f] = enrollments[f]
    BY <1>3 DEF CreateEnrollment, IInv, VoiceInv, VoiceTables
  <2>2. QED
    BY <1>3, <2>1, CreateEnrollmentKeeps
    DEF CreateEnrollment, NotBegun, IInv, EnrollmentEndsOnceStep
<1>4. ASSUME NEW e \in Enrollment,
             PassTime(e) \/ ReadEnrollment(e) \/ Cancel(e) \/ AddSample(e)
      PROVE  VoiceInv' /\ EnrollmentEndsOnceStep
  BY <1>4, PassTimeMoves, ReadEnrollmentMoves, CancelMoves, AddSampleMoves, MovesEndOnce DEF IInv
<1>5. ASSUME NEW e \in Enrollment, Complete(e)
      PROVE  VoiceInv' /\ EnrollmentEndsOnceStep
  <2>1. enrollments[e] \in EnrollmentRow /\ enrollments[e].state = "collecting"
    BY <1>5, EnrollmentsAreRecords DEF Complete, Collecting, IInv
  <2>2. ASSUME NEW f \in Enrollment \ {e}, HasRow(enrollments, f)
        PROVE  enrollments'[f].state = enrollments[f].state
    <3>1. enrollments[f] \in EnrollmentRow
      BY <2>2, EnrollmentsAreRecords DEF IInv
    <3>2. QED
      BY <1>5, <3>1 DEF Complete, Replaced, EnrollmentRow
  <2>3. EnrollmentEndsOnceStep
    BY <2>1, <2>2 DEF EnrollmentEndsOnceStep
  <2>4. QED
    BY <1>5, <2>3, CompleteKeeps DEF IInv
<1>6. ASSUME ExpireEnrollments
      PROVE  VoiceInv' /\ EnrollmentEndsOnceStep
  BY <1>6, ExpireMoves, MovesEndOnce DEF IInv
<1>7. QED
  BY <1>2, <1>3, <1>4, <1>5, <1>6 DEF EnrollmentStep, StepHolds

LEMMA DeleteProfileHolds ==
  ASSUME IInv, NEW v \in Profile, DeleteProfile(v)
  PROVE  StepHolds
<1>1. enrollments' = Without(enrollments, EnrollmentsFor(v)) /\ UNCHANGED personVars
  BY DEF DeleteProfile
<1>2. QED
  BY <1>1, SamePeopleMove, GoneEndOnce, DeleteProfileKeeps DEF IInv, StepHolds

LEMMA GoneHolds ==
  ASSUME IInv, NEW p \in Person, Archive(p) \/ CompleteDeletion(p)
  PROVE  StepHolds
<1>1. PersonsMove /\ PoolStep /\ \A q \in Person \ {p} : people'[q] = people[q]
  <2>1. CASE Archive(p)
    BY <2>1, ArchiveMoves, ArchiveKeepsPool DEF Archive, IInv, Stays
  <2>2. CASE CompleteDeletion(p)
    BY <2>2, RemoveMoves, RemoveKeepsPool DEF CompleteDeletion, IInv, Stays
  <2>3. QED
    BY <2>1, <2>2
<1>2. EraseVoice(p)
  BY DEF Archive, CompleteDeletion
<1>3. observations' \in [Turn -> ObservationRow \cup {None}]
  BY DEF Archive, CompleteDeletion, Without, IInv, VoiceInv, VoiceTables
<1>4. VoiceInv'
  BY <1>1, <1>2, <1>3, EraseVoiceKeeps DEF IInv
<1>5. EnrollmentEndsOnceStep
  BY <1>2, GoneEndOnce DEF IInv, EraseVoice
<1>6. QED
  BY <1>1, <1>4, <1>5 DEF StepHolds

LEMMA TurnStepHolds ==
  ASSUME IInv, TurnStep
  PROVE  StepHolds
<1>1. VoiceInv' /\ PersonsMove /\ PoolStep
  BY DiscoverKeeps, RecordEvidenceKeeps DEF TurnStep, IInv
<1>2. UNCHANGED enrollments
  BY DEF TurnStep, Discover, RecordEvidence
<1>3. EnrollmentEndsOnceStep
  BY <1>2, MovesEndOnce DEF EnrollmentMoves
<1>4. QED
  BY <1>1, <1>3 DEF StepHolds

LEMMA NextHolds ==
  ASSUME IInv, [Next]_vars
  PROVE  StepHolds
<1>1. CASE PersonStep /\ UNCHANGED voiceVars
  BY <1>1, PersonStepMoves, PersonStepKeeps, SameVoicesHold DEF IInv
<1>2. CASE UNCHANGED vars
  BY <1>2, SamePeopleMove, SameVoicesHold DEF IInv, vars
<1>3. QED
  BY <1>1, <1>2, EnrollmentStepHolds, DeleteProfileHolds, GoneHolds, TurnStepHolds DEF Next

LEMMA NextKeeps ==
  ASSUME IInv, [Next]_vars
  PROVE  IInv'
<1>1. StepHolds
  BY NextHolds
<1>2. PersonInv'
  BY <1>1 DEF StepHolds, PersonsMove, PersonMoves, PersonInv
<1>3. QED
  BY <1>1, <1>2, PoolStaysBounded DEF StepHolds, IInv

LEMMA Inductive == Spec => []IInv
<1>1. Init => IInv
  BY InitHolds
<1>2. IInv /\ [Next]_vars => IInv'
  BY NextKeeps
<1>3. QED
  BY <1>1, <1>2, PTL DEF Spec

-----------------------------------------------------------------------------
(* Promotion.  Nothing but evidence changes the maturity of a Person.        *)

KeepsMaturity ==
  \A q \in Person : Exists(q) /\ people'[q] # None => people'[q].maturity = people[q].maturity

LEMMA RowSetKeepsMaturity ==
  ASSUME PersonInv, NEW p \in Person, Exists(p), NEW row \in PersonRow, SetRow(p, row),
         row.maturity = people[p].maturity
  PROVE  KeepsMaturity
BY RowSet DEF KeepsMaturity

LEMMA InsertKeepsMaturity ==
  ASSUME PersonInv, NEW p \in Person, ~Exists(p), NEW maturity, InsertPerson(p, maturity)
  PROVE  KeepsMaturity
BY DEF InsertPerson, PersonInv, Tables, Exists, KeepsMaturity

LEMMA PersonStepKeepsMaturity ==
  ASSUME PersonInv, PersonStep
  PROVE  KeepsMaturity
<1>1. ASSUME NEW p \in Person, Exists(p)
      PROVE  /\ people[p] \in PersonRow
             /\ \A status \in {"active", "inactive"} :
                  /\ [people[p] EXCEPT !.status = status] \in PersonRow
                  /\ [people[p] EXCEPT !.status = status].maturity = people[p].maturity
             /\ [people[p] EXCEPT !.recent = FALSE].maturity = people[p].maturity
             /\ [people[p] EXCEPT !.recognition = "retained"] \in PersonRow
             /\ [people[p] EXCEPT !.recognition = "retained"].maturity = people[p].maturity
             /\ [people[p] EXCEPT !.deleted = FALSE, !.status = "inactive"] \in PersonRow
             /\ [people[p] EXCEPT !.deleted = FALSE, !.status = "inactive"].maturity
                  = people[p].maturity
  BY <1>1, RowsAreRecords DEF PersonInv, PersonRow
<1>2. ASSUME NEW p \in Person, NEW maturity \in {"candidate", "established"}, Create(p, maturity)
      PROVE  KeepsMaturity
  BY <1>2, InsertKeepsMaturity DEF Create, Unused
<1>3. ASSUME NEW p \in Person, NEW status \in {"active", "inactive"}, Update(p, status)
      PROVE  KeepsMaturity
  BY <1>1, <1>3, RowSetKeepsMaturity DEF Update, Present
<1>4. ASSUME NEW p \in Person, RetireCandidate(p) PROVE KeepsMaturity
  BY <1>1, <1>4, RowSetKeepsMaturity DEF RetireCandidate, Present
<1>5. ASSUME NEW p \in Person, Elapse(p) PROVE KeepsMaturity
  <2>1. people' = [q \in Person |-> IF q = p THEN [people[p] EXCEPT !.recent = FALSE]
                                          ELSE people[q]]
    BY <1>5 DEF Elapse, PersonInv, Tables
  <2>2. people'[p].maturity = people[p].maturity
    BY <1>1, <1>5, <2>1 DEF Elapse
  <2>3. QED
    BY <2>1, <2>2 DEF KeepsMaturity
<1>6. ASSUME NEW p \in Person, Restore(p) PROVE KeepsMaturity
  BY <1>1, <1>6, RowSetKeepsMaturity DEF Restore, Restorable
<1>7. ASSUME NEW p \in Person, Exists(p), SetRow(p, people[p]) PROVE KeepsMaturity
  BY <1>1, <1>7, RowSetKeepsMaturity
<1>8. ASSUME NEW p \in Person,
             BeginDeletion(p) \/ SuspendMemory(p) \/ RestoreMemory(p)
               \/ \E allowed \in BOOLEAN : SetProvisional(p, allowed)
      PROVE  KeepsMaturity
  BY <1>7, <1>8
     DEF BeginDeletion, SuspendMemory, RestoreMemory, SetProvisional, Active, Present
<1>9. CASE RetainExpired
  <2>1. ASSUME NEW q \in Person, Exists(q)
        PROVE  people'[q].maturity = people[q].maturity
    BY <1>1, <1>9, <2>1 DEF RetainExpired, PersonRow
  <2>2. QED
    BY <2>1 DEF KeepsMaturity
<1>10. CASE \E new \in Policy : SetMemoryDefaults(new)
  BY <1>10 DEF SetMemoryDefaults, KeepsMaturity
<1>11. QED
  BY <1>2, <1>3, <1>4, <1>5, <1>6, <1>8, <1>9, <1>10 DEF PersonStep

LEMMA GoneKeepsMaturity ==
  ASSUME PersonInv, NEW p \in Person, Archive(p) \/ CompleteDeletion(p)
  PROVE  KeepsMaturity
<1>1. CASE Archive(p)
  <2>1. Exists(p) /\ SetRow(p, [people[p] EXCEPT !.deleted = TRUE, !.status = "inactive"])
    BY <1>1 DEF Archive, ArchivePerson, Present
  <2>2. /\ [people[p] EXCEPT !.deleted = TRUE, !.status = "inactive"] \in PersonRow
        /\ [people[p] EXCEPT !.deleted = TRUE, !.status = "inactive"].maturity = people[p].maturity
    BY <2>1, RowsAreRecords DEF PersonInv, PersonRow
  <2>3. QED
    BY <2>1, <2>2, RowSetKeepsMaturity
<1>2. CASE CompleteDeletion(p)
  BY <1>2 DEF CompleteDeletion, RemovePerson, PersonInv, Tables, KeepsMaturity
<1>3. QED
  BY <1>1, <1>2

\* The turns a policy may count are matched with the present voice, and so is the new one.
LEMMA EvidenceConfirms ==
  ASSUME IInv, NEW t \in Turn, NEW v \in Profile, NEW eligible \in SUBSET (Matched(v) \cup {t}),
         RecordEvidence(t, v, eligible)
  PROVE  PromotedByPresentVoiceStep
<1> DEFINE p == profiles[v].person
<1>1. p \in Person /\ Exists(p)
  BY DEF RecordEvidence, IInv, VoiceInv, VoiceTables, HasRow, ProfileRow
<1>2. /\ \A x \in Turn \ {t} : observations'[x] = observations[x]
      /\ observations'[t] = [person |-> p, profile |-> v, revision |-> profiles[v].revision,
                             matched |-> TRUE]
  BY DEF RecordEvidence, IInv, VoiceInv, VoiceTables
<1>3. observations'[t] \in ObservationRow
  BY <1>1, <1>2 DEF ObservationRow, IInv, VoiceInv, VoiceTables, ProfileRow, RecordEvidence, HasRow
<1>4. eligible \subseteq ConfirmingTurns(p)
  <2>1. ASSUME NEW x \in eligible PROVE x \in ConfirmingTurns(p)
    <3>1. CASE x = t
      <4>1. HasRow(profiles, v) /\ profiles[v].person = p
        BY DEF RecordEvidence
      <4>2. observations'[t] # None
        BY <1>3, VoiceNoneAssumption
      <4>3. observations'[t].profile = v /\ observations'[t].revision = profiles[v].revision
        BY <1>2
      <4>4. observations'[t].matched
        BY <1>2
      <4>5. QED
        BY <3>1, <4>1, <4>2, <4>3, <4>4 DEF ConfirmingTurns
    <3>2. CASE x # t
      BY <1>2, <3>2 DEF Matched, HasRow, ConfirmingTurns, RecordEvidence
    <3>3. QED
      BY <3>1, <3>2
  <2>2. QED
    BY <2>1
<1>5. IsFiniteSet(ConfirmingTurns(p))
  BY TurnAssumption, FS_Subset DEF ConfirmingTurns
<1>6. /\ Cardinality(eligible) <= Cardinality(ConfirmingTurns(p))
      /\ Cardinality(eligible) \in Nat /\ Cardinality(ConfirmingTurns(p)) \in Nat
  BY <1>4, <1>5, FS_Subset, FS_CardinalityType
<1> HIDE DEF p
<1>7. CASE UNCHANGED people
  BY <1>7 DEF PromotedByPresentVoiceStep
<1>8. CASE /\ Cardinality(eligible) >= MinTurns
           /\ SetRow(p, [people[p] EXCEPT !.maturity = "established"])
  <2>1. \A q \in Person \ {p} : people'[q] = people[q]
    BY <1>8 DEF SetRow, IInv, PersonInv, Tables
  <2>2. Cardinality(ConfirmingTurns(p)) >= MinTurns
    BY <1>6, <1>8, VoiceAssumption
  <2>3. QED
    BY <2>1, <2>2 DEF PromotedByPresentVoiceStep
<1>9. QED
  BY <1>7, <1>8 DEF RecordEvidence, p

LEMMA NextPromotes ==
  ASSUME IInv, Next
  PROVE  PromotedByPresentVoiceStep
<1>1. KeepsMaturity => PromotedByPresentVoiceStep
  BY DEF KeepsMaturity, PromotedByPresentVoiceStep
<1>2. UNCHANGED people => KeepsMaturity
  BY DEF KeepsMaturity
<1>3. CASE PersonStep
  BY <1>1, <1>3, PersonStepKeepsMaturity DEF IInv
<1>4. EnrollmentStep => UNCHANGED people
  BY DEF EnrollmentStep, CreateEnrollment, PassTime, ReadEnrollment, Cancel, AddSample, Complete,
         ExpireEnrollments, personVars
<1>5. CASE EnrollmentStep \/ \E v \in Profile : DeleteProfile(v)
  BY <1>1, <1>2, <1>4, <1>5 DEF DeleteProfile, personVars
<1>6. CASE \E p \in Person : Archive(p) \/ CompleteDeletion(p)
  BY <1>1, <1>6, GoneKeepsMaturity DEF IInv
<1>7. ASSUME NEW t \in Turn, NEW v \in Profile, Discover(t, v)
      PROVE  PromotedByPresentVoiceStep
  <2>1. DerivedPerson[t] \in Person
    BY VoiceAssumption
  <2>2. QED
    BY <1>1, <1>7, <2>1, InsertKeepsMaturity DEF Discover, Unused, IInv
<1>8. QED
  BY <1>3, <1>5, <1>6, <1>7, EvidenceConfirms DEF Next, TurnStep

-----------------------------------------------------------------------------
(* Theorems. *)

\* Every command leaves rows its columns allow, and a memory row for each Person.
THEOREM TypeCorrect == Spec => []TypeOK
<1>1. IInv => TypeOK
  BY PersonInvIsIt DEF IInv, VoiceInv, VoiceTables, TypeOK
<1>2. QED
  BY <1>1, Inductive, PTL

\* Creation, discovery and reactivation all look for room, so the pool of
\* candidates never grows past its capacity.
THEOREM PoolIsBounded == Spec => []PoolBounded
<1>1. IInv => PoolBounded
  BY DEF IInv
<1>2. QED
  BY <1>1, Inductive, PTL

\* No order of suspension, archive, restoration, deletion and promotion leaves a
\* memory open for a Person who may not have one.
THEOREM MemoryFollows == Spec => []MemoryFollowsPerson
<1>1. IInv => MemoryFollowsPerson
  BY PersonInvIsIt DEF IInv
<1>2. QED
  BY <1>1, Inductive, PTL

\* One voice for each present Person, whose vectors are those it was made of, and
\* whose revisions each came from one enrollment on top of the one before.
THEOREM VoicesAreSafe == Spec => [](OneVoice /\ EvidenceHasVoice /\ RevisionsMadeOnce)
<1>1. IInv => OneVoice /\ EvidenceHasVoice /\ RevisionsMadeOnce
  BY DEF IInv, VoiceInv
<1>2. QED
  BY <1>1, Inductive, PTL

\* Completion, replacement, deletion and archive leave each present Person one voice
\* at most, and none to a Person that is not present.
THEOREM VoiceIsOne == Spec => []OneVoice
BY VoicesAreSafe, PTL

\* No vectors are kept but those being collected and those of a present voice.
THEOREM VectorsHaveVoice == Spec => []EvidenceHasVoice
BY VoicesAreSafe, PTL

\* What permanent_delete began is not undone by any other command.
THEOREM DeletionsAreFinal == Spec => DeletionIsFinal
<1>1. IInv /\ [Next]_vars => DeletionIsFinalStep
  BY NextHolds DEF StepHolds, PersonsMove, PersonMoves, DeletionIsFinalStep
<1>2. IInv /\ [Next]_vars => [DeletionIsFinalStep]_personVars
  BY <1>1
<1>3. QED
  BY <1>2, Inductive, PTL DEF Spec, DeletionIsFinal

\* Promotion, whatever the Owner's defaults are by then, respects a suspension.
THEOREM PromotionsRespectSuspension == Spec => ClosedStaysClosed
<1>1. IInv /\ [Next]_vars => ClosedStaysClosedStep
  BY NextHolds DEF StepHolds, PersonsMove, PersonMoves, ClosedStaysClosedStep
<1>2. IInv /\ [Next]_vars => [ClosedStaysClosedStep]_personVars
  BY <1>1
<1>3. QED
  BY <1>2, Inductive, PTL DEF Spec, ClosedStaysClosed

\* Two states of a Person under one revision are the same to its readers.
THEOREM RevisionsNamePeople == Spec => RevisionNamesPerson
<1>1. IInv /\ [Next]_vars => RevisionNamesPersonStep
  BY NextHolds DEF StepHolds, PersonsMove, PersonMoves, RevisionNamesPersonStep
<1>2. IInv /\ [Next]_vars => [RevisionNamesPersonStep]_personVars
  BY <1>1
<1>3. QED
  BY <1>2, Inductive, PTL DEF Spec, RevisionNamesPerson

\* A late sample, completion, cancellation or sweep finds the enrollment ended.
THEOREM EnrollmentsEndOnce == Spec => EnrollmentEndsOnce
<1>1. IInv /\ [Next]_vars => EnrollmentEndsOnceStep
  BY NextHolds DEF StepHolds
<1>2. IInv /\ [Next]_vars => [EnrollmentEndsOnceStep]_vars
  BY <1>1
<1>3. QED
  BY <1>2, Inductive, PTL DEF Spec, EnrollmentEndsOnce

\* Turns matched with a voice the Person had before never add up to a promotion.
THEOREM PromotionsAreConfirmed == Spec => PromotedByPresentVoice
<1>1. IInv /\ [Next]_vars => [PromotedByPresentVoiceStep]_vars
  BY NextPromotes
<1>2. QED
  BY <1>1, Inductive, PTL DEF Spec, PromotedByPresentVoice
=============================================================================
