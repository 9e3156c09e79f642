------------------------ MODULE PersonaGenomesProofs ------------------------
(***************************************************************************)
(* Proofs about PersonaGenomes, for any number of genomes, operations,      *)
(* names and preferences.                                                   *)
(***************************************************************************)
EXTENDS PersonaGenomes, WellFoundedInduction, TLAPS

\* A proposal keeps the name of the genome it was made on.
ProposedNames ==
  \A g \in Genome : genomes[g].status = "proposed" =>
    /\ genomes[g].base \in Genome
    /\ genomes[g].name = genomes[genomes[g].base].name

\* A receipt names a chapter of the line, and every answer came from it.
Receipted ==
  \A op \in Operation :
    /\ receipts[op] # NoReceipt =>
         /\ Committed(receipts[op].result.genome)
         /\ receipts[op].result.traits = genomes[receipts[op].result.genome].traits
    /\ \A x \in answers[op] : receipts[op] # NoReceipt /\ x = receipts[op].result

\* Preferences that were overwritten are not those of now.
Overwritten ==
  \A op \in Operation :
    Overwrites(op) => receipts[op].request.preference_revision < companion.preference_revision

IInv ==
  /\ TypeOK /\ OneLine /\ NameAgrees /\ ProposedNames
  /\ Receipted /\ Overwritten /\ PreferencesNotLost

-----------------------------------------------------------------------------
(* What the steps do to the genomes. *)

\* The genomes that were there are left alone.
KeepsChapters == \A x \in Genome : Present(x) => genomes'[x] = genomes[x]

\* The row an append writes.
AppendedRow(v, name, traits, target) ==
  [status |-> "committed", version |-> v, base |-> companion.current,
   name |-> name, traits |-> traits, restored_from |-> target]

LEMMA AppendEffect ==
  ASSUME TypeOK, NEW g \in Genome, NEW name \in Name, NEW traits \in Traits \cup {None},
         NEW target \in Genome \cup {None}, Append(g, name, traits, target)
  PROVE  /\ ~Present(g)
         /\ genomes' \in [Genome -> GenomeRow]
         /\ KeepsChapters
         /\ \A x \in Genome \ {g} : genomes'[x] = genomes[x]
         /\ genomes'[g].status = "committed" /\ genomes'[g].base = companion.current
         /\ genomes'[g].name = name /\ genomes'[g].traits = traits
         /\ \A x \in Genome \ {g} : genomes'[x].version < genomes'[g].version
<1>1. PICK v \in 1..MaxVersion :
        /\ NextVersion(v)
        /\ genomes' = [genomes EXCEPT ![g] = AppendedRow(v, name, traits, target)]
  BY DEF Append, AppendedRow
<1>2. AppendedRow(v, name, traits, target) \in GenomeRow
  BY VersionAssumption DEF AppendedRow, GenomeRow, Status, TypeOK, CompanionRow
<1>3. /\ genomes' \in [Genome -> GenomeRow]
      /\ genomes'[g] = AppendedRow(v, name, traits, target)
      /\ \A x \in Genome \ {g} : genomes'[x] = genomes[x]
  BY <1>1, <1>2 DEF TypeOK
<1>4. ~Present(g)
  BY DEF Append
<1>5. KeepsChapters
  BY <1>3, <1>4 DEF KeepsChapters
<1>6. \A x \in Genome \ {g} : genomes'[x].version < genomes'[g].version
  BY <1>1, <1>3 DEF NextVersion, AppendedRow
<1>7. QED
  BY <1>3, <1>4, <1>5, <1>6 DEF AppendedRow

LEMMA AppendOneLine ==
  ASSUME TypeOK, OneLine, NEW g \in Genome, NEW name \in Name,
         NEW traits \in Traits \cup {None}, NEW target \in Genome \cup {None},
         Append(g, name, traits, target), companion'.current = g
  PROVE  OneLine'
<1>1. /\ ~Present(g)
      /\ KeepsChapters
      /\ \A x \in Genome \ {g} : genomes'[x] = genomes[x]
      /\ genomes'[g].status = "committed" /\ genomes'[g].base = companion.current
      /\ \A x \in Genome \ {g} : genomes'[x].version < genomes'[g].version
  BY AppendEffect
<1>2. /\ companion.current \in Genome /\ companion.current # g
      /\ Committed(companion.current)
  BY <1>1 DEF TypeOK, CompanionRow, OneLine, TipIsCurrent, Committed, Present
<1>3. \A x \in Genome : Present(x) /\ genomes[x].base # None => genomes[x].base \in Genome
  BY DEF TypeOK, GenomeRow
<1>4. OneFollower'
  BY <1>1, <1>2 DEF OneLine, OneFollower, TipIsCurrent, Committed
<1>5. VersionsGrow'
  <2> SUFFICES ASSUME NEW x \in Genome, Present(x)', genomes'[x].base # None
               PROVE  /\ Committed(genomes[x].base)'
                      /\ genomes'[genomes'[x].base].version < genomes'[x].version
    BY DEF VersionsGrow
  <2>1. CASE x = g
    BY <2>1, <1>1, <1>2 DEF Committed
  <2>2. CASE x # g
    <3>1. genomes'[x] = genomes[x] /\ Present(x)
      BY <2>2, <1>1 DEF Present
    <3>2. /\ genomes[x].base \in Genome
          /\ Committed(genomes[x].base)
          /\ genomes[genomes[x].base].version < genomes[x].version
      BY <3>1, <1>3 DEF OneLine, VersionsGrow
    <3>3. genomes'[genomes[x].base] = genomes[genomes[x].base]
      BY <3>2, <1>1 DEF KeepsChapters, Committed, Present
    <3>4. QED
      BY <3>1, <3>2, <3>3 DEF Committed
  <2>3. QED
    BY <2>1, <2>2
<1>6. TipIsCurrent'
  <2>1. \A x \in Genome \ {g} : Present(x) => genomes[x].base # g
    BY <1>1, <1>3, GenomeNoneAssumption DEF OneLine, VersionsGrow, Committed, Present
  <2>2. QED
    BY <2>1, <1>1, <1>2 DEF TipIsCurrent, Committed, Present
<1>7. QED
  BY <1>4, <1>5, <1>6 DEF OneLine

LEMMA AppendProposedNames ==
  ASSUME TypeOK, OneLine, ProposedNames, NEW g \in Genome, NEW name \in Name,
         NEW traits \in Traits \cup {None}, NEW target \in Genome \cup {None},
         Append(g, name, traits, target)
  PROVE  ProposedNames'
<1>1. /\ KeepsChapters
      /\ \A x \in Genome \ {g} : genomes'[x] = genomes[x]
      /\ genomes'[g].status = "committed"
  BY AppendEffect
<1> SUFFICES ASSUME NEW x \in Genome, genomes'[x].status = "proposed"
             PROVE  /\ genomes'[x].base \in Genome
                    /\ genomes'[x].name = genomes'[genomes'[x].base].name
  BY DEF ProposedNames
<1>2. genomes'[x] = genomes[x] /\ genomes[x].status = "proposed"
  BY <1>1
<1>3. /\ genomes[x].base \in Genome
      /\ genomes[x].name = genomes[genomes[x].base].name
  BY <1>2 DEF ProposedNames
<1>4. Committed(genomes[x].base)
  BY <1>2, <1>3, GenomeNoneAssumption DEF OneLine, VersionsGrow, Present
<1>5. QED
  BY <1>1, <1>2, <1>3, <1>4 DEF KeepsChapters, Committed, Present

\* Chapters that stay keep every receipt true.
LEMMA ReceiptsStand ==
  ASSUME TypeOK, Receipted, KeepsChapters, UNCHANGED <<receipts, answers>>
  PROVE  Receipted'
<1>1. \A op \in Operation : receipts[op] # NoReceipt =>
        /\ receipts[op].result.genome \in Genome
        /\ Present(receipts[op].result.genome)
        /\ genomes'[receipts[op].result.genome] = genomes[receipts[op].result.genome]
  BY DEF TypeOK, Receipted, KeepsChapters, Committed, Present, Snapshot
<1>2. QED
  BY <1>1 DEF Receipted, Committed

\* So does leaving the preferences alone for what they were overwritten from.
LEMMA PreferencesStand ==
  ASSUME Overwritten, PreferencesNotLost, UNCHANGED receipts,
         companion'.preference_revision = companion.preference_revision
  PROVE  Overwritten' /\ PreferencesNotLost'
BY DEF Overwritten, PreferencesNotLost, Overwrites

-----------------------------------------------------------------------------
(* Appending commands. *)

LEMMA NamesTyped ==
  ASSUME TypeOK, NameAgrees
  PROVE  /\ companion.name \in Name /\ Current.name \in Name
         /\ companion.current \in Genome /\ Current.traits \in Traits \cup {None}
BY DEF TypeOK, NameAgrees, CompanionRow, GenomeRow, Current

\* A rename, a restoration or a reset.
LEMMA AppendPersonaKeeps ==
  ASSUME IInv, NEW g \in Genome, NEW name \in Name, NEW traits \in Traits \cup {None},
         NEW target \in Genome \cup {None}, AppendPersona(g, name, traits, target),
         UNCHANGED <<receipts, answers>>
  PROVE  IInv'
<1> USE DEF IInv
<1>1. /\ genomes' \in [Genome -> GenomeRow]
      /\ KeepsChapters
      /\ genomes'[g].name = name
  BY AppendEffect DEF AppendPersona
<1>2. /\ companion' \in CompanionRow
      /\ companion'.current = g /\ companion'.name = name
      /\ companion'.preference_revision = companion.preference_revision
  BY DEF AppendPersona, Now, TypeOK, CompanionRow
<1>3. TypeOK'
  BY <1>1, <1>2 DEF TypeOK
<1>4. OneLine'
  BY <1>2, AppendOneLine DEF AppendPersona
<1>5. NameAgrees'
  BY <1>1, <1>2 DEF NameAgrees, Current
<1>6. ProposedNames'
  BY AppendProposedNames DEF AppendPersona
<1>7. Receipted'
  BY <1>1, ReceiptsStand
<1>8. Overwritten' /\ PreferencesNotLost'
  BY <1>2, PreferencesStand
<1>9. QED
  BY <1>3, <1>4, <1>5, <1>6, <1>7, <1>8

LEMMA RenameKeeps ==
  ASSUME IInv, NEW g \in Genome, NEW name \in Name, Rename(name, g)
  PROVE  IInv'
<1>1. Current.traits \in Traits \cup {None}
  BY NamesTyped DEF IInv
<1>2. /\ AppendPersona(g, name, Current.traits, None)
      /\ UNCHANGED <<receipts, answers>>
  BY DEF Rename
<1>3. QED
  BY <1>1, <1>2, AppendPersonaKeeps

LEMMA RestoreKeeps ==
  ASSUME IInv, NEW g \in Genome, NEW target \in Genome, Restore(target, g)
  PROVE  IInv'
<1>1. companion.name \in Name /\ genomes[target].traits \in Traits \cup {None}
  BY NamesTyped DEF IInv, TypeOK, GenomeRow
<1>2. /\ AppendPersona(g, companion.name, genomes[target].traits, target)
      /\ UNCHANGED <<receipts, answers>>
  BY DEF Restore
<1>3. QED
  BY <1>1, <1>2, AppendPersonaKeeps

-----------------------------------------------------------------------------
(* Edits. *)

LEMMA EditTyped ==
  ASSUME TypeOK, NameAgrees, NEW change \in Change
  PROVE  /\ EditName(change) \in Name
         /\ DisplayName(change) \in Name
         /\ EditTraits(change) \in Traits \cup {None}
         /\ EditTarget(change) \in Genome \cup {None}
<1>1. /\ companion.name \in Name /\ Current.name \in Name
      /\ Current.traits \in Traits \cup {None}
  BY NamesTyped
<1>2. CASE change.action = "rename" /\ change.value \in Name
  BY <1>1, <1>2 DEF EditName, DisplayName, EditTraits, EditTarget
<1>3. CASE change.action = "restore" /\ change.value \in Genome
  <2>1. genomes[change.value].traits \in Traits \cup {None}
    BY <1>3 DEF TypeOK, GenomeRow
  <2>2. QED
    BY <1>1, <1>3, <2>1 DEF EditName, DisplayName, EditTraits, EditTarget
<1>4. CASE change.action = "author" /\ change.value \in Traits
  BY <1>1, <1>4 DEF EditName, DisplayName, EditTraits, EditTarget
<1>5. QED
  BY <1>2, <1>3, <1>4 DEF Change

\* The new name of the persona is the new display name.
LEMMA EditNames ==
  ASSUME TypeOK, NameAgrees, NEW change \in Change
  PROVE  EditName(change) = DisplayName(change)
<1>1. companion.name = Current.name
  BY DEF NameAgrees
<1>2. CASE change.action = "rename"
  BY <1>2 DEF EditName, DisplayName
<1>3. CASE change.action = "restore"
  BY <1>1, <1>3 DEF EditName, DisplayName
<1>4. CASE change.action = "author"
  BY <1>1, <1>4 DEF EditName, DisplayName
<1>5. QED
  BY <1>2, <1>3, <1>4 DEF Change

LEMMA EditedTyped ==
  ASSUME TypeOK, NameAgrees, NEW request \in Request, NEW g \in Genome
  PROVE  /\ Edited(request, g) \in CompanionRow
         /\ Edited(request, g).current = g
         /\ Edited(request, g).name = DisplayName(request.change)
         /\ Edited(request, g).preference_revision
              \in {companion.preference_revision, companion.preference_revision + 1}
<1>1. DisplayName(request.change) \in Name
  BY EditTyped DEF Request
<1>2. /\ companion.revision \in Nat /\ companion.preference_revision \in Nat
      /\ companion.preferences \in Preferences
  BY DEF TypeOK, CompanionRow
<1>3. SetsPreferences(request) => request.preferences \in Preferences
  BY DEF SetsPreferences, Request
<1>4. QED
  BY <1>1, <1>2, <1>3 DEF Edited, CompanionRow

\* Whether an edit appends a chapter or only sets preferences, g is the tip.
LEMMA EditChapters ==
  ASSUME IInv, NEW op \in Operation, NEW request \in Request, NEW g \in Genome,
         Committed(companion.current), EditsTo(op, request, g)
  PROVE  /\ genomes' \in [Genome -> GenomeRow]
         /\ KeepsChapters /\ OneLine' /\ ProposedNames'
         /\ Committed(g)'
         /\ genomes'[g].name = EditName(request.change)
         /\ genomes'[g].traits = EditTraits(request.change)
<1> USE DEF IInv
<1> DEFINE change == request.change
<1>1. change \in Change
  BY DEF Request
<1>2. /\ EditName(change) \in Name /\ EditTraits(change) \in Traits \cup {None}
      /\ EditTarget(change) \in Genome \cup {None}
  BY <1>1, EditTyped
<1>3. companion'.current = g
  BY EditedTyped DEF EditsTo
<1>4. CASE Append(g, EditName(change), EditTraits(change), EditTarget(change))
  <2> HIDE DEF change
  <2>1. /\ genomes' \in [Genome -> GenomeRow]
        /\ KeepsChapters
        /\ genomes'[g].status = "committed"
        /\ genomes'[g].name = EditName(change) /\ genomes'[g].traits = EditTraits(change)
    BY <1>2, <1>4, AppendEffect
  <2>2. OneLine'
    BY <1>2, <1>3, <1>4, AppendOneLine
  <2>3. ProposedNames'
    BY <1>2, <1>4, AppendProposedNames
  <2>4. QED
    BY <2>1, <2>2, <2>3 DEF change, Committed
<1>5. CASE ~Changes(change) /\ g = companion.current /\ UNCHANGED genomes
  <2>1. genomes' \in [Genome -> GenomeRow] /\ KeepsChapters
    BY <1>5 DEF TypeOK, KeepsChapters
  <2>2. OneLine' /\ ProposedNames' /\ Committed(g)'
    BY <1>3, <1>5
       DEF OneLine, OneFollower, VersionsGrow, TipIsCurrent, ProposedNames, Committed, Present
  <2>3. EditName(change) = genomes'[g].name /\ EditTraits(change) = genomes'[g].traits
    BY <1>5 DEF Changes, Current
  <2>4. QED
    BY <2>1, <2>2, <2>3
<1>6. QED
  BY <1>4, <1>5 DEF EditsTo

\* The receipt an edit leaves and the answer it gives.
LEMMA EditReceipts ==
  ASSUME IInv, NEW op \in Operation, NEW request \in Request, NEW g \in Genome,
         EditsTo(op, request, g)
  PROVE  \E result \in Snapshot :
           /\ receipts' = [receipts EXCEPT ![op] = [request |-> request, result |-> result]]
           /\ answers' = [answers EXCEPT ![op] = @ \cup {result}]
           /\ result.genome = g /\ result.traits = EditTraits(request.change)
           /\ result.preference_revision = companion'.preference_revision
<1> USE DEF IInv
<1> DEFINE result == SnapshotOf(Edited(request, g), EditTraits(request.change))
<1>1. EditTraits(request.change) \in Traits \cup {None}
  BY EditTyped DEF Request
<1>2. Edited(request, g) \in CompanionRow /\ Edited(request, g).current = g
  BY EditedTyped
<1>3. result \in Snapshot
  BY <1>1, <1>2 DEF SnapshotOf, Snapshot, CompanionRow
<1>4. /\ result.genome = g /\ result.traits = EditTraits(request.change)
      /\ result.preference_revision = Edited(request, g).preference_revision
  BY <1>2 DEF SnapshotOf
<1>5. /\ companion' = Edited(request, g)
      /\ receipts' = [receipts EXCEPT ![op] = [request |-> request, result |-> result]]
      /\ answers' = [answers EXCEPT ![op] = @ \cup {result}]
  BY DEF EditsTo, Answer
<1>6. QED
  BY <1>3, <1>4, <1>5

LEMMA EditKeeps ==
  ASSUME IInv, NEW op \in Operation, NEW request \in Request, Edit(op, request)
  PROVE  IInv'
<1> USE DEF IInv
<1>1. PICK g \in Genome : EditsTo(op, request, g)
  BY DEF Edit
<1>2. /\ receipts[op] = NoReceipt
      /\ Committed(companion.current)
      /\ request.preference_revision = companion.preference_revision
  BY DEF Edit, UpToDate
<1>3. PICK result \in Snapshot :
        /\ receipts' = [receipts EXCEPT ![op] = [request |-> request, result |-> result]]
        /\ answers' = [answers EXCEPT ![op] = @ \cup {result}]
        /\ result.genome = g /\ result.traits = EditTraits(request.change)
        /\ result.preference_revision = companion'.preference_revision
  BY <1>1, EditReceipts
<1>4. /\ genomes' \in [Genome -> GenomeRow]
      /\ KeepsChapters /\ OneLine' /\ ProposedNames'
      /\ Committed(g)'
      /\ genomes'[g].name = EditName(request.change)
      /\ genomes'[g].traits = EditTraits(request.change)
  BY <1>1, <1>2, EditChapters
<1>5. /\ companion' \in CompanionRow
      /\ companion'.current = g
      /\ companion'.name = DisplayName(request.change)
      /\ companion'.preference_revision
           \in {companion.preference_revision, companion.preference_revision + 1}
  BY <1>1, EditedTyped DEF EditsTo
<1>6. [request |-> request, result |-> result] \in [request : Request, result : Snapshot]
  OBVIOUS
<1>7. /\ receipts'[op] = [request |-> request, result |-> result]
      /\ answers'[op] = answers[op] \cup {result}
      /\ \A x \in Operation \ {op} : receipts'[x] = receipts[x] /\ answers'[x] = answers[x]
  BY <1>3 DEF TypeOK
<1>8. receipts'[op] # NoReceipt
  <2>1. receipts'[op].request # None
    BY <1>7, RequestAssumption
  <2>2. QED
    BY <2>1 DEF NoReceipt
<1>9. TypeOK'
  <2>1. receipts' \in [Operation -> [request : Request, result : Snapshot] \cup {NoReceipt}]
    BY <1>3, <1>6 DEF TypeOK
  <2>2. answers' \in [Operation -> SUBSET Snapshot]
    BY <1>3 DEF TypeOK
  <2>3. QED
    BY <2>1, <2>2, <1>4, <1>5 DEF TypeOK
<1>10. NameAgrees'
  <2>1. request.change \in Change
    BY DEF Request
  <2>2. EditName(request.change) = DisplayName(request.change)
    BY <2>1, EditNames
  <2>3. QED
    BY <2>2, <1>4, <1>5 DEF NameAgrees, Current
<1>11. Receipted'
  <2> SUFFICES ASSUME NEW x \in Operation
               PROVE  /\ receipts'[x] # NoReceipt =>
                           /\ Committed(receipts[x].result.genome)'
                           /\ receipts'[x].result.traits
                                = genomes'[receipts'[x].result.genome].traits
                      /\ \A y \in answers'[x] :
                           receipts'[x] # NoReceipt /\ y = receipts'[x].result
    BY DEF Receipted
  <2>1. CASE x = op
    <3>1. answers[op] = {}
      BY <1>2 DEF Receipted
    <3>2. QED
      BY <2>1, <3>1, <1>3, <1>4, <1>7, <1>8 DEF Committed
  <2>2. CASE x # op
    <3>1. receipts[x] # NoReceipt =>
            /\ receipts[x].result.genome \in Genome
            /\ Present(receipts[x].result.genome)
      BY DEF TypeOK, Receipted, Committed, Present, Snapshot
    <3>2. QED
      BY <2>2, <3>1, <1>4, <1>7 DEF Receipted, KeepsChapters, Committed
  <2>3. QED
    BY <2>1, <2>2
<1>12. Overwritten' /\ PreferencesNotLost'
  <2>1. companion.preference_revision \in Nat
    BY DEF TypeOK, CompanionRow
  <2>2. \A x \in Operation \ {op} : Overwrites(x)' <=> Overwrites(x)
    BY <1>7 DEF Overwrites
  <2>3. Overwrites(op)' =>
          companion'.preference_revision = companion.preference_revision + 1
    BY <1>2, <1>3, <1>5, <1>7 DEF Overwrites
  <2>4. receipts'[op].request = request
    BY <1>7
  <2>5. \A x \in Operation \ {op} : Overwrites(x) =>
          /\ receipts'[x].request.preference_revision < companion.preference_revision
          /\ receipts[x].request.preference_revision \in Nat
    BY <1>7 DEF Overwritten, TypeOK, Request, Overwrites
  <2>6. Overwritten'
    BY <2>1, <2>2, <2>3, <2>4, <2>5, <1>2, <1>5, <1>7 DEF Overwritten
  <2>7. PreferencesNotLost'
    BY <2>1, <2>2, <2>4, <2>5, <1>2, <1>7 DEF PreferencesNotLost
  <2>8. QED
    BY <2>6, <2>7
<1>13. QED
  BY <1>4, <1>9, <1>10, <1>11, <1>12

LEMMA ReplayKeeps ==
  ASSUME IInv, NEW op \in Operation, ReplayEdit(op)
  PROVE  IInv'
<1> USE DEF IInv
<1>1. /\ receipts[op] # NoReceipt
      /\ UNCHANGED <<companion, genomes, receipts>>
      /\ answers' = [answers EXCEPT ![op] = @ \cup {OriginalAnswer(op)}]
  BY DEF ReplayEdit, Answer
<1>2. receipts[op].result \in Snapshot
  BY <1>1 DEF TypeOK
<1>3. OriginalAnswer(op) = receipts[op].result
  BY <1>1, <1>2 DEF OriginalAnswer, Receipted, Snapshot
<1>4. TypeOK'
  BY <1>1, <1>2, <1>3 DEF TypeOK
<1>5. /\ answers'[op] = answers[op] \cup {receipts[op].result}
      /\ \A x \in Operation \ {op} : answers'[x] = answers[x]
  BY <1>1, <1>3 DEF TypeOK
<1>6. Receipted'
  BY <1>1, <1>5 DEF Receipted, Committed
<1>7. /\ OneLine' /\ NameAgrees' /\ ProposedNames' /\ Overwritten' /\ PreferencesNotLost'
  BY <1>1 DEF OneLine, OneFollower, VersionsGrow, TipIsCurrent, Committed, Present, NameAgrees,
              Current, ProposedNames, Overwritten, PreferencesNotLost, Overwrites
<1>8. QED
  BY <1>4, <1>6, <1>7

-----------------------------------------------------------------------------
(* Proposals. *)

LEMMA ProposalKeeps ==
  ASSUME IInv, NEW g \in Genome, NEW base \in Genome, NEW traits \in Traits,
         CreateEvolutionProposal(g, base, traits)
  PROVE  IInv'
<1> USE DEF IInv
<1>1. PICK v \in 1..MaxVersion :
        /\ NextVersion(v)
        /\ genomes' = [genomes EXCEPT ![g] =
             [status |-> "proposed", version |-> v, base |-> base, name |-> Current.name,
              traits |-> traits, restored_from |-> None]]
  BY DEF CreateEvolutionProposal
<1>2. /\ base = companion.current /\ ~Present(g) /\ UNCHANGED <<companion, receipts, answers>>
  BY DEF CreateEvolutionProposal
<1>3. /\ companion.current \in Genome /\ Current.name \in Name
  BY NamesTyped
<1>4. [status |-> "proposed", version |-> v, base |-> base, name |-> Current.name,
       traits |-> traits, restored_from |-> None] \in GenomeRow
  BY <1>3, VersionAssumption DEF GenomeRow, Status
<1>5. /\ genomes' \in [Genome -> GenomeRow]
      /\ genomes'[g].status = "proposed" /\ genomes'[g].base = base
      /\ genomes'[g].name = Current.name /\ genomes'[g].version = v
      /\ \A x \in Genome \ {g} : genomes'[x] = genomes[x]
  BY <1>1, <1>4 DEF TypeOK
<1>6. base # g /\ Committed(base) /\ genomes[base].version < v
  BY <1>1, <1>2, <1>3 DEF OneLine, TipIsCurrent, Committed, Present, NextVersion
<1>7. KeepsChapters
  BY <1>2, <1>5 DEF KeepsChapters
<1>8. \A x \in Genome : Present(x) /\ genomes[x].base # None =>
        /\ genomes[x].base \in Genome \ {g}
        /\ Committed(genomes[x].base)
        /\ genomes'[genomes[x].base] = genomes[genomes[x].base]
  BY <1>2, <1>7, GenomeNoneAssumption
     DEF OneLine, VersionsGrow, TypeOK, GenomeRow, KeepsChapters, Committed, Present
<1>9. \A x \in Genome : Committed(x)' <=> Committed(x)
  BY <1>2, <1>5 DEF Committed, Present
<1>10. OneFollower'
  BY <1>2, <1>5, <1>9 DEF OneLine, OneFollower, Committed, Present
<1>11. VersionsGrow'
  BY <1>2, <1>5, <1>6, <1>8, <1>9 DEF OneLine, VersionsGrow, Committed, Present
<1>12. TipIsCurrent'
  BY <1>2, <1>3, <1>5, <1>6, <1>9 DEF OneLine, TipIsCurrent, Committed, Present
<1>13. NameAgrees'
  BY <1>2, <1>3, <1>5, <1>6 DEF NameAgrees, Current
<1>14. ProposedNames'
  BY <1>2, <1>3, <1>5, <1>6, <1>8, GenomeNoneAssumption
     DEF ProposedNames, Current, Committed, Present
<1>15. Receipted'
  BY <1>2, <1>7, ReceiptsStand
<1>16. Overwritten' /\ PreferencesNotLost'
  BY <1>2, PreferencesStand
<1>17. TypeOK'
  BY <1>2, <1>5 DEF TypeOK
<1>18. QED
  BY <1>10, <1>11, <1>12, <1>13, <1>14, <1>15, <1>16, <1>17 DEF OneLine

\* A decision changes one status and nothing else of the genomes.
LEMMA DecideEffect ==
  ASSUME TypeOK, NEW g \in Genome, NEW status \in Status,
         genomes' = [genomes EXCEPT ![g].status = status]
  PROVE  /\ genomes' \in [Genome -> GenomeRow]
         /\ genomes'[g].status = status
         /\ \A x \in Genome \ {g} : genomes'[x] = genomes[x]
         /\ \A x \in Genome :
              /\ genomes'[x].version = genomes[x].version
              /\ genomes'[x].base = genomes[x].base
              /\ genomes'[x].name = genomes[x].name
              /\ genomes'[x].traits = genomes[x].traits
              /\ genomes'[x].restored_from = genomes[x].restored_from
BY DEF TypeOK, GenomeRow

LEMMA DecideReceipts ==
  ASSUME TypeOK, Receipted, NEW g \in Genome, NEW status \in Status,
         genomes[g].status = "proposed",
         genomes' = [genomes EXCEPT ![g].status = status],
         UNCHANGED <<receipts, answers>>
  PROVE  Receipted'
<1>1. \A op \in Operation : receipts[op] # NoReceipt =>
        receipts[op].result.genome \in Genome
  BY DEF TypeOK, Snapshot
<1>2. \A x \in Genome : /\ Committed(x) => Committed(x)'
                        /\ genomes'[x].traits = genomes[x].traits
  BY DecideEffect DEF Committed
<1>3. QED
  BY <1>1, <1>2 DEF Receipted

LEMMA ApproveKeeps ==
  ASSUME IInv, NEW g \in Genome, genomes[g].status = "proposed",
         companion.current = genomes[g].base,
         genomes' = [genomes EXCEPT ![g].status = "committed"],
         companion' = Now(g, companion.name),
         UNCHANGED <<receipts, answers>>
  PROVE  IInv'
<1> USE DEF IInv
<1>1. /\ genomes' \in [Genome -> GenomeRow]
      /\ genomes'[g].status = "committed"
      /\ \A x \in Genome \ {g} : genomes'[x] = genomes[x]
      /\ \A x \in Genome : /\ genomes'[x].version = genomes[x].version
                           /\ genomes'[x].base = genomes[x].base
                           /\ genomes'[x].name = genomes[x].name
  BY DecideEffect DEF Status
<1>2. /\ companion' \in CompanionRow
      /\ companion'.current = g /\ companion'.name = companion.name
      /\ companion'.preference_revision = companion.preference_revision
  BY DEF Now, TypeOK, CompanionRow
<1>3. /\ companion.current \in Genome /\ Committed(companion.current)
      /\ companion.current # g
  BY DEF TypeOK, CompanionRow, OneLine, TipIsCurrent, Committed
<1>4. \A x \in Genome \ {g} : Committed(x)' <=> Committed(x)
  BY <1>1 DEF Committed
<1>5. \A x \in Genome : Present(x)' <=> Present(x)
  BY <1>1 DEF Present
<1>6. \A x \in Genome : Present(x) /\ genomes[x].base # None =>
        /\ genomes[x].base \in Genome \ {g}
        /\ Committed(genomes[x].base)
  BY GenomeNoneAssumption DEF OneLine, VersionsGrow, TypeOK, GenomeRow, Committed
<1>7. OneFollower'
  BY <1>1, <1>4 DEF OneLine, OneFollower, TipIsCurrent, Committed
<1>8. VersionsGrow'
  BY <1>1, <1>4, <1>5, <1>6 DEF OneLine, VersionsGrow
<1>9. TipIsCurrent'
  BY <1>1, <1>2, <1>3, <1>4, <1>6, GenomeNoneAssumption DEF TipIsCurrent, Committed, Present
<1>10. NameAgrees'
  BY <1>1, <1>2 DEF NameAgrees, Current, ProposedNames
<1>11. ProposedNames'
  BY <1>1, <1>6, GenomeNoneAssumption DEF ProposedNames, Present
<1>12. Receipted'
  BY DecideReceipts DEF Status
<1>13. Overwritten' /\ PreferencesNotLost'
  BY <1>2, PreferencesStand
<1>14. TypeOK'
  BY <1>1, <1>2 DEF TypeOK
<1>15. QED
  BY <1>7, <1>8, <1>9, <1>10, <1>11, <1>12, <1>13, <1>14 DEF OneLine

LEMMA DismissKeeps ==
  ASSUME IInv, NEW g \in Genome, NEW status \in {"stale", "rejected"},
         genomes[g].status = "proposed",
         genomes' = [genomes EXCEPT ![g].status = status],
         UNCHANGED <<companion, receipts, answers>>
  PROVE  IInv'
<1> USE DEF IInv
<1>1. /\ genomes' \in [Genome -> GenomeRow]
      /\ genomes'[g].status = status
      /\ \A x \in Genome \ {g} : genomes'[x] = genomes[x]
      /\ \A x \in Genome : /\ genomes'[x].version = genomes[x].version
                           /\ genomes'[x].base = genomes[x].base
                           /\ genomes'[x].name = genomes[x].name
  BY DecideEffect DEF Status
<1>2. \A x \in Genome : (Committed(x)' <=> Committed(x)) /\ (Present(x)' <=> Present(x))
  BY <1>1 DEF Committed, Present
<1>3. companion.current \in Genome
  BY DEF TypeOK, CompanionRow
<1>4. \A x \in Genome : genomes[x].base # None => genomes[x].base \in Genome
  BY DEF TypeOK, GenomeRow
<1>5. OneFollower' /\ VersionsGrow' /\ TipIsCurrent'
  <2>1. OneFollower'
    BY <1>1, <1>2 DEF OneLine, OneFollower
  <2>2. VersionsGrow'
    BY <1>1, <1>2, <1>4 DEF OneLine, VersionsGrow
  <2>3. TipIsCurrent'
    BY <1>1, <1>2, <1>3 DEF OneLine, TipIsCurrent
  <2>4. QED
    BY <2>1, <2>2, <2>3
<1>6. NameAgrees'
  BY <1>1, <1>3 DEF NameAgrees, Current
<1>7. ProposedNames'
  BY <1>1 DEF ProposedNames
<1>8. Receipted'
  BY DecideReceipts DEF Status
<1>9. Overwritten' /\ PreferencesNotLost'
  BY PreferencesStand
<1>10. TypeOK'
  BY <1>1 DEF TypeOK
<1>11. QED
  BY <1>5, <1>6, <1>7, <1>8, <1>9, <1>10 DEF OneLine

-----------------------------------------------------------------------------
(* The inductive invariant. *)

LEMMA InitIInv == Init => IInv
<1> SUFFICES ASSUME Init PROVE IInv
  OBVIOUS
<1>1. PICK g \in Genome, name \in Name, traits \in Traits, preferences \in Preferences :
        /\ companion = [current |-> g, name |-> name, revision |-> 1,
                        preferences |-> preferences, preference_revision |-> 1]
        /\ genomes = [x \in Genome |->
             IF x = g THEN [status |-> "committed", version |-> 1, base |-> None,
                            name |-> name, traits |-> traits, restored_from |-> None]
             ELSE NoGenome]
  BY DEF Init
<1>2. /\ receipts = [op \in Operation |-> NoReceipt]
      /\ answers = [op \in Operation |-> {}]
  BY DEF Init
<1>3. /\ genomes[g].status = "committed" /\ genomes[g].version = 1
      /\ genomes[g].base = None /\ genomes[g].name = name
      /\ \A x \in Genome \ {g} : genomes[x] = NoGenome
  BY <1>1
<1>4. TypeOK
  <2>1. companion \in CompanionRow
    BY <1>1 DEF CompanionRow
  <2>2. genomes \in [Genome -> GenomeRow]
    BY <1>1 DEF GenomeRow, NoGenome, Status
  <2>3. QED
    BY <1>2, <2>1, <2>2 DEF TypeOK
<1>5. OneLine
  BY <1>1, <1>3, GenomeNoneAssumption
     DEF OneLine, OneFollower, VersionsGrow, TipIsCurrent, Committed, Present, NoGenome
<1>6. NameAgrees
  BY <1>1, <1>3 DEF NameAgrees, Current
<1>7. ProposedNames
  BY <1>3 DEF ProposedNames, NoGenome
<1>8. Receipted /\ Overwritten /\ PreferencesNotLost
  BY <1>2 DEF Receipted, Overwritten, PreferencesNotLost, Overwrites
<1>9. QED
  BY <1>4, <1>5, <1>6, <1>7, <1>8 DEF IInv

\* Requests carry revisions that are numbers.
LEMMA MadeRequestsTyped == TypeOK => MadeRequests \subseteq Request
BY DEF TypeOK, CompanionRow, MadeRequests, Request

LEMMA ApprovalKeeps ==
  ASSUME IInv, NEW g \in Genome, NEW expected \in Genome \cup {None},
         ApproveEvolution(g, expected)
  PROVE  IInv'
<1>1. genomes[g].status = "proposed" /\ UNCHANGED <<receipts, answers>>
  BY DEF ApproveEvolution
<1>2. CASE /\ StillApplies(g, expected)
           /\ genomes' = [genomes EXCEPT ![g].status = "committed"]
           /\ companion' = Now(g, companion.name)
  BY <1>1, <1>2, ApproveKeeps DEF StillApplies
<1>3. CASE genomes' = [genomes EXCEPT ![g].status = "stale"] /\ UNCHANGED companion
  BY <1>1, <1>3, DismissKeeps
<1>4. QED
  BY <1>2, <1>3 DEF ApproveEvolution

LEMMA NextKeeps == IInv /\ [Next]_vars => IInv'
<1> SUFFICES ASSUME IInv, [Next]_vars PROVE IInv'
  OBVIOUS
<1>1. ASSUME NEW op \in Operation, EditCommand(op) PROVE IInv'
  <2>1. ASSUME NEW request \in MadeRequests, Edit(op, request) PROVE IInv'
    <3>1. request \in Request
      BY MadeRequestsTyped DEF IInv
    <3>2. QED
      BY <2>1, <3>1, EditKeeps
  <2>2. CASE ReplayEdit(op)
    BY <2>2, ReplayKeeps
  <2>3. QED
    BY <1>1, <2>1, <2>2 DEF EditCommand
<1>2. ASSUME NEW g \in Genome, ChapterCommand(g) PROVE IInv'
  <2>1. ASSUME NEW name \in Name, Rename(name, g) PROVE IInv'
    BY <2>1, RenameKeeps
  <2>2. ASSUME NEW target \in Genome, RestoreChapter(target, g) PROVE IInv'
    BY <2>2, RestoreKeeps DEF RestoreChapter
  <2>3. CASE ResetToOrigin(g)
    BY <2>3, RestoreKeeps DEF ResetToOrigin
  <2>4. ASSUME NEW base \in Genome, NEW traits \in Traits,
               CreateEvolutionProposal(g, base, traits)
        PROVE  IInv'
    BY <2>4, ProposalKeeps
  <2>5. QED
    BY <1>2, <2>1, <2>2, <2>3, <2>4 DEF ChapterCommand
<1>3. ASSUME NEW g \in Genome, DecideCommand(g) PROVE IInv'
  <2>1. ASSUME NEW expected \in Genome \cup {None}, ApproveEvolution(g, expected) PROVE IInv'
    BY <2>1, ApprovalKeeps
  <2>2. CASE RejectEvolution(g)
    BY <2>2, DismissKeeps DEF RejectEvolution, Undecided
  <2>3. QED
    BY <1>3, <2>1, <2>2 DEF DecideCommand
<1>4. CASE UNCHANGED vars
  BY <1>4 DEF vars, IInv, TypeOK, OneLine, OneFollower, VersionsGrow, TipIsCurrent, Committed,
              Present, NameAgrees, Current, ProposedNames, Receipted, Overwritten,
              PreferencesNotLost, Overwrites
<1>5. QED
  BY <1>1, <1>2, <1>3, <1>4 DEF Next

LEMMA InductiveInvariant == Spec => []IInv
BY InitIInv, NextKeeps, PTL DEF Spec

-----------------------------------------------------------------------------
(* The properties. *)

\* Every column keeps a value its declaration allows.
THEOREM TypeCorrect == Spec => []TypeOK
<1>1. IInv => TypeOK
  BY DEF IInv
<1>2. QED
  BY <1>1, InductiveInvariant, PTL

\* The committed genomes are one line that ends in the current one, under the
\* name of the Companion, whatever edits, restorations and approvals raced.
THEOREM Chapters == Spec => [](OneLine /\ NameAgrees)
<1>1. IInv => OneLine /\ NameAgrees
  BY DEF IInv
<1>2. QED
  BY <1>1, InductiveInvariant, PTL

\* The two places that keep the name agree, through renames, restorations of
\* chapters with another name and approvals of proposals older than a rename.
THEOREM NamesAgree == Spec => []NameAgrees
BY Chapters, PTL

\* A retried edit gets the answer of the first, and no two edits overwrite the
\* same preferences.
THEOREM Retries == Spec => [](OneAnswer /\ PreferencesNotLost)
<1>1. IInv => OneAnswer /\ PreferencesNotLost
  BY DEF IInv, Receipted, OneAnswer
<1>2. QED
  BY <1>1, InductiveInvariant, PTL

\* Of any number of edits prepared on the same preferences one writes them.
THEOREM PreferencesAreKept == Spec => []PreferencesNotLost
BY Retries, PTL

\* A step that leaves the rows that are there alone leaves the chapters alone.
LEMMA KeptChaptersStay == KeepsChapters => ChaptersStayStep
BY DEF KeepsChapters, ChaptersStayStep, Present

\* So does a step that decides one proposal.
LEMMA DecisionStays ==
  ASSUME TypeOK, NEW g \in Genome, NEW status \in Status \ {"absent"},
         genomes[g].status = "proposed",
         genomes' = [genomes EXCEPT ![g].status = status]
  PROVE  ChaptersStayStep
<1> SUFFICES ASSUME NEW x \in Genome, Present(x)
             PROVE  /\ [genomes'[x] EXCEPT !.status = "proposed"]
                         = [genomes[x] EXCEPT !.status = "proposed"]
                    /\ genomes[x].status = "proposed" => genomes'[x].status # "absent"
                    /\ genomes[x].status # "proposed" => genomes'[x].status = genomes[x].status
  BY DEF ChaptersStayStep
<1>1. genomes[x] \in GenomeRow
  BY DEF TypeOK
<1>2. CASE x = g
  <2>1. genomes'[x] = [genomes[x] EXCEPT !.status = status]
    BY <1>2 DEF TypeOK
  <2>2. QED
    BY <1>1, <1>2, <2>1 DEF GenomeRow
<1>3. CASE x # g
  BY <1>3 DEF TypeOK
<1>4. QED
  BY <1>2, <1>3

\* No step changes what a chapter is.
LEMMA NextChaptersStay == IInv /\ [Next]_vars => [ChaptersStayStep]_vars
<1> SUFFICES ASSUME IInv, [Next]_vars PROVE [ChaptersStayStep]_vars
  OBVIOUS
<1> USE DEF IInv
<1>1. ASSUME NEW op \in Operation, EditCommand(op) PROVE KeepsChapters
  <2>1. ASSUME NEW request \in MadeRequests, Edit(op, request) PROVE KeepsChapters
    <3>1. request \in Request
      BY MadeRequestsTyped
    <3>2. QED
      BY <2>1, <3>1, EditChapters DEF Edit
  <2>2. CASE ReplayEdit(op)
    BY <2>2 DEF ReplayEdit, KeepsChapters
  <2>3. QED
    BY <1>1, <2>1, <2>2 DEF EditCommand
<1>2. ASSUME NEW g \in Genome, ChapterCommand(g) PROVE KeepsChapters
  <2>1. /\ companion.name \in Name /\ Current.traits \in Traits \cup {None}
    BY NamesTyped
  <2>2. \A x \in Genome : genomes[x].traits \in Traits \cup {None}
    BY DEF TypeOK, GenomeRow
  <2>3. ASSUME NEW name \in Name, Rename(name, g) PROVE KeepsChapters
    BY <2>1, <2>3, AppendEffect DEF Rename, AppendPersona
  <2>4. ASSUME NEW target \in Genome, Restore(target, g) PROVE KeepsChapters
    BY <2>1, <2>2, <2>4, AppendEffect DEF Restore, AppendPersona
  <2>5. ASSUME NEW base \in Genome, NEW traits \in Traits,
               CreateEvolutionProposal(g, base, traits)
        PROVE  KeepsChapters
    BY <2>5 DEF CreateEvolutionProposal, KeepsChapters, TypeOK
  <2>6. QED
    BY <1>2, <2>3, <2>4, <2>5 DEF ChapterCommand, RestoreChapter, ResetToOrigin
<1>3. ASSUME NEW g \in Genome, DecideCommand(g) PROVE ChaptersStayStep
  <2>1. \E status \in Status \ {"absent"} :
          genomes' = [genomes EXCEPT ![g].status = status]
    BY <1>3 DEF DecideCommand, ApproveEvolution, RejectEvolution, Status
  <2>2. genomes[g].status = "proposed"
    BY <1>3 DEF DecideCommand, ApproveEvolution, RejectEvolution, Undecided
  <2>3. QED
    BY <2>1, <2>2, DecisionStays
<1>4. QED
  BY <1>1, <1>2, <1>3, KeptChaptersStay DEF Next

\* Chapters are immutable, and a decided proposal stays decided.
THEOREM ChaptersImmutable == Spec => ChaptersStay
BY NextChaptersStay, InductiveInvariant, PTL DEF Spec, ChaptersStay

\* A revision of the Companion is never used for other settings than it named.
THEOREM RevisionsNameSettings == Spec => SettingsMoveRevision
<1>1. IInv /\ [Next]_vars => [SettingsMoveRevisionStep]_vars
  <2> SUFFICES ASSUME IInv, [Next]_vars PROVE [SettingsMoveRevisionStep]_vars
    OBVIOUS
  <2> USE DEF IInv
  <2>1. companion \in CompanionRow /\ companion.revision \in Nat
    BY DEF TypeOK, CompanionRow
  <2>2. UNCHANGED companion => SettingsMoveRevisionStep
    BY <2>1 DEF SettingsMoveRevisionStep
  <2>3. ASSUME NEW g, NEW name, companion' = Now(g, name) PROVE SettingsMoveRevisionStep
    BY <2>1, <2>3 DEF Now, SettingsMoveRevisionStep
  <2>4. ASSUME NEW op \in Operation, EditCommand(op) PROVE SettingsMoveRevisionStep
    <3>1. ASSUME NEW request \in MadeRequests, Edit(op, request)
          PROVE  SettingsMoveRevisionStep
      <4>1. PICK g \in Genome : EditsTo(op, request, g)
        BY <3>1 DEF Edit
      <4>2. request.change \in Change
        BY MadeRequestsTyped DEF Request
      <4>3. companion' = Edited(request, g)
        BY <4>1 DEF EditsTo
      <4>4. CASE Changes(request.change) \/ SetsPreferences(request)
        <5>1. companion'.revision \in Nat /\ companion'.revision > companion.revision
          BY <2>1, <4>3, <4>4 DEF Edited
        <5>2. QED
          BY <2>1, <5>1 DEF SettingsMoveRevisionStep
      <4>5. CASE ~Changes(request.change) /\ ~SetsPreferences(request)
        <5>1. g = companion.current
          BY <4>1, <4>5 DEF EditsTo
        <5>2. DisplayName(request.change) = companion.name
          BY <4>2, <4>5, EditNames DEF Changes, NameAgrees
        <5>3. companion' = companion
          BY <2>1, <4>3, <4>5, <5>1, <5>2 DEF Edited, CompanionRow
        <5>4. QED
          BY <2>2, <5>3
      <4>6. QED
        BY <4>4, <4>5
    <3>2. CASE ReplayEdit(op)
      BY <2>2, <3>2 DEF ReplayEdit
    <3>3. QED
      BY <2>4, <3>1, <3>2 DEF EditCommand
  <2>5. ASSUME NEW g \in Genome, ChapterCommand(g) PROVE SettingsMoveRevisionStep
    BY <2>2, <2>3, <2>5
       DEF ChapterCommand, Rename, RestoreChapter, ResetToOrigin, Restore, AppendPersona,
           CreateEvolutionProposal
  <2>6. ASSUME NEW g \in Genome, DecideCommand(g) PROVE SettingsMoveRevisionStep
    BY <2>2, <2>3, <2>6 DEF DecideCommand, ApproveEvolution, RejectEvolution
  <2>7. QED
    BY <2>4, <2>5, <2>6 DEF Next
<1>2. QED
  BY <1>1, InductiveInvariant, PTL DEF Spec, SettingsMoveRevision

-----------------------------------------------------------------------------
(* The walk to the origin. *)

\* There is a first chapter, and an id without a row follows nothing.
FirstChapter == \E o \in Genome : Committed(o) /\ genomes[o].base = None /\ genomes[o].version = 1
BlankFollowsNone == \A g \in Genome : ~Present(g) => genomes[g].base = None
HasOrigin == FirstChapter /\ BlankFollowsNone

\* The least of some numbers: induction along the versions.
LEMMA LeastNumber ==
  ASSUME NEW T, T \subseteq Nat, T # {}
  PROVE  \E n \in T : \A m \in T : n <= m
<1>1. IsWellFoundedOn(OpToRel(<, Nat), Nat)
  BY NatLessThanWellFounded
<1>2. PICK n \in T : \A m \in T : ~ (<<m, n>> \in OpToRel(<, Nat))
  BY <1>1, WFMin
<1>3. ASSUME NEW m \in T PROVE n <= m
  <2>1. ~ (m < n)
    BY <1>2 DEF OpToRel
  <2>2. QED
    BY <2>1
<1>4. QED
  BY <1>3

\* An id without a row is as it was: a command only fills it.
Fills == \A x \in Genome : ~Present(x)' => genomes'[x] = genomes[x]

LEMMA NextFills ==
  ASSUME IInv, [Next]_vars
  PROVE  Fills
<1> USE DEF IInv
<1>1. ASSUME NEW g \in Genome, NEW name \in Name, NEW traits \in Traits \cup {None},
             NEW target \in Genome \cup {None}, Append(g, name, traits, target)
      PROVE  Fills
  BY <1>1, AppendEffect DEF Fills, Present
<1>2. CASE UNCHANGED genomes
  BY <1>2 DEF Fills
<1>3. /\ companion.name \in Name /\ Current.traits \in Traits \cup {None}
      /\ \A x \in Genome : genomes[x].traits \in Traits \cup {None}
  BY NamesTyped DEF TypeOK, GenomeRow
<1>4. ASSUME NEW op \in Operation, EditCommand(op) PROVE Fills
  <2>1. ASSUME NEW request \in Request, NEW g \in Genome, EditsTo(op, request, g) PROVE Fills
    <3>1. request.change \in Change
      BY DEF Request
    <3>2. /\ EditName(request.change) \in Name
          /\ EditTraits(request.change) \in Traits \cup {None}
          /\ EditTarget(request.change) \in Genome \cup {None}
      BY <3>1, EditTyped
    <3>3. \/ Append(g, EditName(request.change), EditTraits(request.change),
                    EditTarget(request.change))
          \/ UNCHANGED genomes
      BY <2>1 DEF EditsTo
    <3>4. QED
      BY <1>1, <1>2, <3>2, <3>3
  <2>2. CASE ReplayEdit(op)
    BY <1>2, <2>2 DEF ReplayEdit
  <2>3. QED
    BY <1>4, <2>1, <2>2, MadeRequestsTyped DEF EditCommand, Edit
<1>5. ASSUME NEW g \in Genome, ChapterCommand(g) PROVE Fills
  <2>1. ASSUME NEW name \in Name, Rename(name, g) PROVE Fills
    BY <1>1, <1>3, <2>1 DEF Rename, AppendPersona
  <2>2. ASSUME NEW target \in Genome, Restore(target, g) PROVE Fills
    BY <1>1, <1>3, <2>2 DEF Restore, AppendPersona
  <2>3. ASSUME NEW base \in Genome, NEW traits \in Traits,
               CreateEvolutionProposal(g, base, traits)
        PROVE  Fills
    <3>1. PICK v \in 1..MaxVersion : genomes' = [genomes EXCEPT ![g] =
            [status |-> "proposed", version |-> v, base |-> base, name |-> Current.name,
             traits |-> traits, restored_from |-> None]]
      BY <2>3 DEF CreateEvolutionProposal
    <3>2. genomes'[g].status = "proposed" /\ \A x \in Genome \ {g} : genomes'[x] = genomes[x]
      BY <3>1 DEF TypeOK
    <3>3. QED
      BY <3>2 DEF Fills, Present
  <2>4. QED
    BY <1>5, <2>1, <2>2, <2>3 DEF ChapterCommand, RestoreChapter, ResetToOrigin
<1>6. ASSUME NEW g \in Genome, DecideCommand(g) PROVE Fills
  <2>1. PICK status \in Status \ {"absent"} : genomes' = [genomes EXCEPT ![g].status = status]
    BY <1>6 DEF DecideCommand, ApproveEvolution, RejectEvolution, Status
  <2>2. QED
    BY <2>1, DecideEffect DEF Fills, Present
<1>7. QED
  BY <1>2, <1>4, <1>5, <1>6 DEF Next, vars

LEMMA OriginInvariant == Spec => []HasOrigin
<1>1. Init => HasOrigin
  <2> SUFFICES ASSUME Init PROVE HasOrigin
    OBVIOUS
  <2>1. PICK g \in Genome :
          /\ genomes[g].status = "committed" /\ genomes[g].base = None /\ genomes[g].version = 1
          /\ \A x \in Genome \ {g} : genomes[x] = NoGenome
    BY DEF Init
  <2>2. QED
    BY <2>1 DEF HasOrigin, FirstChapter, BlankFollowsNone, Committed, Present, NoGenome
<1>2. IInv /\ HasOrigin /\ [Next]_vars => HasOrigin'
  <2> SUFFICES ASSUME IInv, HasOrigin, [Next]_vars PROVE HasOrigin'
    OBVIOUS
  <2>1. BlankFollowsNone'
    BY NextFills DEF HasOrigin, BlankFollowsNone, Fills, Present
  <2>2. PICK o \in Genome : Committed(o) /\ genomes[o].base = None /\ genomes[o].version = 1
    BY DEF HasOrigin, FirstChapter
  <2>3. CASE UNCHANGED vars
    BY <2>2, <2>3 DEF HasOrigin, FirstChapter, BlankFollowsNone, Committed, Present, vars
  <2>4. CASE ChaptersStayStep
    <3>1. genomes'[o].status = "committed"
      BY <2>2, <2>4 DEF ChaptersStayStep, Committed, Present
    <3>2. [genomes'[o] EXCEPT !.status = "proposed"] = [genomes[o] EXCEPT !.status = "proposed"]
      BY <2>2, <2>4 DEF ChaptersStayStep, Committed, Present
    <3>3. genomes'[o] \in GenomeRow /\ genomes[o] \in GenomeRow
      BY NextKeeps DEF IInv, TypeOK
    <3>4. genomes'[o].base = genomes[o].base /\ genomes'[o].version = genomes[o].version
      BY <3>2, <3>3 DEF GenomeRow
    <3>5. FirstChapter'
      BY <2>2, <3>1, <3>4 DEF FirstChapter, Committed
    <3>6. QED
      BY <2>1, <3>5 DEF HasOrigin
  <2>5. QED
    BY <2>3, <2>4, NextChaptersStay
<1>3. QED
  BY <1>1, <1>2, InductiveInvariant, PTL DEF Spec

\* f answers the walk along base_genome_id.
Walks(f) == f = [x \in Genome |-> IF genomes[x].base = None THEN x ELSE f[genomes[x].base]]

LEMMA OriginOfWalks ==
  ASSUME NEW g \in Genome
  PROVE  OriginOf(g) = (CHOOSE f : Walks(f))[g]
BY DEF OriginOf, Walks

\* The walk ends, and there is only one chapter where it can.
LEMMA WalkEndsAtFirst ==
  ASSUME IInv, HasOrigin, NEW g \in Genome, Committed(g)
  PROVE  Committed(OriginOf(g)) /\ genomes[OriginOf(g)].version = 1
<1>1. PICK o \in Genome : Committed(o) /\ genomes[o].base = None /\ genomes[o].version = 1
  BY DEF HasOrigin, FirstChapter
<1>2. \A x \in Genome : Committed(x) /\ genomes[x].base = None => x = o
  BY <1>1 DEF IInv, OneLine, OneFollower
<1>3. \A x \in Genome : genomes[x].base # None =>
        /\ Present(x) /\ genomes[x].base \in Genome /\ Committed(genomes[x].base)
        /\ genomes[genomes[x].base].version < genomes[x].version
  BY DEF HasOrigin, BlankFollowsNone, IInv, OneLine, VersionsGrow, TypeOK, GenomeRow
<1>4. \E f : Walks(f)
  <2> DEFINE f == [x \in Genome |-> IF genomes[x].base = None THEN x ELSE o]
  <2>1. ASSUME NEW x \in Genome
        PROVE  f[x] = IF genomes[x].base = None THEN x ELSE f[genomes[x].base]
    BY <1>2, <1>3
  <2>2. f = [x \in Genome |-> f[x]]
    OBVIOUS
  <2> HIDE DEF f
  <2>3. f = [x \in Genome |-> IF genomes[x].base = None THEN x ELSE f[genomes[x].base]]
    BY <2>1, <2>2
  <2>4. QED
    BY <2>3 DEF Walks
<1> DEFINE up == CHOOSE f : Walks(f)
<1>5. Walks(up)
  BY <1>4
<1> HIDE DEF up
<1>6. \A x \in Genome : up[x] = IF genomes[x].base = None THEN x ELSE up[genomes[x].base]
  BY <1>5 DEF Walks
<1>7. \A x \in Genome : Committed(x) => up[x] = o
  <2> DEFINE Lost == {x \in Genome : Committed(x) /\ up[x] # o}
             Versions == {genomes[x].version : x \in Lost}
  <2>1. SUFFICES ASSUME Lost # {} PROVE FALSE
    OBVIOUS
  <2>2. Versions \subseteq Nat /\ Versions # {}
    BY <2>1 DEF IInv, TypeOK, GenomeRow
  <2>3. PICK n \in Versions : \A m \in Versions : n <= m
    BY <2>2, LeastNumber
  <2>4. PICK x \in Lost : genomes[x].version = n
    BY <2>3
  <2>5. CASE genomes[x].base = None
    BY <1>2, <1>6, <2>4, <2>5
  <2>6. CASE genomes[x].base # None
    <3>1. /\ genomes[x].base \in Genome /\ Committed(genomes[x].base)
          /\ genomes[genomes[x].base].version < n
      BY <1>3, <2>4, <2>6
    <3>2. genomes[x].base \in Lost
      BY <1>6, <2>4, <2>6, <3>1
    <3>3. n <= genomes[genomes[x].base].version
      BY <2>3, <3>2
    <3>4. n \in Nat /\ genomes[genomes[x].base].version \in Nat
      BY <2>2, <2>3, <3>2
    <3>5. QED
      BY <3>1, <3>3, <3>4
  <2>7. QED
    BY <2>5, <2>6
<1>8. QED
  BY <1>1, <1>7, OriginOfWalks DEF up

\* reset_to_origin goes back to the first chapter: the walk along
\* base_genome_id ends, at version 1, however long the line has become.
THEOREM OriginIsTheFirst == Spec => []OriginIsFirst
<1>1. IInv /\ HasOrigin => OriginIsFirst
  BY WalkEndsAtFirst DEF OriginIsFirst, IInv, OneLine, TipIsCurrent, TypeOK, CompanionRow
<1>2. QED
  BY <1>1, InductiveInvariant, OriginInvariant, PTL

-----------------------------------------------------------------------------
(* The commands implement PersonaBook.                                       *)

\* A row that is there is complete, and an edit with a receipt was answered.
Filled ==
  \A g \in Genome : Present(g) =>
    /\ genomes[g].version \in 1..MaxVersion
    /\ genomes[g].name \in Name /\ genomes[g].traits \in Traits
Answered == \A op \in Operation : receipts[op] # NoReceipt => answers[op] # {}
BookInv == Filled /\ Answered

\* A command that commits a chapter of its own.
Appends(g, name, traits, target) ==
  /\ AppendPersona(g, name, traits, target)
  /\ name = Current.name \/ traits = Current.traits
  /\ UNCHANGED <<receipts, answers>>
Approves(g) ==
  /\ genomes[g].status = "proposed" /\ companion.current = genomes[g].base
  /\ genomes' = [genomes EXCEPT ![g].status = "committed"]
  /\ companion' = Now(g, companion.name)
  /\ UNCHANGED <<receipts, answers>>
Dismisses(g, status) ==
  /\ genomes[g].status = "proposed"
  /\ genomes' = [genomes EXCEPT ![g].status = status]
  /\ UNCHANGED <<companion, receipts, answers>>

LEMMA CurrentFilled ==
  ASSUME IInv, Filled
  PROVE  /\ companion.current \in Genome /\ Present(companion.current)
         /\ companion.name = Current.name
         /\ Current.name \in Name /\ Current.traits \in Traits
         /\ Current.version \in 1..MaxVersion
BY DEF IInv, TypeOK, CompanionRow, OneLine, TipIsCurrent, NameAgrees, Filled, Committed, Present,
       Current

LEMMA NextCommands ==
  ASSUME IInv, HasOrigin, Filled, Next
  PROVE  \/ \E op \in Operation, request \in Request : Edit(op, request)
         \/ \E op \in Operation : ReplayEdit(op)
         \/ \E g \in Genome, name \in Name, traits \in Traits, target \in Genome \cup {None} :
              Appends(g, name, traits, target)
         \/ \E g \in Genome, base \in Genome, traits \in Traits :
              CreateEvolutionProposal(g, base, traits)
         \/ \E g \in Genome : Approves(g)
         \/ \E g \in Genome, status \in {"stale", "rejected"} : Dismisses(g, status)
<1>1. ASSUME NEW op \in Operation, EditCommand(op)
      PROVE  (\E request \in Request : Edit(op, request)) \/ ReplayEdit(op)
  BY <1>1, MadeRequestsTyped DEF EditCommand, IInv
<1>2. ASSUME NEW g \in Genome, ChapterCommand(g)
      PROVE  \/ \E name \in Name, traits \in Traits, target \in Genome \cup {None} :
                  Appends(g, name, traits, target)
             \/ \E base \in Genome, traits \in Traits :
                  CreateEvolutionProposal(g, base, traits)
  <2>1. ASSUME NEW name \in Name, Rename(name, g)
        PROVE  Appends(g, name, Current.traits, None)
    BY <2>1 DEF Rename, Appends
  <2>2. ASSUME NEW target \in Genome, Restore(target, g)
        PROVE  Appends(g, companion.name, genomes[target].traits, target)
    BY <2>2, CurrentFilled DEF Restore, Appends
  <2>3. ASSUME NEW target \in Genome, RestoreChapter(target, g)
        PROVE  genomes[target].traits \in Traits /\ Restore(target, g)
    BY <2>3 DEF RestoreChapter, Restorable, Filled, Committed, Present
  <2>4. ASSUME NEW target \in Genome, target = OriginOf(companion.current)
        PROVE  genomes[target].traits \in Traits
    BY <2>4, WalkEndsAtFirst, CurrentFilled
       DEF IInv, OneLine, TipIsCurrent, Filled, Committed, Present
  <2>5. CASE \E name \in Name : Rename(name, g)
    BY <2>1, <2>5, CurrentFilled
  <2>6. CASE \E target \in Genome : RestoreChapter(target, g)
    BY <2>2, <2>3, <2>6, CurrentFilled
  <2>7. CASE ResetToOrigin(g)
    BY <2>2, <2>4, <2>7, CurrentFilled DEF ResetToOrigin
  <2>8. QED
    BY <1>2, <2>5, <2>6, <2>7 DEF ChapterCommand
<1>3. ASSUME NEW g \in Genome, DecideCommand(g)
      PROVE  Approves(g) \/ \E status \in {"stale", "rejected"} : Dismisses(g, status)
  BY <1>3
     DEF DecideCommand, ApproveEvolution, RejectEvolution, Undecided, StillApplies, Approves,
         Dismisses
<1>4. QED
  BY <1>1, <1>2, <1>3 DEF Next

\* The row an append writes is complete.
LEMMA AppendFills ==
  ASSUME TypeOK, Filled, NEW g \in Genome, NEW name \in Name, NEW traits \in Traits,
         NEW target \in Genome \cup {None}, Append(g, name, traits, target)
  PROVE  Filled'
<1>1. PICK v \in 1..MaxVersion :
        genomes' = [genomes EXCEPT ![g] = AppendedRow(v, name, traits, target)]
  BY DEF Append, AppendedRow
<1>2. /\ genomes'[g].version = v /\ genomes'[g].name = name /\ genomes'[g].traits = traits
      /\ \A x \in Genome \ {g} : genomes'[x] = genomes[x]
  BY <1>1 DEF TypeOK, AppendedRow
<1>3. QED
  BY <1>2 DEF Filled, Present

LEMMA EditTraitsFilled ==
  ASSUME IInv, Filled, NEW op \in Operation, NEW request \in Request, Edit(op, request)
  PROVE  /\ request.change \in Change
         /\ EditName(request.change) \in Name /\ EditTraits(request.change) \in Traits
         /\ EditTarget(request.change) \in Genome \cup {None}
         /\ \/ EditName(request.change) = Current.name
            \/ EditTraits(request.change) = Current.traits
<1> DEFINE change == request.change
<1>1. change \in Change
  BY DEF Request
<1>2. EditName(change) \in Name /\ EditTarget(change) \in Genome \cup {None}
  BY <1>1, EditTyped DEF IInv
<1>3. CASE change.action = "rename"
  BY <1>1, <1>2, <1>3, CurrentFilled DEF EditTraits
<1>4. CASE change.action = "restore"
  <2>1. change.value \in Genome
    BY <1>1, <1>4 DEF Change
  <2>2. genomes[change.value].traits \in Traits
    BY <1>4, <2>1 DEF Edit, Restorable, Filled, Committed, Present
  <2>3. EditName(change) = Current.name
    BY <1>4, CurrentFilled DEF EditName
  <2>4. QED
    BY <1>1, <1>2, <1>4, <2>2, <2>3 DEF EditTraits
<1>5. CASE change.action = "author"
  <2>1. change.value \in Traits
    BY <1>1, <1>5 DEF Change
  <2>2. QED
    BY <1>1, <1>2, <1>5, <2>1 DEF EditName, EditTraits
<1>6. QED
  BY <1>1, <1>3, <1>4, <1>5 DEF Change

LEMMA NextFilled ==
  ASSUME IInv, HasOrigin, Filled, Next
  PROVE  Filled'
<1> USE DEF IInv
<1>1. ASSUME NEW op \in Operation, NEW request \in Request, Edit(op, request)
      PROVE  Filled'
  <2>1. PICK g \in Genome : EditsTo(op, request, g)
    BY <1>1 DEF Edit
  <2>2. \/ Append(g, EditName(request.change), EditTraits(request.change),
                  EditTarget(request.change))
        \/ UNCHANGED genomes
    BY <2>1 DEF EditsTo
  <2>3. CASE UNCHANGED genomes
    BY <2>3 DEF Filled, Present
  <2>4. QED
    BY <1>1, <2>2, <2>3, EditTraitsFilled, AppendFills
<1>2. ASSUME NEW g \in Genome, NEW name \in Name, NEW traits \in Traits,
             NEW target \in Genome \cup {None}, Appends(g, name, traits, target)
      PROVE  Filled'
  BY <1>2, AppendFills DEF Appends, AppendPersona
<1>3. ASSUME NEW g \in Genome, NEW base \in Genome, NEW traits \in Traits,
             CreateEvolutionProposal(g, base, traits)
      PROVE  Filled'
  <2>1. PICK v \in 1..MaxVersion :
          genomes' = [genomes EXCEPT ![g] =
            [status |-> "proposed", version |-> v, base |-> base, name |-> Current.name,
             traits |-> traits, restored_from |-> None]]
    BY <1>3 DEF CreateEvolutionProposal
  <2>2. /\ genomes'[g].version = v /\ genomes'[g].name = Current.name
        /\ genomes'[g].traits = traits
        /\ \A x \in Genome \ {g} : genomes'[x] = genomes[x]
    BY <2>1 DEF TypeOK
  <2>3. QED
    BY <2>2, CurrentFilled DEF Filled, Present
<1>4. ASSUME NEW g \in Genome, NEW status \in Status,
             genomes[g].status = "proposed", genomes' = [genomes EXCEPT ![g].status = status]
      PROVE  Filled'
  BY <1>4, DecideEffect DEF Filled, Present
<1>5. ASSUME NEW g \in Genome, Approves(g) PROVE Filled'
  BY <1>4, <1>5 DEF Approves, Status
<1>6. ASSUME NEW g \in Genome, NEW status \in {"stale", "rejected"}, Dismisses(g, status)
      PROVE  Filled'
  BY <1>4, <1>6 DEF Dismisses, Status
<1>7. ASSUME NEW op \in Operation, ReplayEdit(op) PROVE Filled'
  BY <1>7 DEF ReplayEdit, Filled, Present
<1>8. QED
  BY <1>1, <1>2, <1>3, <1>5, <1>6, <1>7, NextCommands

LEMMA NextAnswered ==
  ASSUME IInv, HasOrigin, BookInv, Next
  PROVE  Answered'
<1>1. ASSUME NEW op \in Operation, NEW request \in Request, Edit(op, request)
      PROVE  Answered'
  <2>1. PICK g \in Genome : EditsTo(op, request, g)
    BY <1>1 DEF Edit
  <2>2. PICK result \in Snapshot :
          /\ receipts' = [receipts EXCEPT ![op] = [request |-> request, result |-> result]]
          /\ answers' = [answers EXCEPT ![op] = @ \cup {result}]
    BY <2>1, EditReceipts
  <2>3. /\ answers'[op] # {}
        /\ \A x \in Operation \ {op} : receipts'[x] = receipts[x] /\ answers'[x] = answers[x]
    BY <2>2 DEF IInv, TypeOK
  <2>4. QED
    BY <2>3 DEF BookInv, Answered
<1>2. ASSUME NEW op \in Operation, ReplayEdit(op) PROVE Answered'
  <2>1. /\ UNCHANGED receipts
        /\ answers' = [answers EXCEPT ![op] = @ \cup {OriginalAnswer(op)}]
    BY <1>2 DEF ReplayEdit, Answer
  <2>2. \A x \in Operation : answers[x] \subseteq answers'[x]
    BY <2>1 DEF IInv, TypeOK
  <2>3. QED
    BY <2>1, <2>2 DEF BookInv, Answered
<1>3. CASE UNCHANGED <<receipts, answers>>
  BY <1>3 DEF BookInv, Answered
<1>4. QED
  BY <1>1, <1>2, <1>3, NextCommands
     DEF BookInv, Appends, CreateEvolutionProposal, Approves, Dismisses

LEMMA BookInvariant == Spec => []BookInv
<1>1. Init => BookInv
  <2> SUFFICES ASSUME Init PROVE BookInv
    OBVIOUS
  <2>1. PICK g \in Genome, name \in Name, traits \in Traits :
          genomes = [x \in Genome |->
             IF x = g THEN [status |-> "committed", version |-> 1, base |-> None,
                            name |-> name, traits |-> traits, restored_from |-> None]
             ELSE NoGenome]
    BY DEF Init
  <2>2. Filled
    BY <2>1, VersionAssumption DEF Filled, Present, NoGenome
  <2>3. Answered
    BY DEF Init, Answered
  <2>4. QED
    BY <2>2, <2>3 DEF BookInv
<1>2. IInv /\ HasOrigin /\ BookInv /\ [Next]_vars => BookInv'
  <2>1. IInv /\ HasOrigin /\ BookInv /\ Next => BookInv'
    BY NextFilled, NextAnswered DEF BookInv
  <2>2. BookInv /\ UNCHANGED vars => BookInv'
    BY DEF BookInv, Filled, Answered, Present, vars
  <2>3. QED
    BY <2>1, <2>2
<1>3. QED
  BY <1>1, <1>2, InductiveInvariant, OriginInvariant, PTL DEF Spec

-----------------------------------------------------------------------------
(* The book and its last chapter, as the rows show them. *)

Pages == {ChapterOf(g) : g \in {x \in Genome : Committed(x)}}
LastPage == [ChapterOf(companion.current) EXCEPT !.name = companion.name]

LEMMA LastPageIs ==
  ASSUME companion.name = Current.name
  PROVE  /\ LastPage = ChapterOf(companion.current)
         /\ LastPage = [genome |-> companion.current, version |-> Current.version,
                        name |-> Current.name, traits |-> Current.traits]
BY DEF LastPage, ChapterOf, Current

\* A genome that becomes committed is one more page.
LEMMA PagesGrow ==
  ASSUME NEW g \in Genome, ~Committed(g), Committed(g)',
         \A x \in Genome \ {g} : genomes'[x] = genomes[x]
  PROVE  Pages' = Pages \cup {ChapterOf(g)'}
<1>1. \A x \in Genome \ {g} : (Committed(x)' <=> Committed(x)) /\ ChapterOf(x)' = ChapterOf(x)
  BY DEF Committed, ChapterOf
<1>2. QED
  BY <1>1 DEF Pages

\* The chapter that becomes current is the last page.
LEMMA WritesBook ==
  ASSUME IInv, Filled, IInv', Filled',
         NEW g \in Genome, ~Committed(g), Committed(g)', companion'.current = g,
         \A x \in Genome \ {g} : genomes'[x] = genomes[x],
         genomes'[g].version > Current.version,
         genomes'[g].name = Current.name \/ genomes'[g].traits = Current.traits
  PROVE  Book!Write
<1>1. companion.name = Current.name /\ companion'.name = Current.name'
  BY CurrentFilled DEF IInv, NameAgrees
<1>2. LastPage' = ChapterOf(g)'
  BY <1>1 DEF LastPage, ChapterOf, Current
<1>3. /\ LastPage'.genome = g /\ LastPage'.version = genomes'[g].version
      /\ LastPage'.name = genomes'[g].name /\ LastPage'.traits = genomes'[g].traits
  BY <1>2 DEF ChapterOf
<1>4. /\ LastPage.version = Current.version
      /\ LastPage.name = Current.name /\ LastPage.traits = Current.traits
  BY <1>1, LastPageIs
<1>5. LastPage' \in [genome : Genome, version : 1..MaxVersion, name : Name, traits : Traits]
  BY <1>2 DEF ChapterOf, Filled, Committed, Present
<1>6. Pages' = Pages \cup {LastPage'}
  BY <1>2, PagesGrow
<1>7. QED
  BY <1>3, <1>4, <1>5, <1>6 DEF Book!Write, Pages, LastPage

\* A step that commits nothing leaves the book.
LEMMA PagesStay ==
  ASSUME \A x \in Genome : Committed(x)' <=> Committed(x),
         \A x \in Genome : Committed(x) => genomes'[x] = genomes[x],
         Committed(companion.current), companion.current \in Genome, UNCHANGED companion
  PROVE  UNCHANGED <<Pages, LastPage>>
<1>1. \A x \in Genome : Committed(x) => ChapterOf(x)' = ChapterOf(x)
  BY DEF ChapterOf
<1>2. Pages' = Pages
  BY <1>1 DEF Pages
<1>3. LastPage' = LastPage
  BY <1>1 DEF LastPage, ChapterOf
<1>4. QED
  BY <1>2, <1>3

LEMMA AppendsBook ==
  ASSUME IInv, Filled, IInv', Filled', NEW g \in Genome, NEW name \in Name, NEW traits \in Traits,
         NEW target \in Genome \cup {None}, Appends(g, name, traits, target)
  PROVE  Book!Commit
<1>1. /\ ~Present(g)
      /\ \A x \in Genome \ {g} : genomes'[x] = genomes[x]
      /\ genomes'[g].status = "committed"
      /\ genomes'[g].name = name /\ genomes'[g].traits = traits
      /\ \A x \in Genome \ {g} : genomes'[x].version < genomes'[g].version
  BY AppendEffect DEF Appends, AppendPersona, IInv
<1>2. companion.current \in Genome \ {g}
  BY <1>1, CurrentFilled
<1>3. genomes'[g].version > Current.version
  BY <1>1, <1>2, CurrentFilled DEF Current, Filled, Committed, Present
<1>4. /\ companion' = Now(g, name) /\ UNCHANGED answers
      /\ name = Current.name \/ traits = Current.traits
  BY DEF Appends, AppendPersona
<1>5. Book!Write
  BY <1>1, <1>3, <1>4, WritesBook DEF Now, Committed, Present
<1>6. /\ companion'.revision = companion.revision + 1
      /\ companion'.preferences = companion.preferences
      /\ companion'.preference_revision = companion.preference_revision
  BY <1>4 DEF Now
<1>7. QED
  BY <1>4, <1>5, <1>6 DEF Book!Commit

LEMMA ApprovesBook ==
  ASSUME IInv, Filled, IInv', Filled', NEW g \in Genome, Approves(g)
  PROVE  Book!Commit
<1>1. /\ genomes[g].status = "proposed" /\ companion.current = genomes[g].base
      /\ companion' = Now(g, companion.name) /\ UNCHANGED answers
  BY DEF Approves
<1>2. /\ genomes'[g].status = "committed"
      /\ \A x \in Genome \ {g} : genomes'[x] = genomes[x]
      /\ genomes'[g].version = genomes[g].version
      /\ genomes'[g].name = genomes[g].name
  BY DecideEffect DEF Approves, IInv, Status
<1>3. /\ genomes[g].name = Current.name
      /\ Current.version < genomes[g].version
  BY <1>1, CurrentFilled, GenomeNoneAssumption
     DEF IInv, ProposedNames, OneLine, VersionsGrow, Current, Present
<1>4. genomes'[g].version > Current.version
  BY <1>2, <1>3, CurrentFilled DEF Filled, Present
<1>5. Book!Write
  BY <1>1, <1>2, <1>3, <1>4, WritesBook DEF Now, Committed
<1>6. /\ companion'.revision = companion.revision + 1
      /\ companion'.preferences = companion.preferences
      /\ companion'.preference_revision = companion.preference_revision
  BY <1>1 DEF Now
<1>7. QED
  BY <1>1, <1>5, <1>6 DEF Book!Commit

\* An edit writes a chapter if it changes one, and is answered with what it led to.
LEMMA EditsBook ==
  ASSUME IInv, BookInv, IInv', Filled', NEW op \in Operation, NEW request \in Request,
         Edit(op, request)
  PROVE  Book!Edit(op)
<1> DEFINE change == request.change
<1>1. PICK g \in Genome : EditsTo(op, request, g)
  BY DEF Edit
<1>2. /\ change \in Change
      /\ EditName(change) \in Name /\ EditTraits(change) \in Traits
      /\ EditTarget(change) \in Genome \cup {None}
      /\ EditName(change) = Current.name \/ EditTraits(change) = Current.traits
  BY EditTraitsFilled DEF BookInv
<1>3. companion' = Edited(request, g)
  BY <1>1 DEF EditsTo
<1>4. /\ Committed(g)' /\ genomes'[g].name = EditName(change)
      /\ genomes'[g].traits = EditTraits(change)
  BY <1>1, EditChapters DEF Edit
<1>5. answers[op] = {} /\ Committed(companion.current) /\ companion.current \in Genome
  BY CurrentFilled DEF Edit, IInv, Receipted, BookInv
<1>6. /\ companion'.current = g /\ companion'.name = DisplayName(change)
      /\ companion'.revision \in Nat
  BY <1>1, <1>3, EditedTyped DEF IInv, CompanionRow
<1>7. companion.revision \in Nat /\ companion.preference_revision \in Nat
  BY DEF IInv, TypeOK, CompanionRow
<1> DEFINE written == IF Changes(change) THEN 1 ELSE 0
           chosen == IF SetsPreferences(request) THEN 1 ELSE 0
<1>8. /\ companion'.revision = companion.revision + written + chosen
      /\ IF chosen = 1
         THEN /\ companion'.preferences = request.preferences
              /\ request.preferences \in Preferences
              /\ companion'.preference_revision = companion.preference_revision + 1
         ELSE /\ companion'.preferences = companion.preferences
              /\ companion'.preference_revision = companion.preference_revision
  BY <1>3, <1>7 DEF Edited, SetsPreferences, Request
<1>9. ASSUME Changes(change) PROVE Book!Write
  <2>1. Append(g, EditName(change), EditTraits(change), EditTarget(change))
    BY <1>1, <1>9 DEF EditsTo
  <2>2. /\ ~Present(g)
        /\ \A x \in Genome \ {g} : genomes'[x] = genomes[x]
        /\ \A x \in Genome \ {g} : genomes'[x].version < genomes'[g].version
    BY <1>2, <2>1, AppendEffect DEF IInv
  <2>3. genomes'[g].version > Current.version
    BY <1>4, <2>2, CurrentFilled DEF Current, BookInv, Filled, Committed, Present
  <2>4. QED
    BY <1>2, <1>4, <1>6, <2>2, <2>3, WritesBook DEF BookInv, Committed, Present
<1>10. ASSUME ~Changes(change) PROVE UNCHANGED <<Pages, LastPage>>
  <2>1. g = companion.current /\ UNCHANGED genomes
    BY <1>1, <1>10 DEF EditsTo
  <2>2. DisplayName(change) = companion.name
    BY <1>2, <1>10, EditNames DEF IInv, NameAgrees, Changes
  <2>3. QED
    BY <1>6, <2>1, <2>2 DEF Pages, LastPage, ChapterOf, Committed
<1>11. answers' = [answers EXCEPT ![op] = {Book!Answer'}]
  <2>1. /\ LastPage'.genome = g /\ LastPage'.name = companion'.name
        /\ LastPage'.traits = EditTraits(change)
    BY <1>4, <1>6 DEF LastPage, ChapterOf
  <2>2. Book!Answer' = SnapshotOf(companion', EditTraits(change))
    BY <1>6, <2>1 DEF Book!Answer, SnapshotOf, LastPage
  <2>3. answers' = [answers EXCEPT ![op] = @ \cup {SnapshotOf(companion', EditTraits(change))}]
    BY <1>1, <1>3 DEF EditsTo, Answer
  <2>4. QED
    BY <1>5, <2>2, <2>3 DEF IInv, TypeOK
<1> HIDE DEF change
<1>12. IF written = 1 THEN Book!Write ELSE UNCHANGED <<Pages, LastPage>>
  BY <1>9, <1>10
<1>13. written \in 0..1 /\ chosen \in 0..1
  OBVIOUS
<1> HIDE DEF written, chosen
<1>14. IF chosen = 1 THEN Book!Choose
      ELSE [value |-> companion.preferences, revision |-> companion.preference_revision]'
             = [value |-> companion.preferences, revision |-> companion.preference_revision]
  BY <1>8 DEF Book!Choose
<1>15. QED
  BY <1>5, <1>8, <1>11, <1>12, <1>13, <1>14 DEF Book!Edit, Pages, LastPage

LEMMA ReplayRepeats ==
  ASSUME IInv, BookInv, NEW op \in Operation, ReplayEdit(op)
  PROVE  UNCHANGED <<companion, genomes, answers>>
<1>1. /\ receipts[op] # NoReceipt
      /\ UNCHANGED <<companion, genomes>>
      /\ answers' = [answers EXCEPT ![op] = @ \cup {OriginalAnswer(op)}]
  BY DEF ReplayEdit, Answer
<1>2. OriginalAnswer(op) = receipts[op].result
  BY <1>1 DEF OriginalAnswer, IInv, TypeOK, Receipted, Snapshot
<1>3. answers[op] = {receipts[op].result}
  BY <1>1 DEF IInv, Receipted, BookInv, Answered
<1>4. QED
  BY <1>1, <1>2, <1>3 DEF IInv, TypeOK

\* Whatever was edited, retried, restored, proposed and approved, in whatever
\* order, the commands of PersonaService implement one book of chapters with one
\* answer for each edit.
THEOREM ImplementsBook == Spec => BookSpec
<1>1. Init => Book!Init
  <2> SUFFICES ASSUME Init PROVE Book!Init
    OBVIOUS
  <2>1. PICK g \in Genome, name \in Name, traits \in Traits, chosen \in Preferences :
          /\ companion = [current |-> g, name |-> name, revision |-> 1,
                          preferences |-> chosen, preference_revision |-> 1]
          /\ genomes = [x \in Genome |->
               IF x = g THEN [status |-> "committed", version |-> 1, base |-> None,
                              name |-> name, traits |-> traits, restored_from |-> None]
               ELSE NoGenome]
    BY DEF Init
  <2>2. /\ genomes[g].name = name /\ genomes[g].version = 1 /\ genomes[g].traits = traits
        /\ \A x \in Genome : Committed(x) <=> x = g
    BY <2>1 DEF Committed, NoGenome
  <2>3. LastPage = ChapterOf(g)
    BY <2>1, <2>2 DEF LastPage, ChapterOf
  <2>4. Pages = {LastPage}
    BY <2>2, <2>3 DEF Pages
  <2>5. LastPage \in [genome : Genome, version : 1..MaxVersion, name : Name, traits : Traits]
    BY <2>2, <2>3, VersionAssumption DEF ChapterOf
  <2>6. answers = [op \in Operation |-> {}]
    BY DEF Init
  <2>7. QED
    BY <2>1, <2>4, <2>5, <2>6 DEF Book!Init, Pages, LastPage
<1>2. ASSUME IInv, HasOrigin, BookInv, Next
      PROVE  Book!Next \/ UNCHANGED <<Pages, LastPage, companion, answers>>
  <2>1. IInv' /\ Filled'
    BY <1>2, NextKeeps, NextFilled DEF BookInv
  <2>2. ASSUME NEW op \in Operation, NEW request \in Request, Edit(op, request)
        PROVE  Book!Next
    BY <1>2, <2>1, <2>2, EditsBook DEF Book!Next
  <2>3. ASSUME NEW op \in Operation, ReplayEdit(op)
        PROVE  UNCHANGED <<Pages, LastPage, companion, answers>>
    BY <1>2, <2>3, ReplayRepeats DEF Pages, LastPage, ChapterOf, Committed
  <2>4. ASSUME NEW g \in Genome, NEW name \in Name, NEW traits \in Traits,
               NEW target \in Genome \cup {None}, Appends(g, name, traits, target)
        PROVE  Book!Next
    BY <1>2, <2>1, <2>4, AppendsBook DEF Book!Next, BookInv
  <2>5. ASSUME NEW g \in Genome, Approves(g) PROVE Book!Next
    BY <1>2, <2>1, <2>5, ApprovesBook DEF Book!Next, BookInv
  <2>6. companion.current \in Genome /\ Committed(companion.current)
    BY <1>2 DEF IInv, TypeOK, CompanionRow, OneLine, TipIsCurrent
  <2>7. ASSUME NEW g \in Genome, NEW base \in Genome, NEW traits \in Traits,
               CreateEvolutionProposal(g, base, traits)
        PROVE  UNCHANGED <<Pages, LastPage, companion, answers>>
    <3>1. /\ ~Present(g) /\ UNCHANGED <<companion, answers>>
          /\ genomes'[g].status = "proposed"
          /\ \A x \in Genome \ {g} : genomes'[x] = genomes[x]
      BY <1>2, <2>7 DEF CreateEvolutionProposal, IInv, TypeOK
    <3>2. QED
      BY <2>6, <3>1, PagesStay DEF Committed, Present
  <2>8. ASSUME NEW g \in Genome, NEW status \in {"stale", "rejected"}, Dismisses(g, status)
        PROVE  UNCHANGED <<Pages, LastPage, companion, answers>>
    <3>1. /\ genomes[g].status = "proposed" /\ UNCHANGED <<companion, answers>>
          /\ genomes'[g].status = status
          /\ \A x \in Genome \ {g} : genomes'[x] = genomes[x]
      BY <1>2, <2>8 DEF Dismisses, IInv, TypeOK
    <3>2. QED
      BY <2>6, <3>1, PagesStay DEF Committed
  <2>9. QED
    BY <1>2, <2>2, <2>3, <2>4, <2>5, <2>7, <2>8, NextCommands DEF BookInv
<1>3. UNCHANGED <<Pages, LastPage, companion, answers>> => UNCHANGED Book!vars
  BY DEF Pages, LastPage, Book!vars
<1>4. UNCHANGED vars => UNCHANGED Book!vars
  BY DEF vars, Book!vars, ChapterOf, Committed
<1>5. QED
  BY <1>1, <1>2, <1>3, <1>4, InductiveInvariant, OriginInvariant, BookInvariant, PTL
     DEF Spec, BookSpec, Book!Spec
=============================================================================
