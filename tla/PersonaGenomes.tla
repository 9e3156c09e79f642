--------------------------- MODULE PersonaGenomes ---------------------------
(***************************************************************************)
(* The persona genomes of one Companion (eidolon_data/services/             *)
(* persona_service.py): immutable chapters, the pointer to the current one, *)
(* proposals of the Agent that an Owner approves or rejects, and the        *)
(* receipts that answer a retried edit.  Every command begins with BEGIN    *)
(* IMMEDIATE, so each is one action whatever the connections; what a client *)
(* read before it asks (expected base, expected preference revision) may be *)
(* of any age.                                                             *)
(*                                                                         *)
(* A genome's content is its name (constitution.name) and its traits, all   *)
(* else.  The Companion was provisioned with its first genome.              *)
(***************************************************************************)
EXTENDS Naturals

CONSTANTS
  Genome,       \* genome ids
  Traits,       \* contents of a genome besides the name
  Name,         \* display names
  Preferences,  \* conversation preferences
  Operation,    \* operation ids of edits
  None,         \* SQL NULL, or a field a request leaves out
  MaxVersion    \* bound on versions

ASSUME GenomeNoneAssumption ==
  None \notin Genome \cup Traits \cup Name \cup Preferences
ASSUME VersionAssumption == MaxVersion \in Nat \ {0}

VARIABLES
  companion,    \* the persona's columns of the companions row
  genomes,      \* genome_id -> row of persona_genomes
  receipts,     \* operation_id -> receipt in the Companion's metadata
  answers       \* operation_id -> what edit answered it so far

vars == <<companion, genomes, receipts, answers>>

Status == {"absent", "proposed", "committed", "stale", "rejected"}
GenomeRow ==
  [status : Status, version : Nat, base : Genome \cup {None}, name : Name \cup {None},
   traits : Traits \cup {None}, restored_from : Genome \cup {None}]
CompanionRow ==
  [current : Genome, name : Name, revision : Nat,
   preferences : Preferences, preference_revision : Nat]
NoGenome == [status |-> "absent", version |-> 0, base |-> None, name |-> None,
             traits |-> None, restored_from |-> None]

\* What an edit may ask: a new name, a restoration, or new traits, each with or
\* without new preferences.
Change == [action : {"rename"}, value : Name]
            \cup [action : {"restore"}, value : Genome]
            \cup [action : {"author"}, value : Traits]
Request ==
  [change : Change, base : Genome, preferences : Preferences \cup {None},
   preference_revision : Nat]

ASSUME RequestAssumption == None \notin Request

Snapshot ==
  [genome : Genome, name : Name, revision : Nat, traits : Traits \cup {None},
   preferences : Preferences, preference_revision : Nat]
NoReceipt == [request |-> None, result |-> None]

Committed(g) == genomes[g].status = "committed"
Present(g) == genomes[g].status # "absent"
Current == genomes[companion.current]

-----------------------------------------------------------------------------
(* Helpers of the commands. *)

\* One above the highest version of the Companion, whatever its status.
NextVersion(v) ==
  /\ \A g \in Genome : genomes[g].version < v
  /\ \E g \in Genome : Present(g) /\ v = genomes[g].version + 1

\* A new committed genome g, following the current one.
Append(g, name, traits, target) ==
  /\ ~Present(g)
  /\ \E v \in 1..MaxVersion :
       /\ NextVersion(v)
       /\ genomes' = [genomes EXCEPT ![g] =
            [status |-> "committed", version |-> v, base |-> companion.current,
             name |-> name, traits |-> traits, restored_from |-> target]]

\* Faulty: the pointer moves and the revision does not.
NowSilently(g, name) == [companion EXCEPT !.current = g, !.name = name]
\* The Companion's columns once g is current under that display name.
Now(g, name) ==
  [current |-> g, name |-> name, revision |-> companion.revision + 1,
   preferences |-> companion.preferences,
   preference_revision |-> companion.preference_revision]

\* _append_persona, and companion.display_name where the command sets it.
AppendPersona(g, name, traits, target) ==
  /\ Append(g, name, traits, target)
  /\ companion' = Now(g, name)

-----------------------------------------------------------------------------
(* edit. *)

Restorable(g) == Committed(g)

\* Faulty: a restored chapter brings its old name back.
EditNameRestored(change) ==
  CASE change.action = "rename" -> change.value
    [] change.action = "restore" -> genomes[change.value].name
    [] OTHER -> Current.name
\* The genome an edit leads to, the one it restores, and the display name.
EditName(change) ==
  CASE change.action = "rename" -> change.value
    [] change.action = "restore" /\ change.value # companion.current -> companion.name
    [] OTHER -> Current.name
EditTraits(change) ==
  CASE change.action = "rename"  -> Current.traits
    [] change.action = "restore" -> genomes[change.value].traits
    [] change.action = "author"  -> change.value
EditTarget(change) == IF change.action = "restore" THEN change.value ELSE None
DisplayName(change) == IF change.action = "rename" THEN change.value ELSE companion.name

\* Faulty: an edit made on older preferences overwrites newer ones.
UpToDateGenome(request) == request.base = companion.current
UpToDate(request) ==
  /\ request.base = companion.current
  /\ request.preference_revision = companion.preference_revision

Changes(change) ==
  \/ EditName(change) # Current.name
  \/ EditTraits(change) # Current.traits
  \/ EditTarget(change) \notin {None, companion.current}

SetsPreferences(request) == request.preferences \notin {None, companion.preferences}

\* The Companion's columns after an edit that made g current.
Edited(request, g) ==
  LET steps == (IF Changes(request.change) THEN 1 ELSE 0)
                 + (IF SetsPreferences(request) THEN 1 ELSE 0)
  IN  [current |-> g,
       name |-> DisplayName(request.change),
       revision |-> companion.revision + steps,
       preferences |-> IF SetsPreferences(request) THEN request.preferences
                       ELSE companion.preferences,
       preference_revision |-> companion.preference_revision
                                 + (IF SetsPreferences(request) THEN 1 ELSE 0)]

SnapshotOf(row, traits) ==
  [genome |-> row.current, name |-> row.name, revision |-> row.revision, traits |-> traits,
   preferences |-> row.preferences, preference_revision |-> row.preference_revision]

Answer(op, snapshot) == answers' = [answers EXCEPT ![op] = @ \cup {snapshot}]

EditsTo(op, request, g) ==
  LET change == request.change
      traits == EditTraits(change)
      result == SnapshotOf(Edited(request, g), traits)
  IN  /\ \/ Changes(change) /\ Append(g, EditName(change), traits, EditTarget(change))
         \/ ~Changes(change) /\ g = companion.current /\ UNCHANGED genomes
      /\ companion' = Edited(request, g)
      /\ receipts' = [receipts EXCEPT ![op] = [request |-> request, result |-> result]]
      /\ Answer(op, result)

Edit(op, request) ==
  /\ receipts[op] = NoReceipt
  /\ Committed(companion.current)
  /\ UpToDate(request)
  /\ request.change.action = "restore" => Restorable(request.change.value)
  /\ \E g \in Genome : EditsTo(op, request, g)

\* Faulty: a retry is answered with what is current by now.
PresentAnswer(op) == SnapshotOf(companion, Current.traits)
\* The receipt, and the traits of the genome it names.
OriginalAnswer(op) ==
  [receipts[op].result EXCEPT !.traits = genomes[receipts[op].result.genome].traits]

\* A retry of an accepted edit; the same id with another request is refused.
ReplayEdit(op) ==
  /\ receipts[op] # NoReceipt
  /\ Answer(op, OriginalAnswer(op))
  /\ UNCHANGED <<companion, genomes, receipts>>

-----------------------------------------------------------------------------
(* rename, restore_chapter (and rollback_to_genome), reset_to_origin. *)

Rename(name, g) ==
  /\ Committed(companion.current)
  /\ companion.name # name \/ Current.name # name
  /\ AppendPersona(g, name, Current.traits, None)
  /\ UNCHANGED <<receipts, answers>>

\* A restoration already in force is answered again without a new chapter.
AlreadyRestored(target) == target = companion.current \/ Current.restored_from = target

Restore(target, g) ==
  /\ Committed(companion.current)
  /\ ~AlreadyRestored(target)
  /\ AppendPersona(g, companion.name, genomes[target].traits, target)
  /\ UNCHANGED <<receipts, answers>>

RestoreChapter(target, g) == Restorable(target) /\ Restore(target, g)

\* Faulty: one step back is taken for the origin.
ParentOf(g) == IF genomes[g].base = None THEN g ELSE genomes[g].base
\* The walk along base_genome_id.
OriginOf(g) ==
  LET up[x \in Genome] == IF genomes[x].base = None THEN x ELSE up[genomes[x].base]
  IN  up[g]

ResetToOrigin(g) ==
  \E origin \in Genome : origin = OriginOf(companion.current) /\ Restore(origin, g)

-----------------------------------------------------------------------------
(* Proposals. *)

\* Evolution rewrites traits only: validate_persona_evolution.
CreateEvolutionProposal(g, base, traits) ==
  /\ base = companion.current
  /\ ~Present(g)
  /\ \E v \in 1..MaxVersion :
       /\ NextVersion(v)
       /\ genomes' = [genomes EXCEPT ![g] =
            [status |-> "proposed", version |-> v, base |-> base, name |-> Current.name,
             traits |-> traits, restored_from |-> None]]
  /\ UNCHANGED <<companion, receipts, answers>>

\* Faulty: leaving out the expected base leaves out the check.
CallerExpects(g, expected) == expected \in {None, genomes[g].base}
StillApplies(g, expected) ==
  /\ companion.current = genomes[g].base
  /\ expected \in {None, genomes[g].base}

ApproveEvolution(g, expected) ==
  /\ genomes[g].status = "proposed"
  /\ \/ /\ StillApplies(g, expected)
        /\ genomes' = [genomes EXCEPT ![g].status = "committed"]
        /\ companion' = Now(g, companion.name)
     \/ /\ ~StillApplies(g, expected)
        /\ genomes' = [genomes EXCEPT ![g].status = "stale"]
        /\ UNCHANGED companion
  /\ UNCHANGED <<receipts, answers>>

Undecided(g) == genomes[g].status = "proposed"

RejectEvolution(g) ==
  /\ Undecided(g)
  /\ genomes' = [genomes EXCEPT ![g].status = "rejected"]
  /\ UNCHANGED <<companion, receipts, answers>>

-----------------------------------------------------------------------------
Init ==
  /\ \E g \in Genome, name \in Name, traits \in Traits, preferences \in Preferences :
       /\ companion = [current |-> g, name |-> name, revision |-> 1,
                       preferences |-> preferences, preference_revision |-> 1]
       /\ genomes = [x \in Genome |->
            IF x = g THEN [status |-> "committed", version |-> 1, base |-> None, name |-> name,
                           traits |-> traits, restored_from |-> None]
            ELSE NoGenome]
  /\ receipts = [op \in Operation |-> NoReceipt]
  /\ answers = [op \in Operation |-> {}]

\* A request of any age: the revisions a client may have read.
MadeRequests ==
  [change : Change, base : Genome, preferences : Preferences \cup {None},
   preference_revision : 1..companion.preference_revision]

EditCommand(op) ==
  \/ \E request \in MadeRequests : Edit(op, request)
  \/ ReplayEdit(op)

ChapterCommand(g) ==
  \/ \E name \in Name : Rename(name, g)
  \/ \E target \in Genome : RestoreChapter(target, g)
  \/ ResetToOrigin(g)
  \/ \E base \in Genome, traits \in Traits : CreateEvolutionProposal(g, base, traits)

DecideCommand(g) ==
  \/ \E expected \in Genome \cup {None} : ApproveEvolution(g, expected)
  \/ RejectEvolution(g)

Next ==
  \/ \E op \in Operation : EditCommand(op)
  \/ \E g \in Genome : ChapterCommand(g) \/ DecideCommand(g)

Spec == Init /\ [][Next]_vars

-----------------------------------------------------------------------------
(* Invariants. *)

\* Every column holds a value the schema and the SDK's models allow.
TypeOK ==
  /\ companion \in CompanionRow
  /\ genomes \in [Genome -> GenomeRow]
  /\ receipts \in [Operation -> [request : Request, result : Snapshot] \cup {NoReceipt}]
  /\ answers \in [Operation -> SUBSET Snapshot]

\* Whatever edits, restorations and approvals raced, the committed genomes are
\* one line of chapters: no two follow the same one, versions grow along it,
\* and nothing follows the current one.
OneFollower ==
  \A g, h \in Genome :
    Committed(g) /\ Committed(h) /\ genomes[g].base = genomes[h].base => g = h
VersionsGrow ==
  \A g \in Genome : Present(g) /\ genomes[g].base # None =>
    Committed(genomes[g].base) /\ genomes[genomes[g].base].version < genomes[g].version
TipIsCurrent ==
  /\ Committed(companion.current)
  /\ \A g \in Genome : Committed(g) => genomes[g].base # companion.current
OneLine == OneFollower /\ VersionsGrow /\ TipIsCurrent

\* The name the Owner chose is the name its persona answers to, through
\* renames, restorations of chapters that had another name, and approvals of
\* proposals made before a rename.
NameAgrees == Current.name = companion.name

\* Going back to the origin goes back to the first chapter, however many
\* restorations the line already holds.
OriginIsFirst == genomes[OriginOf(companion.current)].version = 1

\* A retried edit is told what the first was told, whatever changed since.
OneAnswer == \A op \in Operation : \A x, y \in answers[op] : x = y

\* Of two edits prepared on the same preferences only one changes them.
Overwrites(op) ==
  /\ receipts[op] # NoReceipt
  /\ receipts[op].result.preference_revision # receipts[op].request.preference_revision
PreferencesNotLost ==
  \A op, other \in Operation :
    /\ Overwrites(op) /\ Overwrites(other)
    /\ receipts[op].request.preference_revision = receipts[other].request.preference_revision
    => op = other

-----------------------------------------------------------------------------
(* Action properties. *)

\* Genomes are never edited: content, version and base stay, and a proposal
\* that was decided, by anyone, stays decided.
ChaptersStayStep ==
  \A g \in Genome : Present(g) =>
    /\ [genomes'[g] EXCEPT !.status = "proposed"] = [genomes[g] EXCEPT !.status = "proposed"]
    /\ genomes[g].status = "proposed" => genomes'[g].status # "absent"
    /\ genomes[g].status # "proposed" => genomes'[g].status = genomes[g].status
ChaptersStay == [][ChaptersStayStep]_vars

\* The Companion revision a client holds names one persona, name and set of
\* preferences.
SettingsMoveRevisionStep ==
  /\ companion'.revision >= companion.revision
  /\ companion'.revision = companion.revision => companion' = companion
SettingsMoveRevision == [][SettingsMoveRevisionStep]_vars

\* Whatever was edited, retried, restored, proposed and approved in whatever
\* order, the Companion's persona is a book with one answer for each edit.
ChapterOf(g) ==
  [genome |-> g, version |-> genomes[g].version, name |-> genomes[g].name,
   traits |-> genomes[g].traits]
Book == INSTANCE PersonaBook WITH
  Chapter     <- [genome : Genome, version : 1..MaxVersion, name : Name, traits : Traits],
  book        <- {ChapterOf(g) : g \in {x \in Genome : Committed(x)}},
  last        <- [ChapterOf(companion.current) EXCEPT !.name = companion.name],
  preferences <- [value |-> companion.preferences, revision |-> companion.preference_revision],
  revision    <- companion.revision,
  answered    <- answers
BookSpec == Book!Spec
=============================================================================
