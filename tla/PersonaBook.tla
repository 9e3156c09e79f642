---------------------------- MODULE PersonaBook ----------------------------
(***************************************************************************)
(* What a Companion's persona promises its Owner: a book of chapters that   *)
(* only grows, whose last chapter is the persona in force and changes one   *)
(* thing of the chapter before, its name or its traits; preferences under a *)
(* revision of their own; and edits that are done once and answered once,   *)
(* with what they led to.                                                   *)
(***************************************************************************)
EXTENDS Naturals

CONSTANTS
  Chapter,      \* chapters: genome, version, name and traits
  Preferences,
  Operation     \* ids of edits

VARIABLES
  book,         \* the chapters so far
  last,         \* the one in force
  preferences,  \* the preferences, and how often they were set
  revision,     \* counts what was changed
  answered      \* operation -> the answers it was given

vars == <<book, last, preferences, revision, answered>>

Write ==
  /\ last' \in Chapter
  /\ last'.version > last.version
  /\ last'.name = last.name \/ last'.traits = last.traits
  /\ book' = book \cup {last'}

Choose ==
  /\ preferences'.value \in Preferences
  /\ preferences' = [value |-> preferences'.value, revision |-> preferences.revision + 1]

Answer ==
  [genome |-> last.genome, name |-> last.name, revision |-> revision, traits |-> last.traits,
   preferences |-> preferences.value, preference_revision |-> preferences.revision]

Init ==
  /\ book = {last} /\ last \in Chapter
  /\ revision = 1 /\ \E p \in Preferences : preferences = [value |-> p, revision |-> 1]
  /\ answered = [op \in Operation |-> {}]

\* A rename, a restoration, an approved proposal.
Commit ==
  /\ Write
  /\ revision' = revision + 1
  /\ UNCHANGED <<preferences, answered>>

\* An edit writes a chapter, chooses preferences, or both.
Edit(op) ==
  /\ answered[op] = {}
  /\ \E written, chosen \in 0..1 :
       /\ IF written = 1 THEN Write ELSE UNCHANGED <<book, last>>
       /\ IF chosen = 1 THEN Choose ELSE UNCHANGED preferences
       /\ revision' = revision + written + chosen
  /\ answered' = [answered EXCEPT ![op] = {Answer'}]

Next == Commit \/ \E op \in Operation : Edit(op)

Spec == Init /\ [][Next]_vars
=============================================================================
