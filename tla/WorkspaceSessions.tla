--------------------------- MODULE WorkspaceSessions ---------------------------
(***************************************************************************)
(* One Companion, written by two processes over one database file: the      *)
(* lifecycle commands of the workspace authority (services/owner_workspace.py*)
(* as in OwnerWorkspace, here of a Companion that is not the default) and   *)
(* the persona commands of the companion authority                          *)
(* (services/persona_service.py).  A lifecycle command reads the row before *)
(* SQLite has begun its transaction, which the first write begins, and      *)
(* writes the columns it changed; a persona command takes the write lock    *)
(* before it reads.  Each process has one connection.                       *)
(***************************************************************************)
EXTENDS Naturals

CONSTANTS
  Name,
  None,         \* no command
  MaxRevision   \* bound on the revision

VARIABLES
  companion,    \* the row: its lifecycle state, name and revision
  command,      \* the lifecycle command that has read the row, or None
  told          \* the identities the companion authority answered

vars == <<companion, command, told>>

State == {"active", "retiring", "archived"}
Row == [state : State, name : Name, revision : 1..MaxRevision]

\* COMPANION_LIFECYCLE_TRANSITIONS, and the two at once of put_away_companion.
Steps == [active |-> [retiring |-> 1, archived |-> 2],
          retiring |-> [archived |-> 1],
          archived |-> [active |-> 1]]

\* begin_retirement, archive_companion, put_away_companion and restore_companion
\* up to their first write.  What is already so is answered and not written.
ReadCompanion(target) ==
  /\ command = None
  /\ target \in DOMAIN Steps[companion.state]
  /\ command' = [read |-> companion, target |-> target]
  /\ UNCHANGED <<companion, told>>

\* The flush sets the state, and the revision computed from the row it read.
WriteCompanion ==
  LET revision == command.read.revision + Steps[command.read.state][command.target]
  IN  /\ command # None
      /\ revision <= MaxRevision
      /\ companion' = [companion EXCEPT !.state = command.target, !.revision = revision]
      /\ command' = None
      /\ UNCHANGED told

\* The flush finds the database locked, or the commit fails.
GiveUp ==
  /\ command # None
  /\ command' = None
  /\ UNCHANGED <<companion, told>>

\* rename: BEGIN IMMEDIATE, then the row, the name and one more revision.
Rename(name) ==
  /\ name # companion.name
  /\ companion.revision < MaxRevision
  /\ companion' = [companion EXCEPT !.name = name, !.revision = @ + 1]
  /\ UNCHANGED <<command, told>>

\* GET companions/{id}.
AnswerIdentity ==
  /\ told' = told \cup {companion}
  /\ UNCHANGED <<companion, command>>

-----------------------------------------------------------------------------
Init ==
  /\ companion \in [state : {"active"}, name : Name, revision : {1}]
  /\ command = None
  /\ told = {}

Next ==
  \/ \E target \in State : ReadCompanion(target)
  \/ WriteCompanion \/ GiveUp \/ AnswerIdentity
  \/ \E name \in Name : Rename(name)

Spec == Init /\ [][Next]_vars

-----------------------------------------------------------------------------
\* "Aggregate version, for compare-and-swap on writes" (CompanionIdentityResponse):
\* two identities with one version are the same identity.
VersionNamesIdentity ==
  \A x, y \in told : x.revision = y.revision => x = y
=============================================================================
