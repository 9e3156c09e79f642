------------------------- MODULE GovernanceHistory -------------------------
(***************************************************************************)
(* A person reading an Owner's governance events page by page (list_for_owner*)
(* of eidolon_data/audit/outbox.py) while facts are committed, published     *)
(* and purged.  Each page is one query; the reader hands the cursor of a     *)
(* page back to ask for the next.                                           *)
(***************************************************************************)
EXTENDS AuditOutbox, Sequences

CONSTANTS
  Fact,       \* the Owner's governance events; the others are not its own
  PageSize    \* rows of a page

ASSUME HistoryAssumption == Fact \subseteq Event /\ PageSize \in Nat \ {0}

VARIABLES
  cursor,     \* before_sequence of the next page, 0 for none
  told,       \* the pages answered so far, each as the set of its events
  stayed,     \* facts stored since the first page was asked for
  reading     \* whether there is a next page

reader == <<cursor, told, stayed, reading>>
historyVars == <<vars, reader>>

\* The rows the query of a page selects.
Selected == {e \in Fact : Stored(e) /\ (cursor = 0 \/ outbox_id[e] < cursor)}

Newer(e, f) == outbox_id[e] > outbox_id[f]

\* The newest selected rows, as many as a page holds.
Page(B) ==
  /\ B \subseteq Selected
  /\ \A b \in B, x \in Selected \ B : Newer(b, x)
  /\ B = Selected \/ Cardinality(B) = PageSize
  /\ Cardinality(B) <= PageSize

\* Faulty: the cursor is the first row left out.
AfterExtraRow(B, e) == e \notin B /\ \A x \in Selected \ B : ~Newer(x, e)
\* e is the last row of the page: its key is the cursor.
NextSequence(B, e) == e \in B /\ \A b \in B : ~Newer(e, b)

ReadPage ==
  /\ reading
  /\ \E B \in SUBSET Fact :
       /\ Page(B)
       /\ told' = Append(told, B)
       /\ \/ B = Selected /\ cursor' = 0 /\ reading' = FALSE
          \/ /\ B # Selected
             /\ \E e \in Selected : NextSequence(B, e) /\ cursor' = outbox_id[e]
             /\ reading' = TRUE
  /\ UNCHANGED <<vars, stayed>>

StartOver ==
  /\ ~reading
  /\ cursor' = 0 /\ told' = <<>> /\ reading' = TRUE
  /\ stayed' = {e \in Fact : Stored(e)}
  /\ UNCHANGED vars

\* An outbox step, and what it leaves of the rows the reader started from.
OutboxStep ==
  /\ Next
  /\ stayed' = {e \in stayed : outbox_id'[e] # 0}
  /\ UNCHANGED <<cursor, told, reading>>

HistoryInit ==
  /\ Init
  /\ cursor = 0 /\ told = <<>> /\ stayed = {} /\ reading = FALSE

HistoryNext == ReadPage \/ StartOver \/ OutboxStep

HistorySpec == HistoryInit /\ [][HistoryNext]_historyVars

-----------------------------------------------------------------------------
\* Whatever is committed or purged between the pages of a read, no event is
\* answered twice, pages run from newer to older rows, and the last page
\* completes what was stored throughout.
AnsweredOnce == \A i, j \in DOMAIN told : i # j => told[i] \cap told[j] = {}
NewestFirst ==
  \A i, j \in DOMAIN told : i < j =>
    \A e \in told[i], f \in told[j] : Stored(e) /\ Stored(f) => Newer(e, f)
NothingSkipped == ~reading => \A e \in stayed : \E i \in DOMAIN told : e \in told[i]
WholeHistory == AnsweredOnce /\ NewestFirst /\ NothingSkipped
=============================================================================
