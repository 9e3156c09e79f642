---------------------------- MODULE AuditOutbox ----------------------------
(***************************************************************************)
(* The audit outbox (eidolon_data/audit/): governance facts are rows of the *)
(* transaction that caused them, dispatchers drain them to a bus, and rows  *)
(* that were published are purged when their retention ends.  A dispatcher  *)
(* reads a batch, publishes it and marks the outcome in separate            *)
(* transactions; it may end between any two of them.                       *)
(*                                                                         *)
(* Clock times are abstracted to what they decide: whether a row's          *)
(* next_attempt_at has come, and whether its published_at is before the     *)
(* retention horizon.  The retry delay (bounded by retry_max) is a delay.   *)
(***************************************************************************)
EXTENDS Naturals, FiniteSets

CONSTANTS
  Event,        \* events a domain transaction may commit
  Deliverable,  \* those the transport accepts; it never acknowledges another
  Dispatcher,   \* running dispatcher loops
  BatchSize,    \* AuditOutboxDispatcher batch_size
  MaxCrashes    \* bound on interrupted iterations

ASSUME DeliverableAssumption == Deliverable \subseteq Event
ASSUME BatchAssumption == BatchSize \in Nat \ {0} /\ MaxCrashes \in Nat

VARIABLES
  committed,    \* events whose domain transaction committed
  outbox_id,    \* event -> its row's primary key, 0 when there is no row
  published_at, \* event -> "never", "recent", or "expired" (before the horizon)
  due,          \* events whose next_attempt_at has come
  worker,       \* dispatcher -> its iteration
  bus,          \* events the transport holds; it drops a repeated event_id
  crashes       \* interrupted iterations

rows == <<outbox_id, published_at, due>>
vars == <<committed, outbox_id, published_at, due, worker, bus, crashes>>

Phase == {"idle", "publishing", "marking", "failing"}
Idle == [at |-> "idle", batch |-> {}, acked |-> {}]

Stored(e) == outbox_id[e] # 0
Unpublished == {e \in Event : Stored(e) /\ published_at[e] = "never"}

-----------------------------------------------------------------------------
(* A domain transaction commits its fact. *)

\* SQLite gives a row the key above the largest present: keys of purged rows
\* may come back.
NextKey(n) ==
  /\ \A e \in Event : outbox_id[e] < n
  /\ n = 1 \/ \E e \in Event : outbox_id[e] = n - 1

Commit(e) ==
  /\ e \notin committed
  /\ committed' = committed \cup {e}
  /\ \E n \in 1..(Cardinality(Event) + 1) :
       /\ NextKey(n)
       /\ outbox_id' = [outbox_id EXCEPT ![e] = n]
  /\ due' = due \cup {e}
  /\ UNCHANGED <<published_at, worker, bus, crashes>>

-----------------------------------------------------------------------------
(* AuditOutboxDispatcher.dispatch_once. *)

\* B are the first rows of S in key order, as many as the batch holds.
FirstOf(B, S) ==
  /\ B \subseteq S
  /\ \A b \in B, x \in S \ B : outbox_id[b] < outbox_id[x]
  /\ B = S \/ Cardinality(B) = BatchSize
  /\ Cardinality(B) <= BatchSize

\* Faulty: the limit applies before the rows that must wait are left out.
BatchBehindWaiting(B) == \E C \in SUBSET Unpublished : FirstOf(C, Unpublished) /\ B = C \cap due
PendingBatch(B) == FirstOf(B, Unpublished \cap due)

Collect(d) ==
  /\ worker[d] = Idle
  /\ \E B \in SUBSET Event :
       /\ PendingBatch(B) /\ B # {}
       /\ worker' = [worker EXCEPT ![d] = [at |-> "publishing", batch |-> B, acked |-> {}]]
  /\ UNCHANGED <<committed, outbox_id, published_at, due, bus, crashes>>

\* The transport may hold more than it acknowledges.
Publish(d, held, acked) ==
  /\ worker[d].at = "publishing"
  /\ held \subseteq worker[d].batch \cap Deliverable
  /\ acked \subseteq held
  /\ bus' = bus \cup held
  /\ worker' = [worker EXCEPT ![d] = [at |-> "marking", batch |-> @.batch, acked |-> acked]]
  /\ UNCHANGED <<committed, outbox_id, published_at, due, crashes>>

PublishRaises(d, held) ==
  /\ worker[d].at = "publishing"
  /\ held \subseteq worker[d].batch \cap Deliverable
  /\ bus' = bus \cup held
  /\ worker' = [worker EXCEPT ![d].at = "failing"]
  /\ UNCHANGED <<committed, outbox_id, published_at, due, crashes>>

\* Faulty: the whole batch is marked.
MarkedBatch(d) == worker[d].batch \cap Unpublished
\* Faulty: rows already published are marked again.
MarkedAgain(d) == {e \in worker[d].acked : Stored(e)}
Marked(d) == worker[d].acked \cap Unpublished

MarkPublished(d) ==
  /\ worker[d].at = "marking"
  /\ published_at' = [e \in Event |-> IF e \in Marked(d) THEN "recent" ELSE published_at[e]]
  /\ worker' = [worker EXCEPT ![d] =
       IF worker[d].acked = worker[d].batch THEN Idle ELSE [worker[d] EXCEPT !.at = "failing"]]
  /\ UNCHANGED <<committed, outbox_id, due, bus, crashes>>

\* What was not acknowledged waits for its next attempt.
MarkFailed(d) ==
  /\ worker[d].at = "failing"
  /\ due' = due \ ((worker[d].batch \ worker[d].acked) \cap Unpublished)
  /\ worker' = [worker EXCEPT ![d] = Idle]
  /\ UNCHANGED <<committed, outbox_id, published_at, bus, crashes>>

\* The process ends or is restarted, or a database error ends the iteration.
Crash(d) ==
  /\ worker[d] # Idle
  /\ crashes < MaxCrashes
  /\ crashes' = crashes + 1
  /\ worker' = [worker EXCEPT ![d] = Idle]
  /\ UNCHANGED <<committed, outbox_id, published_at, due, bus>>

-----------------------------------------------------------------------------
(* The clock, and run_audit_dispatcher's purge. *)

Elapse(e) ==
  /\ e \in Unpublished \ due
  /\ due' = due \cup {e}
  /\ UNCHANGED <<committed, outbox_id, published_at, worker, bus, crashes>>

\* What has been published so far falls behind the retention horizon.
Age ==
  /\ \E e \in Event : published_at[e] = "recent"
  /\ published_at' = [e \in Event |->
       IF published_at[e] = "recent" THEN "expired" ELSE published_at[e]]
  /\ UNCHANGED <<committed, outbox_id, due, worker, bus, crashes>>

\* Faulty: a row's age is enough.
Old(e) == Stored(e) /\ published_at[e] # "recent"
Expired(e) == Stored(e) /\ published_at[e] = "expired"

Unmarked(S) == [e \in Event |-> IF e \in S THEN "never" ELSE published_at[e]]

Purge(d) ==
  /\ worker[d] = Idle
  /\ LET gone == {e \in Event : Expired(e)}
     IN  /\ gone # {}
         /\ outbox_id' = [e \in Event |-> IF e \in gone THEN 0 ELSE outbox_id[e]]
         /\ published_at' = Unmarked(gone)
         /\ due' = due \ gone
  /\ UNCHANGED <<committed, worker, bus, crashes>>

-----------------------------------------------------------------------------
Init ==
  /\ committed = {}
  /\ outbox_id = [e \in Event |-> 0]
  /\ published_at = [e \in Event |-> "never"]
  /\ due = {}
  /\ worker = [d \in Dispatcher |-> Idle]
  /\ bus = {}
  /\ crashes = 0

Step(d) ==
  \/ Collect(d)
  \/ \E held \in SUBSET Deliverable : \E acked \in SUBSET held : Publish(d, held, acked)
  \/ \E held \in SUBSET Deliverable : PublishRaises(d, held)
  \/ MarkPublished(d) \/ MarkFailed(d)

Work ==
  \/ \E e \in Event : Commit(e)
  \/ \E d \in Dispatcher : Step(d) \/ Crash(d) \/ Purge(d)
  \/ Age

Next == Work \/ \E e \in Event : Elapse(e)

Spec == Init /\ [][Next]_vars

\* The transport acknowledges e to d.
Acknowledges(d, e) ==
  \E held \in SUBSET Deliverable : \E acked \in SUBSET held : e \in acked /\ Publish(d, held, acked)

\* A retry delay, which doubles up to a minute, outlasts the queries that drain
\* the rows already due.
PacedElapse(e) == PendingBatch({}) /\ Elapse(e)
PacedNext == Work \/ \E e \in Event : PacedElapse(e)

\* The loop runs forever and delays end; a transport that is asked again and
\* again for an event it accepts acknowledges it some time.
Fairness ==
  /\ \A d \in Dispatcher : WF_vars(Step(d))
  /\ \A e \in Event : SF_vars(PacedElapse(e))
  /\ \A d \in Dispatcher, e \in Deliverable : SF_vars(Acknowledges(d, e))

FairSpec == Init /\ [][PacedNext]_vars /\ Fairness

-----------------------------------------------------------------------------
(* Properties. *)

\* Columns hold what the schema allows, and an event without a row has no mark.
TypeOK ==
  /\ committed \subseteq Event
  /\ outbox_id \in [Event -> Nat]
  /\ published_at \in [Event -> {"never", "recent", "expired"}]
  /\ \A e \in Event : published_at[e] # "never" => Stored(e)
  /\ due \subseteq {e \in Event : Stored(e)}
  /\ worker \in [Dispatcher -> [at : Phase, batch : SUBSET Event, acked : SUBSET Event]]
  /\ bus \subseteq committed
  /\ crashes \in 0..MaxCrashes

\* Rows never share a key, however many keys purges have freed: an id names one
\* event, which list_for_owner and the cursor of its callers rest on.
OneRowPerKey ==
  \A e, f \in Event : Stored(e) /\ outbox_id[e] = outbox_id[f] => e = f

\* A crash, a partial acknowledgement or a purge costs delay and never history:
\* an event no longer stored, or marked published, is on the bus.
NothingLost ==
  \A e \in committed : published_at[e] # "never" \/ ~Stored(e) => e \in bus

\* A second loop over the same outbox is harmless: a row whose retention runs
\* is never marked again, so its history does not start over.
MarkedOnceStep ==
  \A e \in Event : published_at[e] = "expired" => published_at'[e] # "recent"
MarkedOnce == [][MarkedOnceStep]_vars

\* The outbox implements at-least-once delivery with history kept until then.
Delivery == INSTANCE AuditDelivery WITH
  readable  <- {e \in Event : Stored(e)},
  delivered <- bus,
  settled   <- {e \in committed : published_at[e] # "never" \/ ~Stored(e)}
DeliverySpec == Delivery!Spec

\* An event the transport accepts is delivered and settled in the end, whatever
\* other events it keeps refusing and wherever an iteration was interrupted.
Settles ==
  \A e \in Deliverable :
    e \in committed ~> e \in bus /\ (published_at[e] # "never" \/ ~Stored(e))
=============================================================================
