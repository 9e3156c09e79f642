------------------------- MODULE AuditOutboxProofs -------------------------
(***************************************************************************)
(* Proofs about AuditOutbox, for any number of events and dispatcher loops,  *)
(* and about the reader of GovernanceHistory, for any size of page.          *)
(***************************************************************************)
EXTENDS GovernanceHistory, TLAPS

\* What a dispatcher carries between its transactions: a batch of committed
\* events, and acknowledgements the bus stands behind.
Carried ==
  /\ \A e \in Event : Stored(e) => e \in committed
  /\ \A d \in Dispatcher : worker[d].batch \subseteq committed /\ worker[d].acked \subseteq bus

IInv == TypeOK /\ OneRowPerKey /\ NothingLost /\ Carried

Worker == [at : Phase, batch : SUBSET Event, acked : SUBSET Event]

LEMMA IdleWorker == Idle \in Worker /\ Idle.batch = {} /\ Idle.acked = {}
BY DEF Idle, Worker, Phase

-----------------------------------------------------------------------------
(* Each action keeps IInv. *)

LEMMA CommitKeeps ==
  ASSUME IInv, NEW e \in Event, Commit(e)
  PROVE  IInv'
<1>1. PICK n \in 1..(Cardinality(Event) + 1) :
        NextKey(n) /\ outbox_id' = [outbox_id EXCEPT ![e] = n]
  BY DEF Commit
<1>2. n \in Nat /\ n # 0
  BY <1>1
<1>3. /\ outbox_id'[e] = n /\ outbox_id' \in [Event -> Nat]
      /\ \A f \in Event \ {e} : outbox_id'[f] = outbox_id[f]
  BY <1>1, <1>2 DEF IInv, TypeOK
<1>4. TypeOK'
  BY <1>2, <1>3 DEF IInv, TypeOK, Commit, Stored
<1>5. OneRowPerKey'
  <2>1. \A f \in Event : outbox_id[f] < n
    BY <1>1 DEF NextKey
  <2>2. \A f \in Event \ {e} : outbox_id'[f] # n
    BY <1>2, <1>3, <2>1 DEF IInv, TypeOK
  <2>3. QED
    BY <1>3, <2>2 DEF IInv, OneRowPerKey, Stored
<1>6. NothingLost'
  <2>1. published_at'[e] = "never"
    BY DEF IInv, TypeOK, Carried, Commit
  <2>2. QED
    BY <1>2, <1>3, <2>1 DEF IInv, TypeOK, Commit, NothingLost, Stored
<1>7. Carried'
  BY <1>3 DEF IInv, Commit, Carried, Stored
<1>8. QED
  BY <1>4, <1>5, <1>6, <1>7 DEF IInv

\* Steps that touch neither the rows nor the bus, and only move one dispatcher.
LEMMA WorkerKeeps ==
  ASSUME IInv, NEW d \in Dispatcher, NEW w \in Worker,
         w.batch \subseteq committed, w.acked \subseteq bus,
         worker' = [worker EXCEPT ![d] = w],
         UNCHANGED <<committed, outbox_id, published_at, due, bus>>, crashes' \in 0..MaxCrashes
  PROVE  IInv'
<1>1. TypeOK'
  BY DEF IInv, TypeOK, Worker, Stored
<1>2. OneRowPerKey' /\ NothingLost'
  BY DEF IInv, OneRowPerKey, NothingLost, Stored
<1>3. Carried'
  BY DEF IInv, TypeOK, Carried, Stored
<1>4. QED
  BY <1>1, <1>2, <1>3 DEF IInv

LEMMA CollectKeeps ==
  ASSUME IInv, NEW d \in Dispatcher, Collect(d)
  PROVE  IInv'
<1>1. PICK B \in SUBSET Event :
        /\ PendingBatch(B)
        /\ worker' = [worker EXCEPT ![d] = [at |-> "publishing", batch |-> B, acked |-> {}]]
  BY DEF Collect
<1>2. B \subseteq committed
  BY <1>1 DEF IInv, Carried, PendingBatch, FirstOf, Unpublished
<1>3. [at |-> "publishing", batch |-> B, acked |-> {}] \in Worker
  BY DEF Worker, Phase
<1>4. crashes' \in 0..MaxCrashes
  BY DEF IInv, TypeOK, Collect
<1>5. QED
  BY <1>1, <1>2, <1>3, <1>4, WorkerKeeps DEF Collect

\* The bus takes events of a committed batch, of which some may be acknowledged.
LEMMA BusKeeps ==
  ASSUME IInv, NEW d \in Dispatcher, NEW w \in Worker, NEW held \in SUBSET Event,
         held \subseteq worker[d].batch, w.batch = worker[d].batch,
         w.acked \subseteq bus \cup held,
         worker' = [worker EXCEPT ![d] = w], bus' = bus \cup held,
         UNCHANGED <<committed, outbox_id, published_at, due, crashes>>
  PROVE  IInv'
<1>1. held \subseteq committed
  BY DEF IInv, Carried
<1>2. TypeOK'
  BY <1>1 DEF IInv, TypeOK, Worker, Stored
<1>3. OneRowPerKey' /\ NothingLost'
  BY DEF IInv, OneRowPerKey, NothingLost, Stored
<1>4. Carried'
  BY DEF IInv, TypeOK, Carried, Stored
<1>5. QED
  BY <1>2, <1>3, <1>4 DEF IInv

LEMMA PublishKeeps ==
  ASSUME IInv, NEW d \in Dispatcher, NEW held \in SUBSET Deliverable, NEW acked \in SUBSET held,
         Publish(d, held, acked)
  PROVE  IInv'
<1> DEFINE w == [at |-> "marking", batch |-> worker[d].batch, acked |-> acked]
<1>1. worker[d] \in Worker
  BY DEF IInv, TypeOK, Worker
<1>2. w \in Worker /\ w.batch = worker[d].batch /\ w.acked = acked
  BY <1>1, DeliverableAssumption DEF Worker, Phase
<1>3. worker' = [worker EXCEPT ![d] = w]
  BY DEF Publish
<1> HIDE DEF w
<1>4. QED
  BY <1>2, <1>3, BusKeeps, DeliverableAssumption DEF Publish

LEMMA PublishRaisesKeeps ==
  ASSUME IInv, NEW d \in Dispatcher, NEW held \in SUBSET Deliverable, PublishRaises(d, held)
  PROVE  IInv'
<1> DEFINE w == [worker[d] EXCEPT !.at = "failing"]
<1>1. worker[d] \in Worker
  BY DEF IInv, TypeOK, Worker
<1>2. w \in Worker /\ w.batch = worker[d].batch /\ w.acked = worker[d].acked
  BY <1>1 DEF Worker, Phase
<1>3. worker' = [worker EXCEPT ![d] = w]
  BY DEF PublishRaises, IInv, TypeOK
<1>4. w.acked \subseteq bus \cup held
  BY <1>2 DEF IInv, Carried
<1> HIDE DEF w
<1>5. QED
  BY <1>2, <1>3, <1>4, BusKeeps, DeliverableAssumption DEF PublishRaises

LEMMA MarkPublishedKeeps ==
  ASSUME IInv, NEW d \in Dispatcher, MarkPublished(d)
  PROVE  IInv'
<1> DEFINE w == IF worker[d].acked = worker[d].batch THEN Idle
                ELSE [worker[d] EXCEPT !.at = "failing"]
<1>1. worker[d] \in Worker
  BY DEF IInv, TypeOK, Worker
<1>2. w \in Worker /\ w.batch \subseteq worker[d].batch /\ w.acked \subseteq worker[d].acked
  BY <1>1, IdleWorker DEF Worker, Phase
<1>3. worker' = [worker EXCEPT ![d] = w]
  BY DEF MarkPublished
<1> HIDE DEF w
<1>4. worker' \in [Dispatcher -> Worker]
  BY <1>2, <1>3 DEF IInv, TypeOK, Worker
<1>5. /\ published_at' \in [Event -> {"never", "recent", "expired"}]
      /\ \A e \in Event : published_at'[e] = IF e \in Marked(d) THEN "recent" ELSE published_at[e]
  BY DEF IInv, TypeOK, MarkPublished
<1>6. Marked(d) \subseteq bus /\ \A e \in Marked(d) : Stored(e)
  BY DEF IInv, Carried, Marked, Unpublished
<1>7. TypeOK'
  BY <1>4, <1>5, <1>6 DEF IInv, TypeOK, MarkPublished, Worker, Stored
<1>8. OneRowPerKey'
  BY DEF IInv, OneRowPerKey, MarkPublished, Stored
<1>9. NothingLost'
  BY <1>5, <1>6 DEF IInv, TypeOK, NothingLost, MarkPublished, Stored
<1>10. Carried'
  BY <1>2, <1>3 DEF IInv, TypeOK, Carried, MarkPublished, Stored
<1>11. QED
  BY <1>7, <1>8, <1>9, <1>10 DEF IInv

LEMMA MarkFailedKeeps ==
  ASSUME IInv, NEW d \in Dispatcher, MarkFailed(d)
  PROVE  IInv'
<1>1. TypeOK'
  BY IdleWorker DEF IInv, TypeOK, MarkFailed, Worker, Stored
<1>2. OneRowPerKey' /\ NothingLost'
  BY DEF IInv, OneRowPerKey, NothingLost, MarkFailed, Stored
<1>3. Carried'
  BY IdleWorker DEF IInv, TypeOK, Carried, MarkFailed, Stored
<1>4. QED
  BY <1>1, <1>2, <1>3 DEF IInv

LEMMA CrashKeeps ==
  ASSUME IInv, NEW d \in Dispatcher, Crash(d)
  PROVE  IInv'
<1>1. crashes' \in 0..MaxCrashes
  BY BatchAssumption DEF IInv, TypeOK, Crash
<1>2. QED
  BY <1>1, IdleWorker, WorkerKeeps DEF Crash

\* The clock moves due and published_at of rows that exist.
LEMMA ElapseKeeps ==
  ASSUME IInv, NEW e \in Event, Elapse(e)
  PROVE  IInv'
<1>1. TypeOK'
  BY DEF IInv, TypeOK, Elapse, Unpublished, Stored
<1>2. OneRowPerKey' /\ NothingLost' /\ Carried'
  BY DEF IInv, OneRowPerKey, NothingLost, Carried, Elapse, Stored
<1>3. QED
  BY <1>1, <1>2 DEF IInv

LEMMA AgeKeeps ==
  ASSUME IInv, Age
  PROVE  IInv'
<1>1. /\ published_at' \in [Event -> {"never", "recent", "expired"}]
      /\ \A e \in Event : published_at'[e] # "never" <=> published_at[e] # "never"
  BY DEF IInv, TypeOK, Age
<1>2. TypeOK'
  BY <1>1 DEF IInv, TypeOK, Age, Stored
<1>3. OneRowPerKey' /\ NothingLost' /\ Carried'
  BY <1>1 DEF IInv, TypeOK, OneRowPerKey, NothingLost, Carried, Age, Stored
<1>4. QED
  BY <1>2, <1>3 DEF IInv

\* A purge removes rows the bus already has.
LEMMA PurgeKeeps ==
  ASSUME IInv, NEW d \in Dispatcher, Purge(d)
  PROVE  IInv'
<1> DEFINE gone == {e \in Event : Expired(e)}
<1>1. /\ outbox_id' = [e \in Event |-> IF e \in gone THEN 0 ELSE outbox_id[e]]
      /\ published_at' = Unmarked(gone) /\ due' = due \ gone
      /\ UNCHANGED <<committed, worker, bus, crashes>>
  BY DEF Purge
<1>2. gone \subseteq Event /\ \A e \in gone : Stored(e) /\ published_at[e] = "expired"
  BY DEF Expired
<1> HIDE DEF gone
<1>3. TypeOK'
  BY <1>1, <1>2 DEF IInv, TypeOK, Unmarked, Stored
<1>4. OneRowPerKey'
  BY <1>1 DEF IInv, OneRowPerKey, Stored
<1>5. gone \cap committed \subseteq bus
  BY <1>2 DEF IInv, NothingLost
<1>6. NothingLost'
  BY <1>1, <1>5 DEF IInv, TypeOK, NothingLost, Unmarked, Stored
<1>7. Carried'
  BY <1>1 DEF IInv, Carried, Stored
<1>8. QED
  BY <1>3, <1>4, <1>6, <1>7 DEF IInv

LEMMA NextKeeps == IInv /\ [Next]_vars => IInv'
<1> SUFFICES ASSUME IInv, [Next]_vars PROVE IInv'
  OBVIOUS
<1>1. ASSUME NEW d \in Dispatcher, Step(d) PROVE IInv'
  BY <1>1, CollectKeeps, PublishKeeps, PublishRaisesKeeps, MarkPublishedKeeps, MarkFailedKeeps
     DEF Step
<1>2. CASE UNCHANGED vars
  BY <1>2 DEF vars, IInv, TypeOK, OneRowPerKey, NothingLost, Carried, Stored
<1>3. QED
  BY <1>1, <1>2, CommitKeeps, ElapseKeeps, CrashKeeps, PurgeKeeps, AgeKeeps DEF Next, Work

LEMMA InitIInv == Init => IInv
BY IdleWorker, BatchAssumption
   DEF Init, IInv, TypeOK, OneRowPerKey, NothingLost, Carried, Stored, Idle, Phase

LEMMA InductiveInvariant == Spec => []IInv
BY InitIInv, NextKeeps, PTL DEF Spec

-----------------------------------------------------------------------------
(* The theorems. *)

\* Every column of audit_outbox and every iteration of dispatch_once keeps to
\* its type, and only events of committed transactions reach the bus.
THEOREM TypeCorrect == Spec => []TypeOK
<1>1. IInv => TypeOK
  BY DEF IInv
<1>2. QED
  BY <1>1, InductiveInvariant, PTL

\* Whatever dispatch_once, its crashes and the purge interleave to, no event
\* leaves the outbox or is marked before the bus holds it, and keys stay unique.
THEOREM Safe == Spec => [](NothingLost /\ OneRowPerKey)
<1>1. IInv => NothingLost /\ OneRowPerKey
  BY DEF IInv
<1>2. QED
  BY <1>1, InductiveInvariant, PTL

\* mark_published never restarts the retention of a row, with any number of
\* loops draining one outbox.
THEOREM RetentionRunsOn == Spec => MarkedOnce
<1>1. ASSUME IInv, [Next]_vars
      PROVE  [MarkedOnceStep]_vars
  <2>1. ASSUME NEW d \in Dispatcher, MarkPublished(d)
        PROVE  MarkedOnceStep
    BY <2>1 DEF MarkPublished, Marked, Unpublished, MarkedOnceStep
  <2>2. ASSUME NEW d \in Dispatcher, Purge(d)
        PROVE  MarkedOnceStep
    BY <2>2 DEF Purge, Unmarked, MarkedOnceStep
  <2>3. CASE Age
    BY <2>3 DEF Age, MarkedOnceStep
  <2>4. CASE UNCHANGED published_at
    BY <2>4 DEF MarkedOnceStep
  <2>5. QED
    BY <1>1, <2>1, <2>2, <2>3, <2>4
       DEF Next, Work, Step, Commit, Elapse, Collect, Publish, PublishRaises, MarkFailed, Crash
<1>2. QED
  BY <1>1, InductiveInvariant, PTL DEF Spec, MarkedOnce

\* The outbox implements AuditDelivery: committing, delivering, settling and
\* forgetting are its only visible steps, in that order for every event.
THEOREM Implements == Spec => DeliverySpec
<1>1. Init => Delivery!Init
  BY DEF Init, Delivery!Init, Stored
<1>2. ASSUME IInv, [Next]_vars
      PROVE  [Delivery!Next]_(Delivery!vars)
  <2> DEFINE readable == {e \in Event : Stored(e)}
             settled == {e \in committed : published_at[e] # "never" \/ ~Stored(e)}
  <2>1. ASSUME NEW e \in Event, Commit(e)
        PROVE  Delivery!Commit(e)
    <3>1. PICK n \in 1..(Cardinality(Event) + 1) : outbox_id' = [outbox_id EXCEPT ![e] = n]
      BY <2>1 DEF Commit
    <3>2. readable' = readable \cup {e}
      BY <1>2, <3>1 DEF IInv, TypeOK, Stored
    <3>3. published_at[e] = "never" /\ published_at' = published_at
      BY <1>2, <2>1 DEF IInv, TypeOK, Carried, Commit
    <3>4. settled' = settled
      BY <1>2, <2>1, <3>1, <3>3 DEF IInv, TypeOK, Commit, Stored
    <3>5. QED
      BY <2>1, <3>2, <3>4 DEF Commit, Delivery!Commit
  <2>2. ASSUME NEW d \in Dispatcher, NEW held \in SUBSET Deliverable,
               held \subseteq worker[d].batch, bus' = bus \cup held,
               UNCHANGED <<committed, outbox_id, published_at>>
        PROVE  Delivery!Deliver(held)
    BY <1>2, <2>2 DEF IInv, Carried, Delivery!Deliver, Stored
  <2>3. ASSUME NEW d \in Dispatcher, MarkPublished(d), NEW S \in SUBSET Event, S = Marked(d)
        PROVE  Delivery!Settle(S)
    <3>1. S \subseteq bus /\ \A e \in S : e \in committed
      BY <1>2, <2>3 DEF IInv, TypeOK, Carried, Marked, Unpublished
    <3>2. settled' = settled \cup S
      BY <1>2, <2>3, <3>1 DEF IInv, TypeOK, MarkPublished, Stored
    <3>3. QED
      BY <2>3, <3>1, <3>2 DEF MarkPublished, Delivery!Settle, Stored
  <2>4. ASSUME NEW d \in Dispatcher, Purge(d)
        PROVE  Delivery!Forget({e \in Event : Expired(e)})
    <3> DEFINE gone == {e \in Event : Expired(e)}
    <3>1. \A e \in gone : e \in settled
      BY <1>2 DEF IInv, TypeOK, Carried, Expired
    <3>2. readable' = readable \ gone
      BY <2>4 DEF Purge, Stored
    <3>3. settled' = settled
      BY <1>2, <2>4, <3>1 DEF IInv, TypeOK, Purge, Unmarked, Stored
    <3>4. QED
      BY <2>4, <3>1, <3>2, <3>3 DEF Purge, Delivery!Forget
  <2>5. CASE Age
    <3>1. \A e \in Event : published_at'[e] # "never" <=> published_at[e] # "never"
      BY <1>2, <2>5 DEF IInv, TypeOK, Age
    <3>2. QED
      BY <1>2, <2>5, <3>1 DEF IInv, TypeOK, Age, Delivery!vars, Stored
  <2>6. CASE UNCHANGED <<committed, outbox_id, published_at, bus>>
    BY <2>6 DEF Delivery!vars, Stored
  <2>7. QED
    <3>1. ASSUME NEW d \in Dispatcher, Step(d) PROVE [Delivery!Next]_(Delivery!vars)
      <4>1. ASSUME NEW held \in SUBSET Deliverable, NEW acked \in SUBSET held,
                   Publish(d, held, acked)
            PROVE  Delivery!Deliver(held)
        BY <2>2, <4>1 DEF Publish
      <4>2. ASSUME NEW held \in SUBSET Deliverable, PublishRaises(d, held)
            PROVE  Delivery!Deliver(held)
        BY <2>2, <4>2 DEF PublishRaises
      <4>3. Marked(d) \in SUBSET Event
        BY DEF Marked, Unpublished
      <4>4. CASE Collect(d) \/ MarkFailed(d)
        BY <2>6, <4>4 DEF Collect, MarkFailed
      <4>5. ASSUME NEW S \in SUBSET Event, Delivery!Deliver(S) \/ Delivery!Settle(S)
            PROVE  Delivery!Next
        BY <4>5 DEF Delivery!Next
      <4>6. ASSUME NEW held \in SUBSET Deliverable, Delivery!Deliver(held)
            PROVE  Delivery!Next
        <5>1. held \in SUBSET Event
          BY DeliverableAssumption
        <5>2. QED
          BY <4>5, <4>6, <5>1
      <4>7. CASE MarkPublished(d)
        <5>1. PICK S \in SUBSET Event : S = Marked(d)
          BY <4>3
        <5>2. QED
          BY <2>3, <4>5, <4>7, <5>1
      <4>8. QED
        BY <3>1, <4>1, <4>2, <4>4, <4>6, <4>7 DEF Step
    <3>2. QED
      BY <1>2, <2>1, <2>4, <2>5, <2>6, <3>1
         DEF Next, Work, Elapse, Crash, Delivery!Next, vars
<1>3. QED
  BY <1>1, <1>2, InductiveInvariant, PTL DEF Spec, DeliverySpec, Delivery!Spec

-----------------------------------------------------------------------------
(* The reader of an Owner's history beside the outbox. *)

\* What the reader was told is older news than what it still has to read: a row
\* that was told and is still there is not below the cursor, one that was there
\* from the start was told or is below it.
ReaderType ==
  /\ cursor \in Nat /\ told \in Seq(SUBSET Fact) /\ stayed \subseteq Fact
  /\ reading \in BOOLEAN
ToldAbove ==
  \A i \in DOMAIN told : \A e \in told[i] :
    /\ e \in committed
    /\ reading /\ Stored(e) => cursor # 0 /\ outbox_id[e] >= cursor
ToldOrAhead ==
  \A e \in stayed :
    /\ Stored(e)
    /\ \/ \E i \in DOMAIN told : e \in told[i]
       \/ reading /\ (cursor = 0 \/ outbox_id[e] < cursor)

ReaderInv == ReaderType /\ ToldAbove /\ ToldOrAhead /\ AnsweredOnce /\ NewestFirst

\* The outbox never gives a committed event another key; it may lose its row.
KeysStay == \A e \in committed : outbox_id'[e] \in {outbox_id[e], 0}

LEMMA NextKeysStay ==
  ASSUME IInv, Next
  PROVE  KeysStay /\ committed \subseteq committed'
<1>1. ASSUME NEW e \in Event, Commit(e) PROVE KeysStay /\ committed \subseteq committed'
  BY <1>1 DEF IInv, TypeOK, Commit, KeysStay
<1>2. ASSUME NEW d \in Dispatcher, Purge(d) PROVE KeysStay /\ committed \subseteq committed'
  BY <1>2 DEF IInv, TypeOK, Purge, KeysStay
<1>3. CASE UNCHANGED <<committed, outbox_id>>
  BY <1>3 DEF KeysStay
<1>4. ASSUME NEW d \in Dispatcher, Step(d) PROVE UNCHANGED <<committed, outbox_id>>
  BY <1>4 DEF Step, Collect, Publish, PublishRaises, MarkPublished, MarkFailed
<1>5. QED
  BY <1>1, <1>2, <1>3, <1>4 DEF Next, Work, Crash, Age, Elapse

LEMMA OutboxStepKeeps ==
  ASSUME IInv, ReaderInv, OutboxStep
  PROVE  ReaderInv'
<1>1. KeysStay /\ committed \subseteq committed'
  BY NextKeysStay DEF OutboxStep
<1>2. UNCHANGED <<cursor, told, reading>> /\ stayed' = {e \in stayed : outbox_id'[e] # 0}
  BY DEF OutboxStep
<1>3. ASSUME NEW e \in committed
      PROVE  Stored(e)' => Stored(e) /\ outbox_id'[e] = outbox_id[e]
  BY <1>1, <1>3 DEF KeysStay, Stored
<1>4. ReaderType'
  BY <1>2 DEF ReaderInv, ReaderType
<1>5. ToldAbove'
  BY <1>1, <1>2, <1>3 DEF ReaderInv, ToldAbove
<1>6. ToldOrAhead'
  <2>1. ASSUME NEW e \in stayed' PROVE e \in stayed /\ e \in committed /\ Stored(e)'
    <3>1. e \in stayed /\ outbox_id'[e] # 0
      BY <1>2, <2>1
    <3>2. e \in Event /\ Stored(e)
      BY <3>1, HistoryAssumption DEF ReaderInv, ReaderType, ToldOrAhead
    <3>3. QED
      BY <3>1, <3>2 DEF IInv, Carried, Stored
  <2>2. QED
    BY <1>2, <1>3, <2>1 DEF ReaderInv, ToldOrAhead
<1>7. AnsweredOnce'
  BY <1>2 DEF ReaderInv, AnsweredOnce
<1>8. NewestFirst'
  BY <1>2, <1>3 DEF ReaderInv, ToldAbove, NewestFirst, Newer
<1>9. QED
  BY <1>4, <1>5, <1>6, <1>7, <1>8 DEF ReaderInv

\* The rows of a page are below the cursor, and so are new to the reader.
LEMMA SelectedIsAhead ==
  ASSUME IInv, ReaderInv, reading, NEW e \in Selected
  PROVE  /\ e \in Fact /\ e \in Event /\ Stored(e) /\ outbox_id[e] \in Nat /\ e \in committed
         /\ \A i \in DOMAIN told : e \notin told[i]
         /\ \A i \in DOMAIN told : \A f \in told[i] : Stored(f) => Newer(f, e)
<1>1. /\ e \in Event /\ Stored(e) /\ outbox_id[e] \in Nat /\ e \in committed /\ e \in Fact
      /\ cursor = 0 \/ outbox_id[e] < cursor
  BY HistoryAssumption DEF Selected, IInv, TypeOK, Carried
<1>2. cursor \in Nat /\ \A i \in DOMAIN told : told[i] \subseteq Fact
  BY DEF ReaderInv, ReaderType
<1>3. ASSUME NEW i \in DOMAIN told, NEW f \in told[i], Stored(f)
      PROVE  outbox_id[f] > outbox_id[e]
  <2>1. cursor # 0 /\ outbox_id[f] >= cursor
    BY <1>3 DEF ReaderInv, ToldAbove
  <2>2. outbox_id[f] \in Nat
    BY <1>2, <1>3, HistoryAssumption DEF IInv, TypeOK
  <2>3. QED
    BY <1>1, <1>2, <2>1, <2>2
<1>4. QED
  BY <1>1, <1>3 DEF Newer

LEMMA ReadPageKeeps ==
  ASSUME IInv, ReaderInv, ReadPage
  PROVE  ReaderInv'
<1>1. PICK B \in SUBSET Fact :
        /\ Page(B) /\ told' = Append(told, B)
        /\ \/ B = Selected /\ cursor' = 0 /\ reading' = FALSE
           \/ /\ B # Selected
              /\ \E e \in Selected : NextSequence(B, e) /\ cursor' = outbox_id[e]
              /\ reading' = TRUE
  BY DEF ReadPage
<1>2. reading /\ UNCHANGED <<committed, outbox_id, stayed>>
  BY DEF ReadPage, vars
<1>3. B \subseteq Selected
  BY <1>1 DEF Page
<1> DEFINE n == Len(told)
<1>4. /\ told \in Seq(SUBSET Fact) /\ n \in Nat /\ DOMAIN told = 1..n /\ DOMAIN told' = 1..(n + 1)
      /\ told'[n + 1] = B /\ \A i \in 1..n : told'[i] = told[i]
  BY <1>1 DEF ReaderInv, ReaderType
<1>5. \A e \in Selected : outbox_id[e] \in Nat /\ outbox_id[e] # 0
  BY <1>2, SelectedIsAhead DEF Stored
<1>6. ReaderType'
  <2>1. cursor' \in Nat
    BY <1>1, <1>5
  <2>2. reading' \in BOOLEAN
    BY <1>1
  <2>3. told' \in Seq(SUBSET Fact)
    BY <1>1, <1>4
  <2>4. QED
    BY <1>2, <2>1, <2>2, <2>3 DEF ReaderInv, ReaderType
<1> HIDE DEF n
<1>7. ASSUME reading'
      PROVE  /\ cursor' # 0
             /\ \A b \in B : outbox_id[b] >= cursor'
             /\ \A x \in Selected \ B : outbox_id[x] < cursor'
  <2>1. PICK e \in Selected : NextSequence(B, e) /\ cursor' = outbox_id[e]
    BY <1>1, <1>7
  <2>2. e \in B /\ \A b \in B : ~Newer(e, b)
    BY <2>1 DEF NextSequence
  <2>3. \A x \in Selected \ B : Newer(e, x)
    BY <1>1, <2>2 DEF Page
  <2>4. QED
    BY <1>3, <1>5, <2>1, <2>2, <2>3 DEF Newer
<1>8. ToldAbove'
  <2>1. ASSUME NEW i \in 1..n, NEW e \in told[i]
        PROVE  e \in committed /\ (reading' /\ Stored(e) => cursor' # 0 /\ outbox_id[e] >= cursor')
    <3>1. e \in committed /\ e \in Event
      BY <1>4, <2>1, HistoryAssumption DEF ReaderInv, ToldAbove, ReaderType
    <3>2. ASSUME reading', Stored(e) PROVE cursor' # 0 /\ outbox_id[e] >= cursor'
      <4>1. PICK s \in Selected : cursor' = outbox_id[s]
        BY <1>1, <3>2
      <4>2. Newer(e, s)
        BY <1>2, <1>4, <2>1, <3>2, <4>1, SelectedIsAhead
      <4>3. outbox_id[e] \in Nat
        BY <3>1 DEF IInv, TypeOK
      <4>4. QED
        BY <1>5, <4>1, <4>2, <4>3 DEF Newer
    <3>3. QED
      BY <3>1, <3>2
  <2>2. ASSUME NEW e \in B
        PROVE  e \in committed /\ (reading' => cursor' # 0 /\ outbox_id[e] >= cursor')
    BY <1>2, <1>3, <1>7, <2>2, SelectedIsAhead
  <2>3. ASSUME NEW i \in 1..(n + 1), NEW e \in told'[i]
        PROVE  e \in committed /\ (reading' /\ Stored(e) => cursor' # 0 /\ outbox_id[e] >= cursor')
    <3>1. CASE i = n + 1
      BY <1>4, <2>2, <2>3, <3>1
    <3>2. CASE i # n + 1
      BY <1>4, <2>1, <2>3, <3>2
    <3>3. QED
      BY <3>1, <3>2
  <2>4. QED
    BY <1>2, <1>4, <2>3 DEF ToldAbove, Stored
<1>9. ToldOrAhead'
  <2>1. ASSUME NEW e \in stayed
        PROVE  \/ \E i \in 1..(n + 1) : e \in told'[i]
               \/ reading' /\ outbox_id[e] < cursor'
    <3>1. CASE \E i \in 1..n : e \in told[i]
      BY <1>4, <3>1
    <3>2. CASE e \in B
      BY <1>4, <3>2
    <3>3. CASE e \in Selected \ B
      BY <1>1, <1>7, <3>3
    <3>4. e \in Selected \/ \E i \in 1..n : e \in told[i]
      BY <1>2, <1>4, <2>1 DEF ReaderInv, ReaderType, ToldOrAhead, Selected
    <3>5. QED
      BY <3>1, <3>2, <3>3, <3>4
  <2>2. \A e \in stayed : Stored(e)
    BY DEF ReaderInv, ToldOrAhead
  <2>3. QED
    BY <1>2, <1>4, <2>1, <2>2 DEF ToldOrAhead, Stored
<1>10. AnsweredOnce'
  <2>1. \A i \in 1..n : told[i] \cap B = {}
    BY <1>2, <1>3, <1>4, SelectedIsAhead
  <2>2. ASSUME NEW i \in 1..(n + 1), NEW j \in 1..(n + 1), i # j
        PROVE  told'[i] \cap told'[j] = {}
    <3>1. CASE i \in 1..n /\ j \in 1..n
      BY <1>4, <2>2, <3>1 DEF ReaderInv, AnsweredOnce
    <3>2. CASE i = n + 1 /\ j \in 1..n
      BY <1>4, <2>1, <3>2
    <3>3. CASE i \in 1..n /\ j = n + 1
      BY <1>4, <2>1, <3>3
    <3>4. QED
      BY <1>4, <2>2, <3>1, <3>2, <3>3
  <2>3. QED
    BY <1>4, <2>2 DEF AnsweredOnce
<1>11. NewestFirst'
  <2>1. ASSUME NEW i \in 1..(n + 1), NEW j \in 1..(n + 1), i < j,
               NEW e \in told'[i], NEW f \in told'[j], Stored(e), Stored(f)
        PROVE  Newer(e, f)
    <3>1. i \in 1..n /\ e \in told[i]
      BY <1>4, <2>1
    <3>2. CASE j \in 1..n
      BY <1>4, <2>1, <3>1, <3>2 DEF ReaderInv, NewestFirst
    <3>3. CASE j = n + 1
      <4>1. f \in Selected
        BY <1>3, <1>4, <2>1, <3>3
      <4>2. QED
        BY <1>2, <1>4, <2>1, <3>1, <4>1, SelectedIsAhead
    <3>4. QED
      BY <1>4, <3>2, <3>3
  <2>2. QED
    BY <1>2, <1>4, <2>1 DEF NewestFirst, Newer, Stored
<1>12. QED
  BY <1>6, <1>8, <1>9, <1>10, <1>11 DEF ReaderInv

LEMMA StartOverKeeps ==
  ASSUME IInv, ReaderInv, StartOver
  PROVE  ReaderInv'
<1>1. told' = <<>> /\ DOMAIN told' = {} /\ cursor' = 0 /\ reading' = TRUE
  BY DEF StartOver
<1>2. stayed' = {e \in Fact : Stored(e)} /\ UNCHANGED outbox_id
  BY DEF StartOver, vars
<1>3. ReaderType'
  BY <1>1, <1>2 DEF ReaderType
<1>4. ToldAbove' /\ AnsweredOnce' /\ NewestFirst'
  BY <1>1 DEF ToldAbove, AnsweredOnce, NewestFirst
<1>5. ToldOrAhead'
  BY <1>1, <1>2 DEF ToldOrAhead, Stored
<1>6. QED
  BY <1>3, <1>4, <1>5 DEF ReaderInv

\* The reader changes nothing of the outbox.
LEMMA ReaderOnlyReads == HistorySpec => Spec
<1>1. HistoryInit => Init
  BY DEF HistoryInit
<1>2. [HistoryNext]_historyVars => [Next]_vars
  BY DEF HistoryNext, ReadPage, StartOver, OutboxStep, historyVars
<1>3. QED
  BY <1>1, <1>2, PTL DEF HistorySpec, Spec

LEMMA ReaderInvariant == HistorySpec => []ReaderInv
<1>1. HistoryInit => ReaderInv
  <2> SUFFICES ASSUME HistoryInit PROVE ReaderInv
    OBVIOUS
  <2>1. cursor = 0 /\ told = <<>> /\ DOMAIN told = {} /\ stayed = {} /\ reading = FALSE
    BY DEF HistoryInit
  <2>2. told \in Seq(SUBSET Fact)
    BY <2>1
  <2>3. ReaderType
    BY <2>1, <2>2 DEF ReaderType
  <2>4. ToldAbove /\ ToldOrAhead /\ AnsweredOnce /\ NewestFirst
    BY <2>1 DEF ToldAbove, ToldOrAhead, AnsweredOnce, NewestFirst
  <2>5. QED
    BY <2>3, <2>4 DEF ReaderInv
<1>2. IInv /\ ReaderInv /\ [HistoryNext]_historyVars => ReaderInv'
  <2> SUFFICES ASSUME IInv, ReaderInv, [HistoryNext]_historyVars PROVE ReaderInv'
    OBVIOUS
  <2>1. CASE UNCHANGED historyVars
    BY <2>1 DEF historyVars, vars, reader, ReaderInv, ReaderType, ToldAbove, ToldOrAhead,
                AnsweredOnce, NewestFirst, Newer, Stored
  <2>2. QED
    BY <2>1, ReadPageKeeps, StartOverKeeps, OutboxStepKeeps DEF HistoryNext
<1>3. QED
  BY <1>1, <1>2, ReaderOnlyReads, InductiveInvariant, PTL DEF HistorySpec

\* Whatever is committed, published or purged between two pages of
\* list_for_owner, its cursors repeat no event, go back in time, and skip
\* nothing that was stored throughout.
THEOREM HistoryIsWhole == HistorySpec => []WholeHistory
<1>1. ReaderInv => WholeHistory
  BY DEF ReaderInv, ReaderType, ToldOrAhead, WholeHistory, NothingSkipped
<1>2. QED
  BY <1>1, ReaderInvariant, PTL
=============================================================================
