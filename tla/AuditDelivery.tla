--------------------------- MODULE AuditDelivery ---------------------------
(***************************************************************************)
(* What the audit outbox promises its Owners and the global audit index:    *)
(* a committed event reaches the bus at least once before it is settled,    *)
(* and stays readable here until then.                                     *)
(***************************************************************************)
CONSTANTS
  Event,        \* events a domain transaction may commit
  Deliverable   \* those the transport accepts

VARIABLES
  committed,    \* events whose transaction committed
  readable,     \* events the outbox still answers to its Owner
  delivered,    \* events the bus holds
  settled       \* events this authority will not send again

vars == <<committed, readable, delivered, settled>>

Init ==
  /\ committed = {} /\ readable = {} /\ delivered = {} /\ settled = {}

Commit(e) ==
  /\ e \notin committed
  /\ committed' = committed \cup {e}
  /\ readable' = readable \cup {e}
  /\ UNCHANGED <<delivered, settled>>

Deliver(S) ==
  /\ S \subseteq committed
  /\ delivered' = delivered \cup S
  /\ UNCHANGED <<committed, readable, settled>>

Settle(S) ==
  /\ S \subseteq delivered
  /\ settled' = settled \cup S
  /\ UNCHANGED <<committed, readable, delivered>>

Forget(S) ==
  /\ S \subseteq settled
  /\ readable' = readable \ S
  /\ UNCHANGED <<committed, delivered, settled>>

Next ==
  \/ \E e \in Event : Commit(e)
  \/ \E S \in SUBSET Event : Deliver(S) \/ Settle(S) \/ Forget(S)

Spec == Init /\ [][Next]_vars
=============================================================================
