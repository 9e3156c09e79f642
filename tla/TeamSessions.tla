---------------------------- MODULE TeamSessions ----------------------------
(***************************************************************************)
(* What saved teams promise their editors, the coordinator and the media    *)
(* Provider: a team's history only grows; one session at a time performs a   *)
(* team, from the revision that was the latest when it opened; everybody who *)
(* asks what a session performs is told the same; it performs only while it  *)
(* is open; and a removed team is never performed or edited again.           *)
(***************************************************************************)
EXTENDS Naturals

CONSTANTS
  Team, Session,
  Revision,     \* numbers of saved revisions
  Config,       \* what a revision saves
  NoConfig,     \* nothing saved
  Selection,    \* what a session performs: a configuration, resolved
  None          \* no team

VARIABLES
  history,      \* team -> revision -> what was saved
  removed,      \* teams that were removed
  performs,     \* session -> the team it was opened for, or None
  revision,     \* session -> the revision it was opened at
  closed,       \* sessions that were closed
  told,         \* session -> the selections it was said to perform
  media         \* session -> "idle", "running" or "ended"

vars == <<history, removed, performs, revision, closed, told, media>>

Latest(t, r) == \A q \in Revision : history[t][q] # NoConfig <=> q <= r
Open(s) == performs[s] # None /\ s \notin closed
Busy(t) == \E s \in Session : performs[s] = t /\ Open(s)

Init ==
  /\ history = [t \in Team |-> [r \in Revision |-> NoConfig]]
  /\ removed = {} /\ closed = {}
  /\ performs = [s \in Session |-> None] /\ revision = [s \in Session |-> 0]
  /\ told = [s \in Session |-> {}] /\ media = [s \in Session |-> "idle"]

Save(t, r, config) ==
  /\ t \notin removed
  /\ Latest(t, r - 1)
  /\ history' = [history EXCEPT ![t][r] = config]
  /\ UNCHANGED <<removed, performs, revision, closed, told, media>>

Remove(t) ==
  /\ ~Busy(t)
  /\ removed' = removed \cup {t}
  /\ UNCHANGED <<history, performs, revision, closed, told, media>>

Start(s, t, r) ==
  /\ performs[s] = None
  /\ t \notin removed /\ ~Busy(t) /\ Latest(t, r)
  /\ performs' = [performs EXCEPT ![s] = t] /\ revision' = [revision EXCEPT ![s] = r]
  /\ UNCHANGED <<history, removed, closed, told, media>>

\* The first answer is given while the session is open, and is the only one.
Tell(s, x) ==
  /\ performs[s] # None
  /\ x.config = history[performs[s]][revision[s]]
  /\ IF told[s] = {} THEN Open(s) ELSE told[s] = {x}
  /\ told' = [told EXCEPT ![s] = {x}]
  /\ UNCHANGED <<history, removed, performs, revision, closed, media>>

Perform(s) ==
  /\ Open(s) /\ told[s] # {} /\ media[s] = "idle"
  /\ media' = [media EXCEPT ![s] = "running"]
  /\ UNCHANGED <<history, removed, performs, revision, closed, told>>

End(s) ==
  /\ media[s] = "running"
  /\ media' = [media EXCEPT ![s] = "ended"]
  /\ UNCHANGED <<history, removed, performs, revision, closed, told>>

Close(s) ==
  /\ Open(s) /\ media[s] = "ended"
  /\ closed' = closed \cup {s}
  /\ UNCHANGED <<history, removed, performs, revision, told, media>>

Next ==
  \/ \E t \in Team, r \in Revision, config \in Config : Save(t, r, config)
  \/ \E t \in Team : Remove(t)
  \/ \E s \in Session, t \in Team, r \in Revision : Start(s, t, r)
  \/ \E s \in Session, x \in Selection : Tell(s, x)
  \/ \E s \in Session : Perform(s) \/ End(s) \/ Close(s)

Spec == Init /\ [][Next]_vars
=============================================================================
