------------------------------ MODULE Operations ------------------------------
(***************************************************************************)
(* What a caller of an operation under an id of its own may count on,       *)
(* however often it sends the request and whatever became of the answers:   *)
(* the operation is done at most once until its result is deleted, and      *)
(* every answer is about the request it was done for.                       *)
(***************************************************************************)
CONSTANTS Operation, Request, Nothing

VARIABLES
  done,         \* the request each operation was done for, or Nothing
  answered      \* the operation and request the last step answered, or Nothing

Init == done = [op \in Operation |-> Nothing] /\ answered = Nothing

Do(op, request) ==
  /\ done[op] = Nothing
  /\ done' = [done EXCEPT ![op] = request]
  /\ answered' = <<op, request>>

Repeat(op) ==
  /\ done[op] # Nothing
  /\ answered' = <<op, done[op]>>
  /\ UNCHANGED done

\* What operations made is deleted, or something else happens.
Forget(some) ==
  /\ done' = [op \in Operation |-> IF op \in some THEN Nothing ELSE done[op]]
  /\ answered' = Nothing

Next ==
  \/ \E op \in Operation : Repeat(op) \/ \E request \in Request : Do(op, request)
  \/ \E some \in SUBSET Operation : Forget(some)

Spec == Init /\ [][Next]_<<done, answered>>
=============================================================================
