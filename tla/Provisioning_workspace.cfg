SPECIFICATION ProvisioningSpec
CONSTANTS
  op1 = op1
  o1 = o1
  c1 = c1
  c2 = c2
  r1 = r1
  r2 = r2
  Owner = {o1, o2}
  Companion = {c1, c2, c3}
  Realm = {r1, r2, r3, r4}
  Binding = {}
  Device = {}
  Kind = {"conversational"}
  Name = {n1}
  None = None
  MaxRevision = 3
  Operation = {op1}
  Request = {f1, f2}
  Ids <- MCIds
PROPERTY RevisionMoves
PROPERTY DoneOnce
PROPERTY RetryIsAnswered
