SPECIFICATION Spec
CONSTANTS
  p1 = p1
  p2 = p2
  t1 = t1
  t2 = t2
  Person = {p1, p2}
  None = None
  Capacity = 1
  Policy <- MCPolicy
  MaxRevision <- MCMaxRevision
  Enrollment = {n1, n2}
  Profile = {v1, v2}
  Turn = {t1, t2}
  DerivedPerson <- MCDerivedPerson
  Required = 1
  MinTurns = 2
  MaxVoice = 2
SYMMETRY Symmetry
INVARIANT PoolBounded
INVARIANT MemoryFollowsPerson
INVARIANT OneVoice
INVARIANT EvidenceHasVoice
INVARIANT RevisionsMadeOnce
PROPERTY DeletionIsFinal
PROPERTY ClosedStaysClosed
PROPERTY RevisionNamesPerson
PROPERTY PromotedByPresentVoice
