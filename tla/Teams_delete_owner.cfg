SPECIFICATION Spec
CONSTANTS
  Team = {t1}
  Session = {s1}
  Host = {h1}
  Companion = {c1}
  Generation = {g1}
  None = None
  MaxRevision = 1
INVARIANT OwnerCanBeDeleted
