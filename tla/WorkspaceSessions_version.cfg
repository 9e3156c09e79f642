SPECIFICATION Spec
CONSTANTS
  Name = {n1, n2}
  None = None
  MaxRevision = 4
CHECK_DEADLOCK FALSE
INVARIANT VersionNamesIdentity
