SPECIFICATION Spec
CONSTANTS
  Team = {t1, t2}
  Session = {s1, s2, s3}
  Host = {h1, h2}
  Companion = {c1}
  Generation = {g1, g2}
  None = None
  MaxRevision = 3
SYMMETRY Symmetry
INVARIANT RunsReserved
INVARIANT OneSnapshot
INVARIANT OneOpenStart
PROPERTY SessionsSpec
