SPECIFICATION Spec
CONSTANTS
  Genome = {g1, g2, g3, g4}
  Traits = {x1, x2}
  Name = {n1, n2}
  Preferences = {p1, p2}
  Operation = {u1, u2}
  None = None
  MaxVersion = 4
SYMMETRY Symmetry
INVARIANT OneLine
INVARIANT NameAgrees
INVARIANT OriginIsFirst
PROPERTY BookSpec
INVARIANT PreferencesNotLost
PROPERTY SettingsMoveRevision
