SPECIFICATION MCSpec
CONSTANTS
  Person = {p1}
  PhotoKey = {k1, k2, k3}
  None = None
  Companion = {c1, c2}
  Picture = {x1, x2}
  Clip = {v1}
  Setter = {q1, q2}
  NoKey = NoKey
  MaxVersion = 2
  Pose = {front, left, right, up}
  RequiredPoses = {front, left, right}
  MinReferences = 3
  MaxReferences = 4
  MaxRevisions = 4
SYMMETRY Symmetry
INVARIANT PhotoIsThere
INVARIANT FaceIsThere
INVARIANT ImagesAccountedFor
INVARIANT DesiredIsComplete
INVARIANT ClearingStands
