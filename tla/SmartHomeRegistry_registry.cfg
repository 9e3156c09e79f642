SPECIFICATION Spec
CONSTANTS
  a1 = a1
  d1 = d1
  Area = {a1, a2}
  Device = {d1}
  Scene = {s1}
  Ref = {p1}
  Label <- MCLabel
  Type <- MCType
  Trait <- MCTrait
  Supports <- MCSupports
  Sample <- MCSample
  Host = {h1, h2}
  None = None
  MaxRevision = 4
INVARIANT HeldIsPresent
PROPERTY RevisionNamesHome
PROPERTY EmptiedStaysEmpty
