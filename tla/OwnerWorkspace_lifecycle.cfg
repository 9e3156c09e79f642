SPECIFICATION Spec
CONSTANTS
  Owner = {o1}
  Companion = {c1, c2, c3}
  Realm = {r1, r2}
  Binding = {b1, b2}
  Device = {d1}
  Kind = {"conversational", "guard"}
  Name = {n1}
  None = None
  MaxRevision = 3
SYMMETRY Symmetry
INVARIANT DefaultAnswers
INVARIANT SharedRealm
PROPERTY KeepsDefault
PROPERTY FactsTellTheTruth
PROPERTY ChangesAreTold
