\* Two Components naming one policy, every interleaving of their calls.
SPECIFICATION Spec
CONSTANTS
  c1 = c1
  c2 = c2
  d1 = d1
  d2 = d2
  bad = bad
  NoDoc = NoDoc
  Components <- TwoComponents
  Docs <- GoodDocs
  ValidDocs <- GoodDocs
  OnFirstPage = TRUE
  MaxNumberOfPolicyVersions = 2
  MaxVersionId = 8
  MaxGeneration = 2
  MaxFaults = 0
INVARIANTS Inv SettledOnSomeonesSpec RoomForNewVersion
PROPERTIES KeepsPromise DeletionsDoNotCollide
SYMMETRY Symmetry2
CHECK_DEADLOCK FALSE
