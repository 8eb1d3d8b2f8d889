\* One Component through edits, interruptions, refusals and deletion.
SPECIFICATION FairSpec
CONSTANTS
  c1 = c1
  c2 = c2
  d1 = d1
  d2 = d2
  bad = bad
  NoDoc = NoDoc
  Components <- OneComponent
  Docs <- AllDocs
  ValidDocs <- GoodDocs
  OnFirstPage = TRUE
  MaxNumberOfPolicyVersions = 3
  MaxVersionId = 9
  MaxGeneration = 3
  MaxFaults = 2
INVARIANTS Inv ReadyMeansApplied NoPolicyLeftBehind
PROPERTIES PrunesOnlyTheOldest RequestsAreAnswered KeepsPromiseFairly PolicyIsAccountedFor
CHECK_DEADLOCK FALSE
