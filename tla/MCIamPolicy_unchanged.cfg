\* Re-applying an unchanged document.
SPECIFICATION Spec
CONSTANTS
  c1 = c1
  c2 = c2
  d1 = d1
  d2 = d2
  bad = bad
  NoDoc = NoDoc
  Components <- OneComponent
  Docs <- AllDocs
  ValidDocs <- GoodDocs
  OnFirstPage = TRUE
  MaxNumberOfPolicyVersions = 3
  MaxVersionId = 9
  MaxGeneration = 3
  MaxFaults = 2
PROPERTIES UnchangedMakesNoVersion
CHECK_DEADLOCK FALSE
