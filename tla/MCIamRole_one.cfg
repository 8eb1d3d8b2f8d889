\* Reconciling up to three attachments, interrupted, refused and disturbed.
SPECIFICATION FairSpec
CONSTANTS
  t1 = t1
  t2 = t2
  NoTrust = NoTrust
  Trusts <- TwoTrusts
  ValidTrusts <- TwoTrusts
  Policies <- ThreePolicies
  MaxGeneration = 2
  MaxFaults = 1
  MaxOutside = 1
INVARIANTS Inv ReadyMeansInPlace StatusReflectsReality NoRoleLeftBehind
PROPERTIES RequestsAreAnswered KeepsPromise
CHECK_DEADLOCK FALSE
