\* One policy replaced by another.
SPECIFICATION Spec
CONSTANTS
  t1 = t1
  t2 = t2
  NoTrust = NoTrust
  Trusts <- TwoTrusts
  ValidTrusts <- TwoTrusts
  Policies <- ThreePolicies
  MaxGeneration = 1
  MaxFaults = 0
  MaxOutside = 0
INVARIANTS AttachesFirst
CHECK_DEADLOCK FALSE
