\* A policy and a role that may have it attached.
SPECIFICATION FairSpec
CONSTANTS
  d1 = d1
  d2 = d2
  t1 = t1
  NoDoc = NoDoc
  NoTrust = NoTrust
  PolicyComponent = cp
  Docs <- TwoDocs
  ValidDocs <- TwoDocs
  Trusts <- OneTrust
  ValidTrusts <- OneTrust
  Policies <- TwoPolicies
  Managed = 1
  MaxNumberOfPolicyVersions = 2
  MaxVersionId = 3
  MaxPolicyGeneration = 1
  MaxRoleGeneration = 2
  MaxFaults = 0
  MaxOutside = 0
INVARIANTS StackInPlace RoleDeletionSucceeds
PROPERTIES PolicyFollowsRole RoleFollowsPolicy
CHECK_DEADLOCK FALSE
