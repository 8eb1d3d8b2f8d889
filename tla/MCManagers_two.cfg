\* Two managers, deployed in six ways, two leases, two Components.
SPECIFICATION FairSpec
CONSTANTS
  Managers = {m1, m2}
  Namespaces = {n1, n2}
  m1 = m1
  m2 = m2
  n1 = n1
  n2 = n2
  team = team
  NoPrefix = NoPrefix
  Nobody = Nobody
  c1 = c1
  c2 = c2
  Prefixes <- TwoPrefixes
  Deployments <- SomeDeployments
  Components <- SomeComponents
  Provider <- SomeProviders
  RenewDeadline = 1
  LeaseDuration = 2
  MaxGeneration = 2
  MaxFaults = 2
INVARIANTS Inv OneHandler
PROPERTIES CallsHandlers ServesComponents
CHECK_DEADLOCK FALSE
