\* A creation whose response was lost.
SPECIFICATION QuietFreshSpec
CONSTANTS
  small = small
  large = large
  Classes <- TwoClasses
  Specs <- AllSpecs
  MaxGeneration = 2
  MaxFaults = 1
  MaxEvents = 0
INVARIANTS RepeatedApplySucceeds
CHECK_DEADLOCK FALSE
