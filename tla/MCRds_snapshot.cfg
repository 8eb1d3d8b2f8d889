\* Created, then deleted without a word about snapshots.
SPECIFICATION QuietFreshSpec
CONSTANTS
  small = small
  large = large
  Classes <- TwoClasses
  Specs <- DefaultSnapshots
  MaxGeneration = 1
  MaxFaults = 0
  MaxEvents = 0
INVARIANTS DeleteRequestIsValid
CHECK_DEADLOCK FALSE
