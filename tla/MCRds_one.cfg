\* The instance through edits, failures, events and deletion.
SPECIFICATION FairSpec
CONSTANTS
  small = small
  large = large
  Classes <- TwoClasses
  Specs <- AllSpecs
  MaxGeneration = 2
  MaxFaults = 1
  MaxEvents = 1
INVARIANTS Inv ReadyMeansDelivered NoInstanceLeftBehind
PROPERTIES ChecksAgree RefusesOnlyAsAsked RequestsAreAnswered LossIsReported EffectFollows
CHECK_DEADLOCK FALSE
