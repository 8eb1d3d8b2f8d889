\* A password that could not be generated.
SPECIFICATION Spec
CONSTANTS
  c1 = c1
  c2 = c2
  v1 = v1
  v2 = v2
  username = username
  password = password
  Generator = Generator
  Absent = Absent
  Malformed = Malformed
  Password = Password
  Empty = Empty
  Components <- OneComponent
  Fields <- TwoFields
  Values <- TwoValues
  Specs <- AllSpecs
  MaxWrites = 7
  MaxGeneration = 3
  MaxFaults = 3
INVARIANTS NoEmptyPassword
CHECK_DEADLOCK FALSE
