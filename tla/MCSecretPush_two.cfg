\* Two Components naming one secret.
SPECIFICATION Spec
CONSTANTS
  c1 = c1
  c2 = c2
  v1 = v1
  v2 = v2
  username = username
  password = password
  Generator = Generator
  Absent = Absent
  Malformed = Malformed
  Password = Password
  Empty = Empty
  Components <- TwoComponents
  Fields <- TwoFields
  Values <- TwoValues
  Specs <- AllSpecs
  MaxWrites = 6
  MaxGeneration = 2
  MaxFaults = 1
INVARIANTS Inv ReadyMeansWritten NoSecretLeftBehind SecretIsAccountedFor
PROPERTIES PasswordsStay OthersSecretsStay
SYMMETRY Symmetry
CHECK_DEADLOCK FALSE
