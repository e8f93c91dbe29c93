CONSTANTS
  Byte = 16
  Party = {1, 2, 3}
  MaxSamples = 3
SPECIFICATION Spec
INVARIANTS
  TypeOK
  BytesFollowItems
  OriginsAreRead
CHECK_DEADLOCK FALSE
