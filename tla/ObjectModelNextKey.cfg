CONSTANTS
  Byte = 4
  Indices = {0, 6}
  HashSizes = {3}
  KeySizes = {1}
  Strengths = {1}
  MaxHeuristics = 0
  SignatureSizes = {3}
  MaxSignatures = 1
  MaxParties = 2
SPECIFICATION Spec
INVARIANT AnnouncedKeyIsRead
CHECK_DEADLOCK FALSE
