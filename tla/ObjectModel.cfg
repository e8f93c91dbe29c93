CONSTANTS
  Byte = 4
  Indices = {0, 6}
  HashSizes = {3}
  KeySizes = {1}
  Strengths = {1}
  MaxHeuristics = 2
  SignatureSizes = {0, 3}
  MaxSignatures = 2
  MaxParties = 2
SPECIFICATION Spec
INVARIANTS
  TypeOK
  ReadsBack
  GrownIsBuilt
  SignedAreTheFetters
  OriginIsRead
  ReadableAsWritten
CHECK_DEADLOCK FALSE
