CONSTANTS
  Calls = {c1, c2}
  OldBlocks = {b1, b2, b3}
  Listeners = {l1}
  MaxBridged = 2
SYMMETRY Symmetry
SPECIFICATION Spec
INVARIANTS
  TypeOK
  HeardIsStored
  StoredUnderOwnHash
  BridgedBlocksAreKept
CHECK_DEADLOCK FALSE
