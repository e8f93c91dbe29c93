CONSTANTS
  Calls = {c1, c2, c3}
  Keys = {k0, k1}
  None = None
  GenesisKey = k0
  Serial = TRUE
  MaxCrashes = 2
  MaxMisreads = 1
SYMMETRY CallSymmetry
SPECIFICATION Spec
INVARIANTS
  TypeOK
  BlocksAreLinked
  OneStoredBlockPerIndex
  StoredBlocksAreOnDisk
  DiskIsCurrent
  EveryKeyWasAnnounced
CHECK_DEADLOCK FALSE
