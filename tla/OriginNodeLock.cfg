CONSTANTS
  Calls = {c1, c2}
  Keys = {k0}
  None = None
  GenesisKey = k0
  Serial = FALSE
  MaxCrashes = 1
  MaxMisreads = 1
SPECIFICATION Spec
INVARIANT OneSessionAtATime
CHECK_DEADLOCK FALSE
