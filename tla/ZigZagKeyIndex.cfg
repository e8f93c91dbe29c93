CONSTANTS
  Client = Client
  Server = Server
  Party = {Client, Server}
  c1 = c1
  c2 = c2
  s1 = s1
  s2 = s2
  Key = {c1, c2, s1, s2}
  KeysOf <- MCKeysOf
  ServerChoices <- MCChoices
  Verified = {c1, s2}
  MaxSigners = 2
SPECIFICATION Spec
INVARIANT SignaturesIndexedByKey
CHECK_DEADLOCK FALSE
