CONSTANTS
  Client = Client
  Server = Server
  Party = {Client, Server}
  c1 = c1
  c2 = c2
  s1 = s1
  s2 = s2
  Key = {c1, s1}
  KeysOf <- MCOneKey
  ServerChoices <- MCChoices
  Verified = {c1}
  MaxSigners = 1
SPECIFICATION Spec
INVARIANT SignaturesIndexedByParty
CHECK_DEADLOCK FALSE
