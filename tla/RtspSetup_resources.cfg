SPECIFICATION Spec
CONSTANTS
  NChannels = 4
  Medias = {m1, m2}
  Nonces = {n1, n2}
  NoNonce = NoNonce
  NoMedia = NoMedia
  MaxNc = 2
  Wanted <- MCWanted
  SendResults = {"OK", "EAGAIN", "ERR"}
  MaxRequests = 4
SYMMETRY MCSymmetry
INVARIANTS
  TypeOK
  ChannelsNotShared
  OwnedIsUsed
  DigestsDiffer
PROPERTIES
  OnlyKnownLeaks
