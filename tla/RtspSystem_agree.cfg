SPECIFICATION FairSpec
CONSTANTS
  SessionIds = {s1}
  Medias = {p1, p2}
  NoSession = NoSession
  NoMedia = NoMedia
  Conns = {c1}
  NoConn = NoConn
  MaxFailedKeepAlive = 2
  MaxFailedRequests = 2
  Forced = {"all"}
  MaxCseq = 4
  MaxAccepts = 2
INVARIANTS
  TypeOK
  ClientHasWhatServerHas
  ResponseIsToRequest
PROPERTIES
  OwedEnds
  DeadSessionDropped
