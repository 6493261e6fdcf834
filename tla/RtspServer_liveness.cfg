SPECIFICATION FairSpec
CONSTANTS
  Conns = {c1}
  SessionIds = {s1}
  Medias = {p1, p2}
  NoConn = NoConn
  NoSession = NoSession
  MaxAccepts = 2
  MaxRequests = 3
PROPERTIES
  RequestsEnd
