SPECIFICATION Spec
CONSTANTS
  Conns = {c1}
  SessionIds = {s1}
  Medias = {p1, p2}
  NoConn = NoConn
  NoSession = NoSession
  MaxAccepts = 1
  MaxRequests = 4
SYMMETRY MCSymmetry
PROPERTY LookupMissIsSafe
