SPECIFICATION Spec
CONSTANTS
  Conns = {c1, c2}
  SessionIds = {s1, s2}
  Medias = {p1, p2}
  NoConn = NoConn
  NoSession = NoSession
  MaxAccepts = 3
  MaxRequests = 3
SYMMETRY MCSymmetry
INVARIANTS
  TypeOK
  ResponsesToRequester
  NoContradiction
  IdleIsLive
PROPERTIES
  OnlyOverlapUnmarks
  OnlyOverlapDrops
