SPECIFICATION Spec
CONSTANTS
  SessionIds = {s1, s2}
  Medias = {m1}
  NoSession = NoSession
  NoMedia = NoMedia
  MaxFailedKeepAlive = 2
  MaxFailedRequests = 2
  SendResults = {"OK", "EAGAIN", "ERR", "EAUTH"}
  PublicMethods <- MCPublicMethods
  MaxLookups = 1
  MaxCseq = 4
SYMMETRY MCSymmetry
INVARIANTS
  TypeOK
  PendingOnlyConnected
  DisconnectedIsClean
  TimerHasRequest
  AnswersMatch
PROPERTIES
  OnlyKnownLost
