SPECIFICATION Spec
CONSTANTS
  SessionIds = {s1}
  Medias = {m1}
  NoSession = NoSession
  NoMedia = NoMedia
  MaxFailedKeepAlive = 3
  MaxFailedRequests = 5
  SendResults = {"OK"}
  PublicMethods = {}
  MaxLookups = 1
  MaxCseq = 5
PROPERTY BusyWhilePending
