SPECIFICATION Spec
CONSTANTS
  SessionIds = {s1}
  Medias = {m1}
  NoSession = NoSession
  NoMedia = NoMedia
  MaxFailedKeepAlive = 2
  MaxFailedRequests = 2
  SendResults = {"OK"}
  PublicMethods <- MCNoTeardown
  MaxLookups = 1
  MaxCseq = 5
INVARIANTS
  NoSpuriousCallback
  KeepAliveScheduled
  GivenUpIsTornDown
PROPERTIES
  KeepsPromise
