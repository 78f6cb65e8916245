\* A subclass that sends keep-alive requests.
CONSTANTS
  j1 = j1
  s1 = s1
  NoJob = NoJob
  BadJob = BadJob
  NoId = NoId
  Jobs <- MCJobs
  RpcIds <- MCRpcIds
  Messages <- FewLines
  MaxLines = 1
  MaxLogins = 1
  MaxPings = 2
SPECIFICATION FairSpec
INVARIANTS WriteExclusive OrphanedOnlyByFailure NeverIdle ReconnectGuard
  NoEarlyReconnect
PROPERTIES QueueDrains
CHECK_DEADLOCK FALSE
