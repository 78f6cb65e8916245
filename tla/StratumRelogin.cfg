\* A user who calls login() again, whatever the client is doing.
CONSTANTS
  j1 = j1
  s1 = s1
  NoJob = NoJob
  BadJob = BadJob
  NoId = NoId
  Jobs <- MCJobs
  RpcIds <- MCRpcIds
  Messages <- FewLines
  MaxLines = 1
  MaxLogins = 2
  MaxPings = 0
SPECIFICATION FairSpec
PROPERTIES QueueDrains
CHECK_DEADLOCK FALSE
