\* A failed write of the login, then a new connection.
CONSTANTS
  j1 = j1
  s1 = s1
  NoJob = NoJob
  BadJob = BadJob
  NoId = NoId
  Jobs <- MCJobs
  RpcIds <- MCRpcIds
  Messages <- GoodLines
  MaxLines = 2
  MaxLogins = 1
  MaxPings = 0
SPECIFICATION FairSpec
PROPERTIES LoginIsSent
CHECK_DEADLOCK FALSE
