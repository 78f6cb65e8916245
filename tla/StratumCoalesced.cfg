\* A pool whose lines are all valid, in any segmentation.
CONSTANTS
  j1 = j1
  s1 = s1
  NoJob = NoJob
  BadJob = BadJob
  NoId = NoId
  Jobs <- MCJobs
  RpcIds <- MCRpcIds
  Messages <- GoodLines
  MaxLines = 2
  MaxLogins = 1
  MaxPings = 0
SPECIFICATION FairSpec
INVARIANTS NoUncaughtException
CHECK_DEADLOCK FALSE
