\* The class as it is: one login(), no keep-alive.
CONSTANTS
  j1 = j1
  s1 = s1
  NoJob = NoJob
  BadJob = BadJob
  NoId = NoId
  Jobs <- MCJobs
  RpcIds <- MCRpcIds
  Messages <- AllLines
  MaxLines = 2
  MaxLogins = 1
  MaxPings = 0
SPECIFICATION FairSpec
INVARIANTS TypeOK SingleChain
PROPERTIES Recovers ImplementsSession
CHECK_DEADLOCK FALSE
