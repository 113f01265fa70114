SPECIFICATION Spec
CONSTANTS
  client = client
  server = server
  serverName = serverName
  Services <- TwoServices
  ServiceNames <- TheName
  IdOf <- TheIds
  Handles <- TheServer
  Programs <- ThePrograms
  Cos = {1, 2, 3, 4, 5, 6}
  MaxOps = 4
CHECK_DEADLOCK FALSE
INVARIANT AnswersMatchCalls
INVARIANT QueuesServed
PROPERTY CallsEnd
