SPECIFICATION FairSpec
CONSTANTS
  Starts = {1, 2, 3, 4}
  NoStart = NoStart
  HasHttpServer = TRUE
  HasRpcServer = TRUE
INVARIANTS TypeOK RpcOnlyOnLeader OneServer
PROPERTIES DeposedStopsWriting ChangesRead
CHECK_DEADLOCK FALSE
