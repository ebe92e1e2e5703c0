SPECIFICATION FairSpec
CONSTANTS
  Algos = {"round-robin", "consistence-hash", "unknown"}
  h1 = h1  h2 = h2  slow = slow  q1 = q1  q2 = q2
  NoHost = NoHost  NoProc = NoProc  INF = INF  ZeroSpeed = ZeroSpeed
  Hosts = {h1, h2}
  Procs = {q1, q2}
  Rates = {INF, ZeroSpeed, slow}
  Segments = {"a", "b"}
  MaxInfos = 5
  MaxKeys = 2
  Positions <- MCPositions
  hash <- MCHash
  Requests <- ProxiedRequests
INVARIANTS NoDuplicateHosts RecordsBounded
PROPERTIES RequestsEnd
CHECK_DEADLOCK FALSE
