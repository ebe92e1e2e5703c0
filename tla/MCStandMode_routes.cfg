SPECIFICATION StandSpec
CONSTANTS
  Algos = {"round-robin", "consistence-hash", "unknown"}
  h1 = h1  h2 = h2  slow = slow  q1 = q1  q2 = q2
  NoHost = NoHost  NoProc = NoProc  INF = INF  ZeroSpeed = ZeroSpeed
  NoFile = NoFile  Truncated = Truncated
  Hosts = {h1, h2}
  Procs = {q1, q2}
  Rates = {INF, ZeroSpeed, slow}
  Segments = {"a", "b"}
  MaxInfos = 2
  MaxKeys = 2
  Positions <- MCPositions
  hash <- MCHash
  Requests <- RestartRequests
SYMMETRY Symmetry
INVARIANTS StandTypeOK RoutesAgree RatesRecorded
CHECK_DEADLOCK FALSE
