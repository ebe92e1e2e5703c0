SPECIFICATION FairSpec
CONSTANTS
  n1 = n1  n2 = n2  h1 = h1  h2 = h2  x1 = x1
  NoHost = NoHost  NoEntry = NoEntry  NoImage = NoImage
  Nodes = {n1, n2}
  Seed = n1
  LeaderAddress <- MCLeaderAddress
  Hosts = {h1, h2}
  Ports = {1, 2}
  UrlPrefixes = {"a"}
  Networks = {x1}
  Algos = {"round-robin", "consistence-hash", "unknown"}
  MaxLog = 3
  MaxSnaps <- MCMaxSnaps
  MaxKills <- MCMaxKills
  Traffic <- MCTraffic
  Positions <- MCPositions
  hash <- MCHash
  Config <- MCConfig
  Commands <- MCCommands
INVARIANTS TypeOK ReplicasAgree PanicCauses StuckForEver
PROPERTY CatchesUp
CHECK_DEADLOCK FALSE
