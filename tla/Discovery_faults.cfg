SPECIFICATION FairSpec
CONSTANTS
  ServiceNames = {s1, s2}
  Hosts = {h1}
  NoEvent = NoEvent
  Faults = {"removal", "error"}
  MaxChanges = 5
INVARIANTS TypeOK ContextThere HostsFound
PROPERTY ComesToRest
CHECK_DEADLOCK FALSE
