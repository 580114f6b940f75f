SPECIFICATION HostnamesFair
CONSTANTS
  Proc = {a, b}
  Host = {shop}
  Wildcard = {}
  RecordId = {1, 2, 3}
  None = None
  OpportunisticEvery = 1
  Deadline = 2
  SslAttempts = 2
  MaxCommands = 2
  MaxFaults = 1
CHECK_DEADLOCK FALSE
INVARIANTS PointedRoutesHere 
PROPERTIES NeverUnrouted ForcedHasCert AddRecordsDomain HostnamesEnd
