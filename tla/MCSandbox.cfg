SPECIFICATION SandboxFair
CONSTANTS
  Lane = {k1, k2}
  Conn = {c1, c2, c3}
  None = None
  Rejected = Rejected
  Var = {v}
  Initial = {}
  Token = AGENT_TOKEN
  Label = {web}
  MaxCalls = 3
  MaxFaults = 1
CHECK_DEADLOCK FALSE
INVARIANTS NothingStale NoOrphanCommand Retrievable
PROPERTY CallsEnd
