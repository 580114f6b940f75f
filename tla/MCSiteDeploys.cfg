SPECIFICATION Spec
CONSTANTS
  a = a
  b = b
  c = c
  x = x
  y = y
  index = index
  app = app
  Id = {a, b, c}
  Hash = {x, y}
  Path = {index, app}
  PathsOf <- Sizes
  None = None
  Proc = {p1, p2}
  Requests <- Everything
  Overlap <- Beside
  AtomicWrites = TRUE
  MaxCommands = 4
  MaxDeaths = 1
SYMMETRY Processes
INVARIANT RecordsVouch
 
INVARIANT PointersRecorded
 
CHECK_DEADLOCK FALSE
