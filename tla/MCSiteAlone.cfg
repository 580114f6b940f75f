SPECIFICATION Spec
CONSTANTS
  a = a
  b = b
  c = c
  x = x
  y = y
  index = index
  app = app
  Id = {a, b, c}
  Hash = {x, y}
  Path = {index, app}
  PathsOf <- Sizes
  None = None
  Proc = {p1}
  Requests <- Everything
  Overlap = {}
  AtomicWrites = TRUE
  MaxCommands = 5
  MaxDeaths = 2
PROPERTY PublishSettles
INVARIANT ServesWhole
CHECK_DEADLOCK FALSE
