SPECIFICATION AppsSpec
CONSTANTS
  web = web
  job = job
  Container = {web, job}
  Position <- Listed
  Proc = {p, q}
  App = {a1, a2}
  Built = {b1, b2}
  Pinned = {nginx}
  NoImage = NoImage
  None = None
  MaxCommands = 3
  MaxFaults = 1
CHECK_DEADLOCK FALSE
INVARIANTS RunsPushed OneApp
SYMMETRY Alike
