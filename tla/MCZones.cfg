SPECIFICATION ProvisionSpec
CONSTANTS
  Proc = {a, b}
  Zone = {other, old, new1, new2}
  PullZone = {po, pl, p1, p2}
  new1 = new1
  new2 = new2
  po = po
  pl = pl
  p1 = p1
  p2 = p2
  None = None
  Foreign = other
  OldPull = po
  Legacy = old
  LegacyPull = pl
  LegacyName = legacy
  Names = {n, m}
  AtomicWrites = TRUE
  MaxCommands = 4
  MaxFaults = 2
SYMMETRY Alike
CHECK_DEADLOCK FALSE
INVARIANT SitesGuarded
INVARIANT RouterDetached
INVARIANT OneEach
PROPERTY WayBack
 
