SPECIFICATION FairSpec
CONSTANTS
  one = one
  two = two
  bad = bad
  p1 = p1
  p2 = p2
  Proc = {p1, p2}
  Name = {1, 2}
  Body = {one, bad}
  Statements <- Lengths
  None = None
  MaxRuns = 2
  MaxEdits = 2
INVARIANTS HistoryIsPrefix SuccessIsApplied
PROPERTIES LandsWhole ApplyEnds
CHECK_DEADLOCK FALSE
