CONSTANTS
  v1 = v1
  v2 = v2
  tA = tA
  tB = tB
  tC = tC
  fld = fld
  None = None
  Video = {v1, v2}
  Title = {tA, tB, tC}
  TitleOf <- OwnTitles
  Folder = {fld}
  FolderOf <- FirstInFolder
  MaxAttempts = 3
  Options <- FreshAndResume
  Listings <- AllListed
  HealthSteps <- Succeeds
  Concurrency = 2
  LateLanding = FALSE
  Summaries = FALSE
  ForeignTitles = {tC}
  MaxVideos = 3
  MaxRuns = 3
  MaxEpoch = 2
  MaxForeign = 0
  MaxCrashes = 2
SPECIFICATION Spec
CHECK_DEADLOCK FALSE
INVARIANTS NoDuplicate Recoverable WriteAhead
