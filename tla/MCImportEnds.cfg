CONSTANTS
  v1 = v1
  v2 = v2
  tA = tA
  tB = tB
  tC = tC
  fld = fld
  None = None
  Video = {v1}
  Title = {tA, tB, tC}
  TitleOf <- OwnTitles
  Folder = {fld}
  FolderOf <- FirstInFolder
  MaxAttempts = 3
  Options <- Waiting
  Listings <- AllListed
  HealthSteps <- Sticks
  Concurrency = 2
  LateLanding = TRUE
  Summaries = TRUE
  ForeignTitles = {tA}
  MaxVideos = 2
  MaxRuns = 2
  MaxEpoch = 1
  MaxForeign = 0
  MaxCrashes = 1
SPECIFICATION FairSpec
CHECK_DEADLOCK FALSE
PROPERTY RunEnds
