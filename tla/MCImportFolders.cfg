CONSTANTS
  v1 = v1
  v2 = v2
  tA = tA
  tB = tB
  tC = tC
  fld = fld
  None = None
  Video = {v1, v2}
  Title = {tA, tB, tC}
  TitleOf <- OwnTitles
  Folder = {fld}
  FolderOf <- FirstInFolder
  MaxAttempts = 3
  Options <- FolderRuns
  Listings <- Shrinking
  HealthSteps <- Vanishes
  Concurrency = 2
  LateLanding = FALSE
  Summaries = FALSE
  ForeignTitles = {tC}
  MaxVideos = 3
  MaxRuns = 3
  MaxEpoch = 1
  MaxForeign = 0
  MaxCrashes = 0
SPECIFICATION Spec
CHECK_DEADLOCK FALSE
 
PROPERTY ScopeRespected
