CONSTANTS
  v1 = v1
  v2 = v2
  tA = tA
  tB = tB
  tC = tC
  fld = fld
  None = None
  Video = {v1}
  Title = {tA, tB, tC}
  TitleOf <- OwnTitles
  Folder = {fld}
  FolderOf <- FirstInFolder
  MaxAttempts = 3
  Options <- Cleaning
  Listings <- AllListed
  HealthSteps <- Sticks
  Concurrency = 2
  LateLanding = FALSE
  Summaries = FALSE
  ForeignTitles = {tA}
  MaxVideos = 3
  MaxRuns = 3
  MaxEpoch = 1
  MaxForeign = 1
  MaxCrashes = 1
SPECIFICATION Spec
CHECK_DEADLOCK FALSE
INVARIANT CompletedIsFinished
PROPERTIES SkipsImported RejectedLeftAlone 
