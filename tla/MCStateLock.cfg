CONSTANTS
  Proc = {1, 2, 3}
  Inode = {1, 2, 3, 4}
  Dead = {3}
  EmptyReads = FALSE
  Reentrant = FALSE
  MaxCrashes = 1
  MaxCalls = 4
SPECIFICATION FairSpec
CHECK_DEADLOCK FALSE
 
PROPERTIES ReleaseKeepsOthers DeadLockReclaimed
