SPECIFICATION FairSpec
CONSTANTS
  PathMax = 3
  PathLen = {2, 3}
  MaxWrites = 1
  MaxStarts = 2
INVARIANTS
  FileRemoved
  RestartBinds
  MutexLostOnlyAtExit
 
CHECK_DEADLOCK FALSE
