SPECIFICATION FairSpec
CONSTANTS
  Thread = {t1, t2}
  Control = Control
  Nobody = Nobody
  Name <- MCName
  Id = {1, 2}
  BuiltinName <- MCBuiltinName
  BuiltinIds <- MCBuiltinIds
  MaxCalls = 2
  MaxMessages = 1
INVARIANTS
  NamesUnambiguous
  OwnNamespace
  HandledRegistered
PROPERTIES
  StablePointers
  CallsReturn
CHECK_DEADLOCK FALSE
