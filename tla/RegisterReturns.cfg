SPECIFICATION FairSpec
CONSTANTS
  Thread = {t1}
  Control = Control
  Nobody = Nobody
  Name <- MCName
  Id = {1, 2}
  BuiltinName <- MCBuiltinName
  BuiltinIds <- MCBuiltinIds
  MaxCalls = 4
  MaxMessages = 1
PROPERTY RegisterReturns
CHECK_DEADLOCK FALSE
