SPECIFICATION FairSpec
CONSTANTS
  User = {u1}
  Main = Main
  Worker = Worker
  Rts = Rts
  Nobody = Nobody
  Handler = {h1}
  Logging = {h1}
  MaxRegister = 1
  MaxSignal = 1
  MaxClient = 1
PROPERTY SignalReturns
CHECK_DEADLOCK FALSE
