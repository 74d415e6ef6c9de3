SPECIFICATION FairSpec
CONSTANTS
  User = {u1, u2}
  Main = Main
  Worker = Worker
  Rts = Rts
  Nobody = Nobody
  Handler = {h1, h2}
  Logging = {h2}
  MaxRegister = 3
  MaxSignal = 2
  MaxClient = 2
INVARIANTS
  AllCalled
  WorkerHooksAfterSignal
  NoCircularWait
PROPERTY CallsReturn
CHECK_DEADLOCK FALSE
