SPECIFICATION FairSpec
CONSTANTS
  Client = {1, 2, 3}
  NoFd = NoFd
  MaxBytes = 3
  MaxBlock = 2
  SndBuf = 1
  PipeCap = 2
  DrainChunk = 1
  FdLimit = 2
INVARIANTS
  InOrder
  HeaderFirst
  NoLostWakeup
  EarlyEventsKept
  HookPerAttach
  HookOrder
PROPERTIES
  ImplementsConnection
  ClientsAccepted
  ClientServed
  BufferDrained
  HangUpNoticed
  WaitReturns
CHECK_DEADLOCK FALSE
