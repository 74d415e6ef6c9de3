SPECIFICATION FairSpec
CONSTANTS
  Conn = {c1, c2}
  NoConn = NoConn
  Fd = {4, 5}
  MaxMessages = 2
  MaxChunk = 2
  MaxStops = 1
INVARIANTS
  MixedOnlyByReuse
  ReceivedHandled
PROPERTIES
  CommandsHandled
CHECK_DEADLOCK FALSE
