SPECIFICATION FairSpec
CONSTANTS
  ByteMod = 4
  ChunkSize = 4
  Magic <- MagicBytes
  Version = 0
  Namespaces <- Registered
  Stream <- Streams
INVARIANTS
  TypeOK
  CommandsAsSent
  HandledFromMessage
PROPERTY AllConsumed
CHECK_DEADLOCK FALSE
