SPECIFICATION Spec
CONSTANTS
  ByteMod = 4
  ChunkSize = 4
  Magic <- MagicBytes
  Version = 0
  Namespaces <- Registered
  Stream <- TwoMessages
INVARIANT RemainingPositive
CHECK_DEADLOCK FALSE
