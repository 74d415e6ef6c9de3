SPECIFICATION Spec
CONSTANTS
  Node = {n1, n2, n3}
  Copy = {c1, c2, c3}
  Payload = {p1, p2}
  Null = Null
  Freed = Freed
  MaxSize = 2
INVARIANTS
  ListInv
  MemoryInv
PROPERTIES
  FreeTerminates
  ImplementsFifo
