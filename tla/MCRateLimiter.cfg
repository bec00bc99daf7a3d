SPECIFICATION Spec
CONSTANTS
  Threads = {t1, t2}
  Clients = {c1, c2}
  NoClient = NoClient
  Cost = 2
  Capacity = 3
  TicksPerSecond = 2
  CleanupInterval = 3
  EntryTtl = 5
  MaxLag = 1
  MaxTime = 8
SYMMETRY Sym
INVARIANTS NeverOvergranted RetryAfterIsEnough
CHECK_DEADLOCK FALSE
