SPECIFICATION FairSpec
CONSTANTS
  NoOne = NoOne
  Threads = {t1, t2, t3}
  MinConnections = 1
  MaxConnections = 1
INVARIANTS Accounting NoLostWakeUp
PROPERTIES WaitsOnlyWhenAllAreHeld AcquireEnds
