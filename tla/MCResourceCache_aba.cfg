SPECIFICATION Spec
CONSTANTS
  Threads = {t1, t2}
  EntryTtl = 1
  VersionTtl = 2
  MaxWrites = 2
  MaxLate = 1
INVARIANTS WritesDuringFillsAreDetected
