SPECIFICATION FairSpec
CONSTANTS
  Threads = {t1, t2}
  EntryTtl = 2
  VersionTtl = 3
  MaxWrites = 1
  MaxLate = 1
INVARIANTS StaleOnlyWhileEvictionOwed
PROPERTIES ImplementsContract LookupIsAtomic EventuallyCoherent
