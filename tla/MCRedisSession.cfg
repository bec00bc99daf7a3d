SPECIFICATION FairSpec
CONSTANTS
  Threads = {t1, t2}
  HasPassword = TRUE
  HasDb = TRUE
  MaxIdle = 1
  Backoff = 1
  ConnectTimeout = 3
  MaxLeaks = 1
INVARIANTS TypeOK CacheSessionIsReady KeySessionsAreReady ContextsAccountedFor
  StaleSessionsAreReplaced FailuresAreSpaced
PROPERTIES CacheRecoversUnlessHalfOpen
