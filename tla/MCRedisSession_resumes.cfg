SPECIFICATION FairSpec
CONSTANTS
  Threads = {}
  HasPassword = TRUE
  HasDb = FALSE
  MaxIdle = 1
  Backoff = 1
  ConnectTimeout = 3
  MaxLeaks = 1
PROPERTIES CachingResumes
