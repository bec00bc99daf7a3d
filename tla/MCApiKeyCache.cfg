SPECIFICATION FairSpec
CONSTANTS
  Threads = {t1, t2}
  CacheTtl = 2
  MaxLife = 6
INVARIANTS ValidKeyNeverRejected UntimedEntryIsBeingExpired InvalidKeyForgottenWithinTtl ExpiryOverrunBounded
PROPERTIES InvalidKeyForgotten
