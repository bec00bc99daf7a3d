SPECIFICATION FairSpec
CONSTANTS
  Threads = {t1}
  CacheTtl = 2
  MaxLife = 6
PROPERTIES InvalidKeyForgottenUnconditionally
