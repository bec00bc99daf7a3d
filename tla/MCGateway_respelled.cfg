SPECIFICATION Spec
CONSTANTS
  Threads = {t1, t2}
  Clients = {"A", "B"}
  Nobody = Nobody
  Keys = {"kA", "kAr", "kB", "k0"}
  Tokens = {"jA", "jAr", "jB", "jU"}
  ClientOf <- MCClientOf
  ScopesOf <- MCScopesOf
  Spellings = {"lower", "upper"}
  MaxWrites = 2
  Requests <- RespelledRequests
INVARIANT ReadFollowsUpdate
