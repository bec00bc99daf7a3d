SPECIFICATION Spec
CONSTANTS
  Threads = {t1, t2}
  Clients = {"A", "B"}
  Nobody = Nobody
  Keys = {"kA", "kAr", "kB", "k0"}
  Tokens = {"jA", "jAr", "jB", "jU"}
  ClientOf <- MCClientOf
  ScopesOf <- MCScopesOf
  Spellings = {"lower", "upper"}
  MaxWrites = 2
  Requests <- MCRequests
SYMMETRY Sym
INVARIANTS
  TypeOK
  RowsGoToTheirOwners
  BodiesAreBounded
  ProbesAreServed
  NoRequestIsStuck
PROPERTIES
  RowsChangeForTheirOwners
