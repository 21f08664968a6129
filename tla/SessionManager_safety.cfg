SPECIFICATION Spec
CONSTANTS
  Imsi = {i1, i2}
  StoreKind = "sqlite"
  MaxFaults = 0
  Udp = udp
  Cleaner = cleaner
  Checkers = {c1}
  Stoppers = {s1}
  NoOwner = none
  Timeout = 2
  Rate = 1
  Restored = {}
  SharedTm = FALSE
  MaxTime = 5
  MaxLag = 1
  MaxTouches = 3
SYMMETRY Symmetry
INVARIANTS
  TypeOK
  SessionsAccounted
  ExpiredOnlyAfterCreated
PROPERTIES
  LiveSessionKept
  NotActiveOnlyIfOver
  ImplementsLifecycle
