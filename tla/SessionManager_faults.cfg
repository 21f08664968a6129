SPECIFICATION Spec
CONSTANTS
  Imsi = {i1, i2}
  StoreKind = "sqlite"
  MaxFaults = 1
  Udp = udp
  Cleaner = cleaner
  Checkers = {}
  Stoppers = {s1}
  NoOwner = none
  Timeout = 2
  Rate = 2
  Restored = {i1}
  SharedTm = FALSE
  MaxTime = 4
  MaxLag = 1
  MaxTouches = 2
INVARIANTS
  ExpiredOnlyAfterCreated
  FaultsAccounted
PROPERTIES
  LiveSessionKept
