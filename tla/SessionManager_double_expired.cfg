SPECIFICATION Spec
CONSTANTS
  Imsi = {i1}
  StoreKind = "sqlite"
  MaxFaults = 0
  Udp = udp
  Cleaner = cleaner
  Checkers = {}
  Stoppers = {s1}
  NoOwner = none
  Timeout = 2
  Rate = 1
  Restored = {}
  SharedTm = FALSE
  MaxTime = 5
  MaxLag = 1
  MaxTouches = 1
INVARIANT OneExpiredPerSession
