SPECIFICATION ServerSpec
CONSTANTS
  Imsi = {i1, i2}
  StoreKind = "sqlite"
  MaxFaults = 0
  Udp = udp
  Cleaner = cleaner
  Checkers = {}
  Stoppers = {s1}
  NoOwner = none
  Timeout = 2
  Rate = 1
  Restored = {}
  SharedTm = FALSE
  MaxTime = 3
  MaxLag = 1
  MaxTouches = 2
  Blacklist = {}
INVARIANT AllOffloaded
