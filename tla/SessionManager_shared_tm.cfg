SPECIFICATION Spec
CONSTANTS
  Imsi = {i1, i2}
  StoreKind = "sqlite"
  MaxFaults = 0
  Udp = udp
  Cleaner = cleaner
  Checkers = {}
  Stoppers = {}
  NoOwner = none
  Timeout = 2
  Rate = 1
  Restored = {}
  SharedTm = TRUE
  MaxTime = 5
  MaxLag = 1
  MaxTouches = 2
PROPERTY LiveSessionKept
