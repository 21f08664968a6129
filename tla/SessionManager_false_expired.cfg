SPECIFICATION Spec
CONSTANTS
  Imsi = {i1}
  StoreKind = "sqlite"
  MaxFaults = 0
  Udp = udp
  Cleaner = cleaner
  Checkers = {}
  Stoppers = {}
  NoOwner = none
  Timeout = 2
  Rate = 1
  Restored = {}
  SharedTm = FALSE
  MaxTime = 5
  MaxLag = 1
  MaxTouches = 2
PROPERTY ExpiredRecordIsTrue
