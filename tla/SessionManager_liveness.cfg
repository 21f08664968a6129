SPECIFICATION FairSpec
CONSTANTS
  Imsi = {i1, i2}
  StoreKind = "in_memory"
  MaxFaults = 0
  Udp = udp
  Cleaner = cleaner
  Checkers = {}
  Stoppers = {s1}
  NoOwner = none
  Timeout = 1
  Rate = 1
  Restored = {}
  SharedTm = TRUE
  MaxTime = 4
  MaxLag = 1
  MaxTouches = 2
PROPERTIES
  GracefulStopTerminates
  DestructorTerminates
  ExpiredEventuallyRemoved
