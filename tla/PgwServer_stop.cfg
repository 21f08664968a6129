SPECIFICATION FairServerSpec
CONSTANTS
  Imsi = {i1, i2, b1}
  StoreKind = "sqlite"
  MaxFaults = 0
  Udp = udp
  Cleaner = cleaner
  Checkers = {c1}
  Stoppers = {s1}
  NoOwner = none
  Timeout = 1
  Rate = 1
  Restored = {}
  SharedTm = FALSE
  MaxTime = 2
  MaxLag = 1
  MaxTouches = 2
  Blacklist = {b1}
INVARIANTS
  ServerTypeOK
  AtMostOneSessionLeft
PROPERTIES
  StopEndsProcess
