SPECIFICATION FairSpec
CONSTANTS
  Producers = {udp, cleaner}
  Record = {created, expired}
  MaxRecords = 4
  MaxFaults = 1
  MaxExits = 1
INVARIANTS
  TypeOK
  NothingLost
PROPERTIES
  ImplementsCdrLog
  DestructorReturns
