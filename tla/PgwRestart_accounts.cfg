SPECIFICATION RestartSpec
CONSTANTS
  Imsi = {i1, i2}
  Kept = {}
  Files <- MCFiles
  MaxRecords = 4
  MaxExits = 2
SYMMETRY Symmetry
INVARIANTS
  RestartTypeOK
  UnmatchedAreFew
  GoneAreMatched
  OnlyLossesCost
  CreatedIsFirst
