SPECIFICATION FairClientSpec
CONSTANTS
  Client = {c1, c2}
  Port = {p1, p2}
  NoPort = none
  Imsi <- MCImsi
  Blacklist <- MCBlacklist
  BufSize = 2
  MaxLosses = 1
  MaxSlips = 1
INVARIANTS
  NetTypeOK
  AnswerIsMine
  OnlyAskedTouched
PROPERTIES
  ClientFinishes
