SPECIFICATION FairClientSpec
CONSTANTS
  Client = {c1}
  Port = {p1}
  NoPort = none
  Imsi <- MCImsi
  Blacklist <- MCBlacklist
  BufSize = 2
  MaxLosses = 0
  MaxSlips = 0
PROPERTY JoinReturns
