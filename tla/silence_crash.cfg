CONSTANTS
  a1 = a1
  a2 = a2
  r1 = r1
  NoHost = NoHost
  NoName = NoName
  Addr <- MCAddr
  Rank <- Order
  TextRank <- Order
  Device <- Router
  Configs <- MCConfigs
  Neighbors <- NoNeighbors
  Misses = 3
  MaxFaults = 1
  MaxMisses = 3
  EnabledTiers = {"hot"}
  OutSD = FALSE
  AllowDuplicateSysName = FALSE
  Ping = TRUE
SPECIFICATION SilenceSpec
PROPERTY DropOnlyAfterMisses
CHECK_DEADLOCK FALSE
