CONSTANTS
  a1 = a1
  a2 = a2
  a3 = a3
  r1 = r1
  core1 = core1
  core1b = core1b
  NoHost = NoHost
  NoName = NoName
  Addr <- MCAddr
  Rank <- Order
  TextRank <- TextOrder
  Device <- TwoSites
  Configs <- EdgeAndCore
  Neighbors <- AllLinked
  Misses = 2
  MaxFaults = 1
  MaxMisses = 2
  EnabledTiers = {"hot"}
  OutSD = TRUE
  AllowDuplicateSysName = FALSE
  Ping = TRUE
SPECIFICATION Spec
INVARIANTS
  KnownReprobed
  InGroupScope
  FileNamesUnique
  FilesAgree
CHECK_DEADLOCK FALSE
