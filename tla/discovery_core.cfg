CONSTANTS
  a1 = a1
  a2 = a2
  a3 = a3
  r1 = r1
  core1 = core1
  core1b = core1b
  NoHost = NoHost
  NoName = NoName
  Addr <- MCAddr
  Rank <- Order
  TextRank <- Order
  Device <- RouterAndAlias
  Configs <- PlainOrIgnoring
  Neighbors <- NoNeighbors
  Misses = 2
  MaxFaults = 2
  MaxMisses = 2
  EnabledTiers = {"hot", "cold"}
  OutSD = FALSE
  AllowDuplicateSysName = FALSE
  Ping = TRUE
SPECIFICATION Spec
INVARIANTS
  TypeOK
  MissesBelowLimit
  FilesAgree
  AliasesFolded
  OneFreshIdentity
  IgnoredGone
PROPERTY KeepsInventory
CHECK_DEADLOCK FALSE
