SPECIFICATION Spec
CONSTANTS
  Base = 2
  Digits = 3
  SkipHostBits = 1
  MaxHostBits = 2
  Bad = Bad
  Absent = Absent
  Broken = Broken
  BadNames = {"", "9"}
  NullNames = {"null"}
  Fingerprinters = {"network"}
  DefaultFP = "network"
  AuthProtocols = {"SHA256"}
  PrivProtocols = {"AES"}
  SnmpAuths <- MCSnmpAuths
  MaxPieces = 3
  LongIndex = 3
  StringTypes = {"STRING"}
  LabelTypes = {"STRING", "IpAddress"}
  Flags <- MCFlags
  AuthAnswers <- MCAuthAnswers
  GroupAnswers <- MCGroupAnswers
  HandAuths <- MCHandAuths
  HandGroups <- MCHandGroups
  Agents <- MCAgents
  WalkPrefixes <- MCWalkPrefixes
  Libraries <- MCLibraries
  MaxCommands = 2
  MaxAuths = 2
  MaxGroups = 2
  MaxFaults = 0
INVARIANT WalksColumns
CHECK_DEADLOCK FALSE
