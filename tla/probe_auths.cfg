CONSTANTS
  dev = dev
  v2 = v2
  v3 = v3
  old = old
  Nobody = Nobody
  Addr <- MCAddr
  Auth = {v2, v3, old}
  Configs <- MCConfigs
  Agents <- MCAgents
  Fingerprinter <- MCFingerprinter
  TopologyModules = {"lldp_mib"}
  Errors = {"timeout", "refused"}
  Retries = 1
  Misses = 2
  MaxFaults = 2
SPECIFICATION FairSpec
INVARIANTS
  TypeOK
  ReportTruthful
  TriedInFull
  ModulesJustified
PROPERTIES
  IsHunt
  SettlesOnFirst
