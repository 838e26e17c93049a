CONSTANTS
  Bad = Bad
  Base = 4
  Digits = 2
  SkipHostBits = 2
  MaxHostBits = 2
  Groups <- MCGroups
  Strangers <- MCStrangers
  MaxFaults = 1
SPECIFICATION FairSpec
INVARIANTS
  TypeOK
  ExpandsExactly
  AliveAnswered
  EarlyOnlyIfAll
PROPERTY SweepEnds
