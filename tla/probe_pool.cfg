CONSTANTS
  NumJobs = 3
  Concurrency = 2
SPECIFICATION FairSpec
INVARIANTS
  TypeOK
  Accounting
  GaugeCountsProbes
  ResultComplete
PROPERTIES
  RefinesPass
  PassEnds
