CONSTANTS
  r1 = r1
  r2 = r2
  Record = {r1, r2}
  None = None
  StartDate = 0
  CommitDelay = 0
  MaxClock = 2
  Lookback = 1
  OtherStreams = TRUE
  MaxFaults = 1
  Batch = {r1, r2}
  BatchOf <- OneEach
  MaxJobSpan = 1
  MaxJobs = 1
  JobsExpire = FALSE
SPECIFICATION Spec
SYMMETRY RecordSymmetry
INVARIANTS TypeOK RemovedBatchesDelivered
PROPERTY DeliversAtLeastOnce
