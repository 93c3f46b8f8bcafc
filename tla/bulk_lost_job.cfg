CONSTANTS
  r1 = r1
  r2 = r2
  Record = {r1, r2}
  None = None
  StartDate = 0
  CommitDelay = 0
  MaxClock = 1
  Lookback = 0
  OtherStreams = FALSE
  MaxFaults = 1
  Batch = {r1, r2}
  BatchOf <- OneEach
  MaxJobSpan = 0
  MaxJobs = 1
  JobsExpire = TRUE
SPECIFICATION Spec
PROPERTY LostJobResetsBookmark
