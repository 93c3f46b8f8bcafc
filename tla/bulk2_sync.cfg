\* Saves that commit up to one tick late, other streams writing STATE at any
\* time, and one failed job, failure or crash.
CONSTANTS
  r1 = r1
  r2 = r2
  Record = {r1, r2}
  None = None
  StartDate = 0
  CommitDelay = 1
  MaxClock = 3
  Lookback = 1
  OtherStreams = TRUE
  MaxFaults = 1
SPECIFICATION FairSpec
INVARIANTS TypeOK NoGapBetweenRuns
PROPERTY RunEnds
