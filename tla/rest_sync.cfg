\* Saves that commit up to one tick late, other streams writing STATE at any
\* time, and two timeouts, failures or crashes.
CONSTANTS
  r1 = r1
  r2 = r2
  Record = {r1, r2}
  None = None
  StartDate = 0
  CommitDelay = 1
  MaxClock = 2
  Lookback = 1
  OtherStreams = TRUE
  MaxFaults = 2
  Day = 1
  MaxRetries = 2
SPECIFICATION FairSpec
INVARIANT TypeOK
PROPERTIES DeliversAtLeastOnce EveryChangeDelivered RunEnds
