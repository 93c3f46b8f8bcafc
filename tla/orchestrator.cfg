SPECIFICATION FairSpec
CONSTANTS
  NumStreams = 4
  Selected = {1, 3, 4}
  MaxWorkers = 2
  Requests <- RequestsOf
  MaxTries = 2
  TotalLimit = 1
  RunLimit = 1
  JobLimit = 0
  TotalBatches = 0
  MaxChunks = 2
  MaxForeign = 1
INVARIANTS TypeOK QuotaOverrunIsBounded BulkOverrunIsBounded CountersNeverOvercount
PROPERTY RunEnds
CHECK_DEADLOCK FALSE
