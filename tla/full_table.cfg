SPECIFICATION FairSpec
CONSTANTS
  r1 = r1
  r2 = r2
  Record = {r1, r2}
  Batch = {r1, r2}
  BatchOf <- OneEach
  Version = {1, 2, 3, 4, 5}
  None = None
  MaxEdits = 2
  MaxFaults = 1
INVARIANTS TypeOK CompletedRunIsExact
PROPERTIES OnlyPurgedRowsDropped TargetBecomesTheTable
