SPECIFICATION BrowserFairSpec
CONSTANT MaxConnections = 4
INVARIANTS BrowserTypeOK OutcomeIsExplained
PROPERTIES NoAnswerAfterTheResult LoginEnds
CHECK_DEADLOCK FALSE
