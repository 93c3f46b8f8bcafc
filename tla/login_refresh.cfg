SPECIFICATION TimerSpec
CONSTANTS
    Period = 3
    LoginTime = 2
    JobTime = 12
    MaxFailures = 2
    LateThreads = FALSE
INVARIANTS TimerTypeOK RefreshKeepsGoing TokenStaysFresh
PROPERTY ProcessExits
