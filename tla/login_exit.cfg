SPECIFICATION TimerSpec
CONSTANTS
    Period = 2
    LoginTime = 1
    JobTime = 4
    MaxFailures = 1
    LateThreads = TRUE
PROPERTY ProcessExits
