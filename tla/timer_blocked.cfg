CONSTANTS
    Sleeps = 3
    WaitSeconds = 6
SPECIFICATION TimerSpec
CHECK_DEADLOCK FALSE
PROPERTIES
    BlockedUntilUnblocked
