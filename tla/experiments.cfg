CONSTANTS
    Sleeps = 3
    WaitSeconds = 6
    NsPerSec = 2
    MaxDate = 11
    MaxKeys = 3
    QueueLimit = 2
    SleepSeconds = 3
    CvTimeout = 2
    CvSleeps = 2
    CvLastDate = 9
    TicksPerSec = 3
    SecPerMin = 2
    CdLimit = 2
    CdTimeouts <- MCTimeouts
    CdMinutes <- MCMinutes
    CdLastTick = 22
    Waiters = {w1, w2}
    FfTexts <- MCTexts
    WaitCondition = "1"
    FfMaxBytes = 3
    FfMaxWrites = 3
    NoFifo = NoFifo
    GpSelectSeconds = 2
    GpMaxChanges = 2
    NaGroups = {0, 20}
    NaGarbage <- MCGarbage
    NlAddresses = {"a", "b", "c"}
    NEW_IP = "a"
    NlRoom = 2
    NlErrors = {"EPERM", "EADDRNOTAVAIL", "ENODEV"}
SPECIFICATION FairSpec
CHECK_DEADLOCK FALSE
INVARIANTS
    TypeOK
    StopIsNotMissed
    OnlyHandlerDelaysStop
    DiesOnlyUnprepared
    HandledOnce
    PeriodKept
    EarlyByLessThanASecond
    OrphansHaveRival
    ExpansionIsRight
    SuccessIsTrue
PROPERTIES
    SleepsUndisturbed
    ExpiryIsStable
    KeysAnswered
    HeadOneEndsWait
    ShowsChange
    RunsEnd
