CONSTANTS
    Callers = {c1, c2, c3}
    Threads = {t1, t2, t3, t4}
    None = None
    CreateMayFail = TRUE
SPECIFICATION Spec
INVARIANTS
    TypeOK
    OneThreadEach
    LateCallsMakeNone
    ZeroMeansThread
