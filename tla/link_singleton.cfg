CONSTANTS
    Callers = {c1, c2}
    Threads = {t1, t2}
    None = None
    CreateMayFail = FALSE
SPECIFICATION Spec
INVARIANTS
    Singleton
