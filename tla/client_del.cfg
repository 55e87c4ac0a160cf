CONSTANTS
    Callers = {c1}
    Devices = {d1}
    NoDev = NoDev
    MaxFd = 8
    Inherited = {0}
    Ops = {"ip_add", "ip_del"}
    Faults = {}
    Refusals = {}
    DoneAlone = TRUE
SPECIFICATION Spec
INVARIANTS
    DelUndoesAdd
