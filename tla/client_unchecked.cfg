CONSTANTS
    Callers = {c1}
    Devices = {d1}
    NoDev = NoDev
    MaxFd = 2
    Inherited = {0}
    Ops = {"ip_add"}
    Faults = {}
    Refusals = {"EPERM"}
    DoneAlone = TRUE
SPECIFICATION Spec
INVARIANTS
    SuccessWasChecked
