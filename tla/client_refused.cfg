CONSTANTS
    Callers = {c1}
    Devices = {d1}
    NoDev = NoDev
    MaxFd = 2
    Inherited = {0}
    Ops = {"link_info"}
    Faults = {"dump"}
    Refusals = {"EPERM"}
    DoneAlone = TRUE
SPECIFICATION Spec
INVARIANTS
    OnlyEntriesInInfo
