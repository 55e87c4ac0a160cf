CONSTANTS
    Callers = {c1}
    Devices = {d1, d2}
    NoDev = NoDev
    MaxFd = 4
    Inherited = {0}
    Ops = {"ip_add", "ip_del", "gateway_add", "gateway_del", "ip_show", "gateway_show", "link_up", "link_down", "link_info"}
    Faults = {}
    Refusals = {"EPERM"}
    DoneAlone = TRUE
SPECIFICATION FairSpec
INVARIANTS
    InfoWasReal
PROPERTIES
    CallsReturn
