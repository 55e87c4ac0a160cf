CONSTANTS
    Callers = {c1, c2}
    Devices = {d1}
    NoDev = NoDev
    MaxFd = 2
    Inherited = {}
    Ops = {"ip_add", "ip_show", "link_up", "link_info"}
    Faults = {"recvmsg", "dump"}
    Refusals = {"EPERM"}
    DoneAlone = FALSE
SPECIFICATION Spec
SYMMETRY Symmetric
INVARIANTS
    TypeOK
    DescriptorsAccounted
    AnswersAreMine
    NeverStranded
    LinkChangeTookEffect
    ExhaustionNeedsLeak
PROPERTIES
    OnlyStdinLeaksFromLinks
    ImplementsAtomicCalls
