CONSTANTS
    Devices = {d1, d2}
    Flags = {up}
    Commands = {"none", "evloop", "other"}
    Room = 2
    PerDatagram = 2
    MaxChanges = 5
SPECIFICATION FairSpec
\* The program may exit.
CHECK_DEADLOCK FALSE
INVARIANTS
    TypeOK
    LossWasAnnounced
PROPERTIES
    ImplementsChangeFeed
    CaughtUp
