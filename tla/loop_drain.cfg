CONSTANTS
    Devices = {d1}
    Flags = {up}
    Commands = {"evloop"}
    Room = 2
    PerDatagram = 1
    MaxChanges = 3
SPECIFICATION Spec
\* The program may exit.
CHECK_DEADLOCK FALSE
PROPERTIES
    ReadEventDrains
