CONSTANTS
    w = w
    h = h
    c = c
    Workers <- MCWorkers
    Endpoints <- MCEndpoints
    Streams <- MCStreams
    MaxEvents = 3
    MaxMarks = 1
SPECIFICATION Spec
INVARIANTS TypeOK Delivered FileWhole
PROPERTY LateConsoleReleased
CHECK_DEADLOCK FALSE
