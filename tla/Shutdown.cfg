SPECIFICATION Spec
INVARIANTS TailIsStored
PROPERTIES ShutdownEnds StreamsAreCounted
CONSTANTS
    Clients = {a, b}
    Watchers = {w}
    Requests <- MCRequests
    Capacity = 1
    BatchMax = 2
    MaxChunks = 1
CHECK_DEADLOCK FALSE
