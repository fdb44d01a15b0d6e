SPECIFICATION Spec
CONSTANTS
    Command = {c1, c2, c3}
    Drainer = {d}
    MaxQueue = 2
    Registers = 2
    MaxPolls = 1
    MaxLinks = 3
INVARIANT NoCommandLost
CHECK_DEADLOCK FALSE
