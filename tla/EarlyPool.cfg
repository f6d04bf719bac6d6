SPECIFICATION Spec
CONSTANTS
    Workers = {w1, w2}
    MaxTasks = 2
    NoOne = NoOne
PROPERTIES ShutdownReturns
CHECK_DEADLOCK FALSE
