SPECIFICATION Spec
CONSTANTS
    Threads = {t1, t2}
    Requests = 2
    Workers = {w1, w2}
    MaxFaults = 1
    None = None
    NoSock = NoSock
INVARIANTS OwnResponse
PROPERTIES BenchmarkSettles
CHECK_DEADLOCK FALSE
