SPECIFICATION Spec
CONSTANTS
    c1 = c1  c2 = c2  c3 = c3  a = a
    Clients = {c1, c2, c3}
    Workers = {w1, w2}
    Fds = {f1, f2, f3}
    Paths = {root, a}
    Root = root
    Asks <- TwoAndOne
    Capacity = 1
    Splits = {c1}
    MaxFaults = 1
    Listen = Listen
    None = None
INVARIANTS ClosedAnswered CacheAccounts
PROPERTIES RequestAnswered
CHECK_DEADLOCK FALSE
