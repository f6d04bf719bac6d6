SPECIFICATION Spec
CONSTANTS
    c1 = c1  c2 = c2
    Clients = {c1, c2}
    Workers = {w1, w2}
    Fds = {3}
    Scripts <- MixedScripts
    MaxHeader = 2
    MaxBody = 1
    MaxFaults = 1
    None = None
INVARIANTS SingleOwner HeldIffLive OwnDescriptor ActiveCounts AnswersInOrder
PROPERTIES RequestsServed HungUpClosed BacklogAccepted
