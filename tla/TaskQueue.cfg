SPECIFICATION Spec
CONSTANTS
    Workers = {w1, w2, w3}
    MaxTasks = 4
    MaxSpurious = 2
    NoOne = NoOne
    NoTask = NoTask
INVARIANTS IndInv FifoOnce WorkConserving NoneAsleepAfterStop DrainedAtJoin
PROPERTIES EveryTaskRuns ShutdownTerminates ImplementsWorkQueue
