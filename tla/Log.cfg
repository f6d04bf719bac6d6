SPECIFICATION Spec
CONSTANTS
    Workers = {w1, w2}
    MaxWrites = 2
    FlushLines = 2
    MaxSec = 2
INVARIANTS NoLineLost CompleteAtExit CrashLoss OwnTimestamp NoHole
