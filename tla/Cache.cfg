SPECIFICATION Spec
CONSTANTS
    k1 = k1  k2 = k2  k3 = k3  k4 = k4
    Key = {k1, k2, k3, k4}
    Value = {v1, v2}
    NumShards = 2
    PerShard = 2
    ShardOf <- HashThreeOne
    Addr = {a1, a2, a3}
    None = None
    MaxLookups = 1
SYMMETRY Symmetry
INVARIANTS IndexMatchesList HoldsLatest ExactLRU StatsBracketed
PROPERTIES ImplementsStore
