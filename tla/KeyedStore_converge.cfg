SPECIFICATION Spec
CONSTANTS
    mem = mem
    lmdb = lmdb
    k1 = k1
    k2 = k2
    Replica = {mem, lmdb}
    Impl <- OneOfEach
    Key = {k1, k2}
    MaxTime = 3
SYMMETRY Keys
INVARIANT KeysConverge
CHECK_DEADLOCK FALSE
