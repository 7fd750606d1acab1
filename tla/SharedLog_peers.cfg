SPECIFICATION Spec
CONSTANTS
    p1 = p1
    p2 = p2
    p3 = p3
    l1 = l1
    l2 = l2
    r1 = r1
    NoOne = NoOne
    Proc = {p1, p2}
    LocalChain = {l1, l2}
    RemoteChain = {r1}
    Identity <- OneUser
    MaxBundles = 2
    MaxLog = 5
SYMMETRY Processes
INVARIANT TypeOK
INVARIANT FileIsChains
INVARIANT MemoryIsLogged
CHECK_DEADLOCK FALSE
