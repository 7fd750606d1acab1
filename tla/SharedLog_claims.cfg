SPECIFICATION Spec
CONSTANTS
    p1 = p1
    p2 = p2
    p3 = p3
    l1 = l1
    l2 = l2
    r1 = r1
    NoOne = NoOne
    Proc = {p1, p2, p3}
    LocalChain = {l1}
    RemoteChain = {}
    Identity <- OneUser
    MaxBundles = 3
    MaxLog = 6
SYMMETRY Processes
INVARIANT OneWriterPerChain
INVARIANT LinkIsTheEnd
CHECK_DEADLOCK FALSE
