SPECIFICATION Spec
CONSTANTS
    k1 = k1
    k2 = k2
    v1 = v1
    b1 = b1
    b2 = b2
    None = None
    Key = {k1, k2}
    Value = {v1}
    Bundler = {b1}
    MaxBundles = 4
    MaxChanges = 3
    MaxCalls = 4
    Retries = TRUE
SYMMETRY Symmetric
INVARIANT TypeOK
INVARIANT HandlesResolve
PROPERTY Serializable
PROPERTY ResetRestores
CHECK_DEADLOCK FALSE
