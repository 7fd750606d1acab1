SPECIFICATION Spec
CONSTANTS
    c1 = c1
    c2 = c2
    Client = {c1, c2}
    Elaborate = {c1}
    Kind = {"key_set", "group", "pair_set", "pair_map", "property", "box", "accumulator"}
    Key = {0, 1, 2}
    MaxChanges = 2
    MaxArgument = 2
    MaxTotal = 2
INVARIANT TypeOK
INVARIANT BlocksAreAtomic
PROPERTY QuietOperationsAreExact
CHECK_DEADLOCK FALSE
