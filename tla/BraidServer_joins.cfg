SPECIFICATION Spec
CONSTANTS
    ann = ann
    bob = bob
    cat = cat
    ca = ca
    kb = kb
    kb2 = kb2
    kc = kc
    x = x
    y = y
    Server = Server
    Client = {ann, bob, cat}
    Chain = {ca}
    Writer <- OneWriter
    Braid = {x, y}
    Initial <- Limits
    Conn = {kb, kb2, kc}
    ClientOf <- Clients
    BraidOf <- Braids
    ReadOnly = {kb2}
    MaxLen = 2
INVARIANT TypeOK
INVARIANT WithinBraid
INVARIANT IndexAgrees
INVARIANT NoGapToClient
INVARIANT CaughtUp
 
PROPERTY ImplementsReplicatedChains
CHECK_DEADLOCK FALSE
