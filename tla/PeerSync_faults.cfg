SPECIFICATION Spec
CONSTANTS
    ann = ann
    bob = bob
    cat = cat
    ca = ca
    cc = cc
    k1 = k1
    k2 = k2
    k3 = k3
    Instance = {ann, bob, cat}
    Chain = {ca, cc}
    Writer <- TwoWriters
    Conn = {k1, k2}
    Dialer <- RelayDialer
    Listener <- RelayListener
    ReadOnly = {}
    MaxBundles = 2
    SendsFail = TRUE
INVARIANT TypeOK
INVARIANT SentIsHeld
INVARIANT NoGapInFlight
INVARIANT TrackerIsSound
PROPERTY ImplementsReplicatedChains
CHECK_DEADLOCK FALSE
