SPECIFICATION Spec
CONSTANTS
    ann = ann
    bob = bob
    cat = cat
    ca = ca
    cc = cc
    k1 = k1
    k2 = k2
    k3 = k3
    Instance = {ann, bob, cat}
    Chain = {ca}
    Writer <- OneWriter
    Conn = {k1, k2, k3}
    Dialer <- RingDialer
    Listener <- RingListener
    ReadOnly = {k3}
    MaxBundles = 2
    SendsFail = FALSE
INVARIANT ReadOnlyIsRespected
INVARIANT NoGapInFlight
INVARIANT OfferedToEveryPeer
CHECK_DEADLOCK FALSE
