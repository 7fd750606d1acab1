SPECIFICATION Spec
CONSTANTS
    c1 = c1
    c2 = c2
    NoConn = NoConn
    Conn = {c1, c2}
    Fd = {1, 2}
    MaxLines = 1
INVARIANT TypeOK
INVARIANT MapsAgree
INVARIANT NoConnectionIsMissed
 
CHECK_DEADLOCK FALSE
PROPERTY EndsAreNoticed
