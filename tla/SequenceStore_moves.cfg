SPECIFICATION Spec
CONSTANTS
    x = x
    y = y
    Replica = {x, y}
    Lmdb = {y}
    MaxTime = 4
    Positions = {2}
    Expiries = {3}
    Additions <- Some
INVARIANT TypeOK
INVARIANT OnePlaceAtATime
INVARIANT LocatedIsVisible
INVARIANT MovementsConverge
CHECK_DEADLOCK FALSE
