SPECIFICATION Spec
CONSTANTS
    Conns = {c1, c2, c3}
    Instances = {i1, i2}
    NoConn = NoConn
    Faults = {"expiry"}
PROPERTIES
    NewestWins
CHECK_DEADLOCK FALSE
