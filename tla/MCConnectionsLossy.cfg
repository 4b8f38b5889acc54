SPECIFICATION Spec
CONSTANTS
    Conns = {c1, c2, c3}
    Instances = {i1, i2}
    NoConn = NoConn
    Faults = {"subscription"}
SYMMETRY ConnSymmetry
INVARIANTS
    OneConnectionUnlessLost
CHECK_DEADLOCK FALSE
