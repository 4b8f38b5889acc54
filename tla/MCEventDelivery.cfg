SPECIFICATION Spec
CONSTANTS
    Conns = {c1, c2}
    NoConn = NoConn
    MaxChanges = 2
    MaxRetries = 1
    BufferSize = 2
    Faults = {"publish", "retry", "subscription", "reload"}
SYMMETRY ConnSymmetry
CHECK_DEADLOCK FALSE
INVARIANTS
    TypeOK
    NoGap
    InOrderOnce
