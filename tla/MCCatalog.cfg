SPECIFICATION Spec
CONSTANTS
    l1 = l1
    l2 = l2
    u = u
    Users = {u}
    Admins = {admin}
    Lists = {l1, l2}
    Themes = {t}
    OwnersOf <- MCOwnersOf
    MaxQuestions = 3
    Capacity <- MCCapacity
    Requests = {r1, r2}
    NoRow = NoRow
SYMMETRY MCSymmetry
INVARIANTS TypeOK ThemeInScope ContiguousUnlessOverlapped
PROPERTIES DeleteKeepsOrder EditorsOnly
