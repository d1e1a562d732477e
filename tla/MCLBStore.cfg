SPECIFICATION Spec
CONSTANTS
    LBs = {u1, u2}
    Names = {nm1}
    BackendLists = {b1, b2}
    Handlers = {h1, h2}
    NoLB = NoLB
    maxAttempts = 3
    MaxCalls = 5
SYMMETRY Symmetry
INVARIANTS TypeOK DeletedStaysDeleted ConflictMeansOvertaken
PROPERTY ImplementsRegister
CHECK_DEADLOCK FALSE
