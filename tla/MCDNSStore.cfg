SPECIFICATION Spec
CONSTANTS
    Zones = {z1, z2}
    Records = {d1, d2, d3}
    Names = {nm1}
    NoZone = NoZone
    NoRecord = NoRecord
    Handlers = {h1, h2}
    maxAttempts = 2
    maxTxnOps = 3
    MaxCalls = 8
    MaxFailures = 1
SYMMETRY Symmetry
INVARIANTS TypeOK CountDriftIsExplained OrphansAreExplained
PROPERTY ImplementsMemory
CHECK_DEADLOCK FALSE
