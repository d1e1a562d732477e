SPECIFICATION Spec
CONSTANTS
    Rules = {s1, s2, s3, s4}
    Names = {nm1, nm2}
    Handlers = {h1, h2, h3}
    None = None
SYMMETRY Symmetry
INVARIANTS TypeOK DuplicatesAreContested
PROPERTY ImplementsTable
CHECK_DEADLOCK FALSE
