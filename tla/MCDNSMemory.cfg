SPECIFICATION Spec
CONSTANTS
    Zones = {z1, z2, z3}
    Records = {d1, d2, d3, d4}
    Names = {nm1, nm2}
    NoZone = NoZone
INVARIANTS TypeOK ForeignKeys NamesInLockstep CountsAccurate
