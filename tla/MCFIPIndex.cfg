SPECIFICATION Spec
CONSTANTS
    FIPs = {f1, f2}
    Networks = {n1, n2}
    Addresses = {a1, a2}
    NoNetwork = NoNetwork
    NoAddress = NoAddress
    NoFIP = NoFIP
    NoEntry = NoEntry
SYMMETRY Symmetry
VIEW WithoutDelta
INVARIANTS TypeOK NetIndexInLockstep LookupMatchesEntries GaugeTracksUnlessElder
PROPERTY ReplaceAllReportsChanges
