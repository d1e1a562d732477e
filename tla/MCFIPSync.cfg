SPECIFICATION FairSyncSpec
CONSTANTS
    f1 = f1
    f2 = f2
    n1 = n1
    n2 = n2
    FIPs = {f1, f2}
    Networks = {n1, n2}
    Addresses = {a1, a2}
    NoNetwork = NoNetwork
    NoAddress = NoAddress
    NoFIP = NoFIP
    NoEntry = NoEntry
    NetworksOf <- Layout
    MaxOps = 3
INVARIANTS SyncTypeOK NoMissedRepublish
PROPERTY SyncConverges
