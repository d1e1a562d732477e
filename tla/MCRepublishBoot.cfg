SPECIFICATION FairSpec
CONSTANTS
    f1 = f1
    n1 = n1
    n2 = n2
    r1 = r1
    FIPs = {f1}
    Networks = {n1, n2}
    Home <- OneHome
    Routers = {r1}
    Stitches <- OneRouter
    Instances = {i1, i2}
    None = None
    MaxChanges = 0
    MaxLosses = 0
    MaxTroubles = 0
PROPERTY AnnouncementsTrackWeft
CHECK_DEADLOCK FALSE
