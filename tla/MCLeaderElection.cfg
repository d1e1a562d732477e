SPECIFICATION FairSpec
CONSTANTS
    Instances = {i1, i2}
    MaxSessions = 4
    MaxTroubles = 2
INVARIANTS ElectionTypeOK OverlapOnlyAfterLoss
PROPERTIES DeposedLoopsStop SomeoneLeads
CHECK_DEADLOCK FALSE
