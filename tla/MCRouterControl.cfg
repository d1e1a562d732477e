SPECIFICATION FairSpec
CONSTANTS
    Routers = {r1}
    Reports = {{}, {"Established"}, {"Idle", "Connect"}}
    Names = {nm1}
    Classes = {"bgp", "mute", "peer"}
    Instances = {i1, i2}
    NoRouter = NoRouter
    maxReplicas = 2
    MaxCalls = 3
    MaxFailures = 2
INVARIANTS TypeOK LeaksAreExplained EnsuredRuns
PROPERTIES RestartRestores ImplementsTable
CHECK_DEADLOCK FALSE
