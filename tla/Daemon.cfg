SPECIFICATION FairSpec
CONSTANTS
    RPCs = {c1, c2}
    MaxRotations = 2
    MaxSignals = 2
INVARIANTS TypeOK RPCsFinish NoSendOnClosedChannel
PROPERTIES RotationIsServed StopCompletes
CHECK_DEADLOCK FALSE
