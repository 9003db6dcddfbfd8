SPECIFICATION FairSpec
CONSTANTS
    Ops <- OpsAll
    TransactionMaxAttempts = 2
    SuperRefMod = 65536
    MaxOps = 2
    MaxFaults = 1
    MaxRaces = 1
    MaxNoise = 1
PROPERTIES CommandsServed
CHECK_DEADLOCK FALSE
