SPECIFICATION Spec
CONSTANTS
    Ops <- OpsAll
    TransactionMaxAttempts = 2
    SuperRefMod = 65536
    MaxOps = 3
    MaxFaults = 1
    MaxRaces = 1
    MaxNoise = 1
INVARIANTS PendingOwned ReaderLifetime AnswersAreOwn StackAnswerIsPure
CHECK_DEADLOCK FALSE
