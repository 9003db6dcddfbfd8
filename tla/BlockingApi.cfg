\* Deadlock is not checked: an abandoned stream really blocks its destructor.
SPECIFICATION FairSpec
CONSTANTS
    Buffers = {b1, b2}
    MaxPerBuffer = 2
    MaxEvents = 3
    MaxFills = 2
    MaxRuns = 2
INVARIANTS NoLostWakeup NextEventAssert EventsDelivered
PROPERTIES EventStable WaitsEnd
CHECK_DEADLOCK FALSE
