SPECIFICATION Spec
CONSTANTS
    Stacks <- MCStacks
    Streams <- MCStreams
    Sources <- AllSources
    U8 = 256
    U16 = 65536
    PacketMod = 2
    BufferMod = 2
    PacketSizes <- MCPacketSizes
    MaxItems = 2
    MaxSystem = 1
    MaxLost = 1
    MaxDropped = 1
INVARIANTS EventsParsed LossContained
PROPERTIES ParseTerminates
CHECK_DEADLOCK FALSE
