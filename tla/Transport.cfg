SPECIFICATION TransportSpec
CONSTANTS
    Threshold = 2
    ThrottleRange = 2
    MaxLevel = 5
    MaxEthCalls = 4
    MaxLevelChanges = 2
    PacketNumberMask = 2
    NumPacketChannels = 1
    PayloadSizes = {2}
    RequestSizes = {1, 3}
    MaxPackets = 4
    MaxOnTheWay = 2
    MaxNetFaults = 2
    MaxOpenAttempts = 3
    DisableTriggerRetryCount = 2
    DataCapacity = 2
    UsbReadSizes = {1, 3}
    TransferSizes = {0, 2}
    MaxUsbConnects = 2
    MaxUsbUnits = 4
    Calls = {"readRegister", "writeRegister", "vmeRead", "execStack"}
    Stacks = {1}
    MirrorMaxRetries = 2
    RefModulus = 16
    MaxDialogCalls = 3
    MaxPipeFaults = 2
    MaxNotifications = 1
    Streams <- WordStreams
    ReadSize = 2
    DestSize = 5
    Buses <- Crates
    BaseMax = 4
    MaxStackSizes = {6, 7, 8, 20}
    FrameLength = 2
    MaxAccesses = 2
INVARIANTS LinksSound AccessesTrue
PROPERTIES TransportsSettle
CHECK_DEADLOCK FALSE
