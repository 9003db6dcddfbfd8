---------------------------- MODULE MCTransport ----------------------------
(***************************************************************************)
(* Small instances of the transports: a behaviour is about the connection  *)
(* to an ethernet MVLC, about its packets, about the USB device, about     *)
(* cutting its data into buffers, about the dialog that both use or about   *)
(* accesses to the VME bus.                                                *)
(***************************************************************************)
EXTENDS EthConnection, Sequences

CONSTANTS PacketNumberMask, NumPacketChannels, PayloadSizes, RequestSizes,
          MaxPackets, MaxOnTheWay, MaxNetFaults,
          MaxOpenAttempts, DisableTriggerRetryCount, DataCapacity, UsbReadSizes,
          TransferSizes, MaxUsbConnects, MaxUsbUnits,
          Calls, Stacks, MirrorMaxRetries, RefModulus, MaxDialogCalls,
          MaxPipeFaults, MaxNotifications,
          Streams, ReadSize, DestSize,
          Buses, BaseMax, MaxStackSizes, FrameLength, MaxAccesses

\* Sizes are numbers of words.
ASSUME PacketAssumption ==
    /\ PacketNumberMask \in Nat /\ NumPacketChannels \in Nat \ {0}
    /\ PayloadSizes \subseteq Nat /\ RequestSizes \subseteq Nat
\* What the MVLC sends: the words in the reach of a frame header, and only those,
\* are payload.
StreamWords ==
    [type : {"StackFrame", "StackContinuation", "SystemEvent", "payload", "junk"}, len : Nat]
WellFramed(s) ==
    \A i \in DOMAIN s :
        s[i].type = "payload" <=>
            \E j \in DOMAIN s : j < i /\ i <= j + s[j].len
                /\ s[j].type \in {"StackFrame", "StackContinuation", "SystemEvent"}
ASSUME FramingAssumption ==
    /\ \A s \in Streams : s \in Seq(StreamWords) /\ WellFramed(s)
    /\ ReadSize \in Nat /\ DestSize \in Nat
ASSUME UsbAssumption == UsbReadSizes \subseteq Nat /\ TransferSizes \subseteq Nat

VARIABLES
    part,               \* what this behaviour is about
    packets, sentPackets, sentWords, nextSeq, netFaults, outOfOrder,
    lastPacketNumbers, received, lostPackets, channelOutOfRange,
    receiveBuffer, remaining, arrived, delivered, trueLoss, lastSeq,
    deviceOpen, m_handle, disableTriggersOnConnect, upc, attempt, usbResult,
    connects, daqMode, dataPipe, cmdPipe, pendingWrite, cmdThread, disableTry,
    rCmd, dataThread, rData, readBuffer, usbArrived, usbDelivered,
    requests, pipe, register, stackMemory, pipeFaults, notifications, call, id,
    content, line, request, tries, reading, referenceWord, dest, answer, status,
    last, stackErrors, written,
    stream, loop, fpc, taken, buffer, capacity, transferred, previousData,
    carried, handedOn,
    bus, apc, access, accesses, base, maxStackSize, candidates, scanned, info

EP == INSTANCE EthPackets
US == INSTANCE UsbTransport
DL == INSTANCE Dialog
UF == INSTANCE UsbFraming
VA == INSTANCE VmeAccess

\* A crate with a module of every kind at some places: none, one with ids, an
\* MVHV4, one whose probe register looks like an error word.
Module(fw, hv, high, fifo) ==
    [there |-> TRUE, probe |-> 5, probeHigh |-> high, fwId |-> fw, hwId |-> fw,
     hvFwId |-> hv, hvHwId |-> hv, reg |-> 6, fifo |-> fifo]
EmptySlot == [Module(0, 0, FALSE, <<>>) EXCEPT !.there = FALSE, !.probe = 0, !.reg = 0]
Crates ==
    {[a \in 0..4 |-> CASE a \in s -> Module(3, 0, FALSE, <<1, 2, 3, 4>>)
                       [] a \notin s /\ a = 2 -> Module(0, 7, h, <<>>)
                       [] OTHER -> EmptySlot] :
       s \in {{}, {0}, {0, 4}, {1, 3}, {0, 1, 2, 3, 4}}, h \in BOOLEAN}

\* Frames with 0 to 3 words of payload, words between them that belong to no
\* frame, and a frame that is larger than a buffer.
FrameWords(type, n) == <<[type |-> type, len |-> n]>>
                       \o [i \in 1..n |-> [type |-> "payload", len |-> i]]
JunkWord == <<[type |-> "junk", len |-> 0]>>
WordStreams ==
    {FrameWords("StackFrame", 2) \o FrameWords("StackContinuation", 0)
       \o FrameWords("StackFrame", 3) \o FrameWords("SystemEvent", 1),
     JunkWord \o FrameWords("StackFrame", 1) \o JunkWord \o JunkWord
       \o FrameWords("StackFrame", 2) \o JunkWord,
     FrameWords("StackFrame", 7) \o FrameWords("StackFrame", 2)}

packetVars == <<packets, sentPackets, sentWords, nextSeq, netFaults, outOfOrder,
                lastPacketNumbers, received, lostPackets, channelOutOfRange,
                receiveBuffer, remaining, arrived, delivered, trueLoss, lastSeq>>
usbVars == <<deviceOpen, m_handle, disableTriggersOnConnect, upc, attempt,
             usbResult, connects, daqMode, dataPipe, cmdPipe, pendingWrite,
             cmdThread, disableTry, rCmd, dataThread, rData, readBuffer,
             usbArrived, usbDelivered>>
dialogVars == <<requests, pipe, register, stackMemory, pipeFaults, notifications,
                call, id, content, line, request, tries, reading, referenceWord,
                dest, answer, status, last, stackErrors, written>>
framingVars == <<stream, loop, fpc, taken, buffer, capacity, transferred,
                 previousData, carried, handedOn>>
vmeVars == <<bus, apc, access, accesses, base, maxStackSize, candidates, scanned, info>>
transportVars == <<part, ethVars, packetVars, usbVars, dialogVars, framingVars, vmeVars>>

PlainFraming == stream = (CHOOSE s \in Streams : TRUE) /\ loop = "worker"
PlainVme == bus = CHOOSE b \in Buses : TRUE
PlainUsb == ~disableTriggersOnConnect /\ ~daqMode /\ cmdPipe = <<>>

TransportInit ==
    /\ \/ part \in {"connection", "packets", "dialog", "usb"} /\ PlainFraming /\ PlainVme
       \/ part = "framing" /\ PlainVme
       \/ part = "vme" /\ PlainFraming
    /\ Init /\ EP!Init /\ US!Init /\ DL!Init /\ UF!Init /\ VA!Init
    /\ part = "usb" \/ PlainUsb

\* What the other parts do in a behaviour about one of them: nothing.
OnlyConnection == part = "connection" /\ UNCHANGED
    <<part, packetVars, usbVars, dialogVars, framingVars, vmeVars>>
OnlyPackets    == part = "packets" /\ UNCHANGED
    <<part, ethVars, usbVars, dialogVars, framingVars, vmeVars>>
OnlyUsb        == part = "usb" /\ UNCHANGED
    <<part, ethVars, packetVars, dialogVars, framingVars, vmeVars>>
OnlyDialog     == part = "dialog" /\ UNCHANGED
    <<part, ethVars, packetVars, usbVars, framingVars, vmeVars>>
OnlyFraming    == part = "framing" /\ UNCHANGED
    <<part, ethVars, packetVars, usbVars, dialogVars, vmeVars>>
OnlyVme        == part = "vme" /\ UNCHANGED
    <<part, ethVars, packetVars, usbVars, dialogVars, framingVars>>

TransportNext ==
    \/ OnlyConnection /\ Next
    \/ OnlyPackets /\ EP!Next
    \/ OnlyUsb /\ US!Next
    \/ OnlyDialog /\ DL!Next
    \/ OnlyFraming /\ UF!Next
    \/ OnlyVme /\ VA!Next

TransportSpec ==
    /\ TransportInit /\ [][TransportNext]_transportVars
    /\ WF_transportVars(OnlyConnection /\ Throttler)
    /\ WF_transportVars(OnlyConnection /\ Caller)
    /\ WF_transportVars(OnlyUsb /\ US!Caller)
    /\ WF_transportVars(OnlyUsb /\ US!CmdThread)
    /\ WF_transportVars(OnlyUsb /\ US!ReadData)
    /\ SF_transportVars(OnlyUsb /\ US!Answer)

\* The transports keep what passes through them: no socket, handle or transfer is lost or
\* used after it was closed, every payload word is returned once and in order, and the
\* packets counted as lost are those that are missing (read_packet, read_unbuffered).
LinksSound ==
    /\ TypeOK /\ NoDescriptorLost /\ ThrottlerOwnsSocket
    /\ EP!WordsConserved /\ EP!LossExact
    /\ US!HandleKnown /\ US!TransfersConserved /\ UF!StreamIntact

\* An access that is reported as done was done: a call of the legacy dialog that succeeds
\* returned the answer to its own request and what it wrote was written, with answers lost,
\* late or doubled (check_mirror); the status of a VME access follows from its flags, and a
\* bus scan finds what answers, with stacks that fit (vmeRead, scan_vme_bus_for_candidates).
AccessesTrue ==
    /\ DL!OwnAnswer /\ DL!WriteStands
    /\ VA!AccessTruth /\ VA!ScanExact /\ VA!StackWithinLimit

\* The threads of the transports settle: the throttler follows the fill level of the
\* socket buffer, disconnect() returns, and so does the clean up of a USB connection.
TransportsSettle == ThrottleTracks /\ DisconnectReturns /\ US!CleanupTerminates
=============================================================================
