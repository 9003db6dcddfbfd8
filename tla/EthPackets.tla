---------------------------- MODULE EthPackets ----------------------------
(***************************************************************************)
(* eth::Impl::read() and read_packet() (mvlc_impl_eth.cc): UDP packets are *)
(* lost, duplicated and reordered, some carry padding or declare more      *)
(* words than they hold, and read() cuts their payload into the pieces its *)
(* caller asks for.  Words are numbers in the order the MVLC sends them.   *)
(***************************************************************************)
EXTENDS Integers, Sequences, FiniteSetsExt, SequencesExt

CONSTANTS
    PacketNumberMask,   \* packet numbers are 0..PacketNumberMask
    NumPacketChannels,
    PayloadSizes,
    RequestSizes,       \* sizes the callers of read() ask for
    MaxPackets,         \* bound: packets the MVLC sends
    MaxOnTheWay,        \* bound: packets on the way at a time
    MaxNetFaults        \* bound: lost, duplicated and swapped packets

VARIABLES
    packets,            \* on the way: [channel, number, seq, payload, padding, declared]
    sentPackets, sentWords, nextSeq,
    netFaults, outOfOrder,
    lastPacketNumbers, received, lostPackets,
    channelOutOfRange,      \* statistics
    receiveBuffer, remaining,   \* remaining > 0: read() is in its loop
    arrived, delivered,     \* words of the packets received; given to callers
    trueLoss, lastSeq       \* the packets that did not arrive, by the MVLC's count

packetVars == <<packets, sentPackets, sentWords, nextSeq, netFaults, outOfOrder,
                lastPacketNumbers, received, lostPackets, channelOutOfRange,
                receiveBuffer, remaining, arrived, delivered, trueLoss, lastSeq>>
networkVars == <<packets, sentPackets, sentWords, nextSeq, netFaults, outOfOrder>>
statsVars == <<lastPacketNumbers, received, lostPackets, channelOutOfRange,
               trueLoss, lastSeq>>

Channels == 0..(NumPacketChannels - 1)
AllChannels == 0..NumPacketChannels         \* the last one is out of range
PerChannel(v) == [c \in Channels |-> v]

Init ==
    /\ packets = <<>> /\ sentPackets = 0 /\ sentWords = 0
    /\ nextSeq = [c \in AllChannels |-> 0]
    /\ netFaults = 0 /\ outOfOrder = FALSE
    /\ lastPacketNumbers = PerChannel(-1)
    /\ received = PerChannel(0) /\ lostPackets = PerChannel(0)
    /\ channelOutOfRange = 0
    /\ receiveBuffer = <<>> /\ remaining = 0 /\ arrived = <<>> /\ delivered = <<>>
    /\ trueLoss = PerChannel(0) /\ lastSeq = PerChannel(-1)

-----------------------------------------------------------------------------
\* External: the MVLC sends a packet; the numbers are consecutive by channel.
Send(channel, size, padding, excess) ==
    /\ sentPackets < MaxPackets /\ Len(packets) < MaxOnTheWay
    /\ sentPackets' = sentPackets + 1 /\ sentWords' = sentWords + size
    /\ nextSeq' = [nextSeq EXCEPT ![channel] = @ + 1]
    /\ packets' = Append(packets,
            [channel |-> channel, seq |-> nextSeq[channel],
             number |-> nextSeq[channel] % (PacketNumberMask + 1),
             payload |-> [i \in 1..size |-> sentWords + i],
             padding |-> padding, declared |-> size + excess])
    /\ UNCHANGED <<netFaults, outOfOrder, statsVars, receiveBuffer, remaining,
                   arrived, delivered>>

\* External: the network.
Fault ==
    /\ netFaults < MaxNetFaults /\ packets # <<>>
    /\ netFaults' = netFaults + 1
    /\ \/ packets' = Tail(packets) /\ UNCHANGED outOfOrder
       \/ packets' = <<Head(packets)>> \o packets /\ outOfOrder' = TRUE
       \/ /\ Len(packets) > 1
          /\ packets' = <<packets[2], packets[1]>> \o SubSeq(packets, 3, Len(packets))
          /\ outOfOrder' = TRUE
    /\ UNCHANGED <<sentPackets, sentWords, nextSeq, statsVars, receiveBuffer,
                   remaining, arrived, delivered>>

-----------------------------------------------------------------------------
\* Mutant: a wrap is taken for a gap of one.
Mutcalc_packet_loss(last, number) ==
    IF number - last < 1 THEN PacketNumberMask + 1 + (number - last) ELSE number - last - 1

calc_packet_loss(last, number) ==
    IF number - last < 1 THEN PacketNumberMask + (number - last) ELSE number - last - 1

\* read_packet(): the statistics of a packet.  A packet that declares more
\* words than it holds, or one of an unknown channel, is counted nowhere.
Account(p) ==
    LET c == p.channel IN
    IF p.declared > Len(p.payload) + p.padding THEN UNCHANGED statsVars
    ELSE IF c \notin Channels
    THEN /\ channelOutOfRange' = channelOutOfRange + 1
         /\ UNCHANGED <<lastPacketNumbers, received, lostPackets, trueLoss, lastSeq>>
    ELSE /\ received' = [received EXCEPT ![c] = @ + 1]
         /\ lostPackets' = IF lastPacketNumbers[c] < 0 THEN lostPackets
                           ELSE [lostPackets EXCEPT ![c] =
                                    @ + calc_packet_loss(lastPacketNumbers[c], p.number)]
         /\ lastPacketNumbers' = [lastPacketNumbers EXCEPT ![c] = p.number]
         /\ trueLoss' = IF lastSeq[c] < 0 THEN trueLoss
                        ELSE [trueLoss EXCEPT ![c] = @ + p.seq - lastSeq[c] - 1]
         /\ lastSeq' = [lastSeq EXCEPT ![c] = p.seq]
         /\ UNCHANGED channelOutOfRange

Pad(n) == [i \in 1..n |-> 0]

\* Mutant: the padding some systems leave at the end of a packet is kept.
MutPayload(p) == p.payload \o Pad(p.padding)

\* The packet is cut to the declared words; one that declares too many is
\* used as it is, although read_packet() has an error for it.
Payload(p) ==
    LET words == p.payload \o Pad(p.padding)
    IN  SubSeq(words, 1, Min({Len(words), p.declared}))

copy_and_update(buffer, size) ==
    LET n == Min({Len(buffer), size}) IN
    /\ delivered' = delivered \o SubSeq(buffer, 1, n)
    /\ receiveBuffer' = SubSeq(buffer, n + 1, Len(buffer))

\* read(): what is buffered first, then packets until the size is reached.
Read(size) ==
    /\ remaining = 0
    /\ copy_and_update(receiveBuffer, size)
    /\ remaining' = size - Min({Len(receiveBuffer), size})
    /\ UNCHANGED <<networkVars, statsVars, arrived>>

\* One turn of the loop.  With the total time used up read() returns a timeout
\* and what it has.
ReadPacket ==
    /\ remaining > 0 /\ packets # <<>>
    /\ packets' = Tail(packets)
    /\ Account(Head(packets))
    /\ arrived' = arrived \o Head(packets).payload
    /\ copy_and_update(Payload(Head(packets)), remaining)
    /\ remaining' \in {0, remaining - Min({Len(Payload(Head(packets))), remaining})}
    /\ UNCHANGED <<sentPackets, sentWords, nextSeq, netFaults, outOfOrder>>

\* recvfrom() times out: read() returns with what it has.
ReadTimeout ==
    /\ remaining > 0 /\ packets = <<>>
    /\ remaining' = 0
    /\ UNCHANGED <<networkVars, statsVars, receiveBuffer, arrived, delivered>>

\* disconnect() and connect(): new sockets, new statistics, the old buffer.
Reconnect ==
    /\ remaining = 0 /\ netFaults < MaxNetFaults
    /\ netFaults' = netFaults + 1
    /\ packets' = <<>>
    /\ lastPacketNumbers' = PerChannel(-1) /\ lastSeq' = PerChannel(-1)
    /\ received' = PerChannel(0) /\ lostPackets' = PerChannel(0) /\ trueLoss' = PerChannel(0)
    /\ channelOutOfRange' = 0 /\ outOfOrder' = FALSE
    /\ UNCHANGED <<sentPackets, sentWords, nextSeq, receiveBuffer, remaining,
                   arrived, delivered>>

\* The shapes of packets: as the MVLC means them, padded, cut short, of an
\* unknown channel.
Shapes == {<<c, 0, 0>> : c \in AllChannels} \cup {<<0, 1, 0>>, <<0, 0, 1>>}

Next ==
    \/ \E s \in Shapes, n \in PayloadSizes : Send(s[1], n, s[2], s[3])
    \/ Fault
    \/ \E n \in RequestSizes : Read(n)
    \/ ReadPacket \/ ReadTimeout \/ Reconnect

Spec == Init /\ [][Next]_packetVars

-----------------------------------------------------------------------------
\* However the requests cut the packets, the callers of read() get every word
\* of every packet that arrived, once, in the order of arrival, and none of
\* the padding; the rest is in the buffer (read(), read_packet()).
WordsConserved == delivered \o receiveBuffer = arrived

\* The loss counters are exact over the wrap of the packet numbers as long as
\* the network only loses packets, fewer in a row than there are numbers; a
\* packet that declares too many words counts as lost.
LossExact ==
    ~outOfOrder => \A c \in Channels :
        trueLoss[c] <= PacketNumberMask => lostPackets[c] = trueLoss[c]
=============================================================================
