---------------------------- MODULE ReadoutParser ----------------------------
(***************************************************************************)
(* The readout parser (mvlc_readout_parser.cc): it turns a possibly lossy  *)
(* sequence of readout buffers into complete events.                       *)
(*                                                                         *)
(* A word is a record: what extract_frame_info() reads from its bits (t,   *)
(* len, cont, stack), and ghost fields that say where it comes from: the   *)
(* event ev, its position pos in that event, the module mod and the part   *)
(* of the module's data.  The parser never looks at the ghost fields.      *)
(* Data words may look like any frame header.  The controller, the network *)
(* and the readout worker in front of the parser are external.  One step   *)
(* of the parser is one pass through a section of the loop of              *)
(* parse_readout_contents().  Counters and log messages are left out.      *)
(***************************************************************************)
EXTENDS Integers, Sequences, SequencesExt, FiniteSets

CONSTANTS
    Stacks,       \* the readout stacks: per stack its groups, per group
                  \*   [mesytec, commands]
    Streams,      \* the sequences of events the controller may send, each
                  \*   event a record [stack, words, good]
    Sources,      \* subset of {"eth", "usb", "replay"}
    U8,           \* 2^8: range of prefixLen and suffixLen
    U16,          \* 2^16: range of FrameParseState::wordsLeft
    PacketMod,    \* 4096: ETH packet numbers
    BufferMod,    \* 2^32: buffer numbers
    PacketSizes,  \* numbers of words in a packet
    MaxItems,     \* bound: packets and system frames in an ETH buffer
    MaxSystem,    \* bound: system frames
    MaxLost,      \* bound: packets lost on the way
    MaxDropped    \* bound: buffers the parser is not given

ASSUME WidthAssumption ==
    /\ U8 \in Nat \ {0} /\ U16 \in Nat \ {0}
    /\ PacketMod \in Nat \ {0} /\ BufferMod \in Nat \ {0}
ASSUME SourceAssumption == Sources \subseteq {"eth", "usb", "replay"}
ASSUME PacketAssumption == PacketSizes \subseteq Nat \ {0}
\* Losing exactly PacketMod packets in a row cannot be noticed.
ASSUME LossAssumption == MaxLost < PacketMod /\ MaxDropped < BufferMod

----------------------------------------------------------------------------
(* The readout structure                                                   *)

\* One iteration of the loop over the commands of a group.  A "custom"
\* command produces cmd.transfers words; accu stands for SetAccu, ReadToAccu
\* and CompareLoopAccu, "none" for commands without output.
ParseCommand(p, cmd) ==
    LET fixed(n) == IF p.state = "Prefix"
                    THEN [p EXCEPT !.prefixLen = (@ + n) % U8]
                    ELSE [p EXCEPT !.suffixLen = (@ + n) % U8, !.state = "Suffix"]
        block == IF p.state = "Prefix"
                 THEN [p EXCEPT !.hasDynamic = TRUE, !.state = "Dynamic", !.accu = FALSE,
                                !.esst = p.mesytec /\ cmd.type = "esst"]
                 ELSE [p EXCEPT !.throws = TRUE]
    IN CASE p.throws                                -> p
         [] cmd.type \in {"marker", "special"}      -> fixed(1)
         [] cmd.type = "read" /\ ~p.accu            -> fixed(1)
         [] cmd.type \in {"read", "block", "esst"}  -> block
         [] cmd.type = "custom"                     -> fixed(cmd.transfers)
         [] cmd.type = "accu"                       -> [p EXCEPT !.accu = TRUE]
         [] cmd.type = "signalAccu"                 -> [p EXCEPT !.accu = FALSE]
         [] cmd.type = "none"                       -> p

parse_module_readout_commands(group) ==
    FoldLeft(ParseCommand,
             [state |-> "Prefix", prefixLen |-> 0, suffixLen |-> 0, hasDynamic |-> FALSE,
              esst |-> FALSE, accu |-> FALSE, throws |-> FALSE, mesytec |-> group.mesytec],
             group.commands)

build_readout_structure ==
    [s \in DOMAIN Stacks |->
        [g \in DOMAIN Stacks[s] |-> parse_module_readout_commands(Stacks[s][g])]]

Structure == build_readout_structure

\* build_readout_structure() throws for groups with a second block read.
ASSUME StructureAssumption ==
    \A s \in DOMAIN Stacks : \A g \in DOMAIN Stacks[s] : ~Structure[s][g].throws

is_empty(m) == m.prefixLen = 0 /\ m.suffixLen = 0 /\ ~m.hasDynamic

----------------------------------------------------------------------------
(* Words                                                                   *)

Parts == {"header", "prefix", "dynamic", "suffix", "fill"}

Word(t, len, cont, stack, mod, part) ==
    [t |-> t, len |-> len, cont |-> cont, stack |-> stack, mod |-> mod, part |-> part]

StackFrame(stack, len) == Word("stack", len, FALSE, stack, 0, "header")
StackContinuation(stack, len) == Word("cont", len, FALSE, stack, 0, "header")
BlockRead(len, cont) == Word("block", len, cont, 0, 0, "header")
Data(mod, part) == Word("data", 0, FALSE, 0, mod, part)
\* 0xffffffff, added by a 2eSST transfer to a mesytec module
Fill(mod) == Word("fill", 0, FALSE, 0, mod, "fill")

\* The system frame the readout worker inserts: header and one word.
SystemEvent == [i \in 1..2 |->
    Word("system", IF i = 1 THEN 1 ELSE 0, FALSE, 0, 0, "header") @@ [ev |-> 0, pos |-> i]]

EventWords(event, n) ==
    [i \in DOMAIN event.words |-> event.words[i] @@ [ev |-> n, pos |-> i]]

IsFrameHeader(w) == w.part = "header" /\ w.t \in {"stack", "cont"}

NoWord == Word("data", 0, FALSE, 0, 0, "header") @@ [ev |-> 0, pos |-> 0]

\* FrameParseState, with the header 0 as the default
FrameParseState(header) == [header |-> header, left |-> header.len]
NoFrame == FrameParseState(NoWord)
IsOpen(frame) == frame.left # 0

Drop(s, n) == SubSeq(s, n + 1, Len(s))

----------------------------------------------------------------------------
VARIABLES
    source,            \* what the buffers come from
    sent,              \* the events the controller sends, in order
    wire,              \* words the controller has yet to send
    packetNumber,      \* of the next packet
    collected,         \* the readout buffer being filled: its items
    bufferNumber,      \* of that buffer
    lost, dropped,     \* packets lost, buffers not given to the parser
    system,            \* system frames inserted
    damaged,           \* events with a word in a lost packet or buffer
    pc,                \* section of the parser's loops
    st,                \* ReadoutParserState: event, module, frames, work buffer
    lastPacketNumber, lastBufferNumber,
    items, input,      \* the rest of the buffer, of the packet being parsed
    lastIterPosition,  \* Len(input) at the beginning of the iteration
    result,            \* ParseResult of the last packet or buffer
    events,            \* the eventData() callbacks
    systemEvents       \* the systemEvent() callbacks, counted

envVars == <<source, sent, wire, packetNumber, collected, bufferNumber,
             lost, dropped, system, damaged>>
parserVars == <<pc, st, lastPacketNumber, lastBufferNumber, items, input,
                lastIterPosition, result, events, systemEvents>>
vars == <<envVars, parserVars>>

NoSpan == [offset |-> 0, size |-> 0]
NoSpans == [prefix |-> NoSpan, dynamic |-> NoSpan, suffix |-> NoSpan]

\* eventIndex and moduleIndex count from 1; 0 is the -1 of the code.
parser_clear_event_state(s) ==
    [s EXCEPT !.eventIndex = 0, !.moduleIndex = 0, !.group = "Prefix",
              !.stackFrame = NoFrame, !.blockFrame = NoFrame]

is_event_in_progress == st.eventIndex # 0
Modules == Structure[st.eventIndex]

Init ==
    /\ source \in Sources
    /\ sent \in Streams
    /\ wire = FlattenSeq([n \in DOMAIN sent |-> EventWords(sent[n], n)])
    /\ collected = <<>>
    /\ packetNumber = 0 /\ bufferNumber = 1
    /\ lost = 0 /\ dropped = 0 /\ system = 0 /\ damaged = {}
    /\ pc = "idle"
    /\ st = [eventIndex |-> 0, moduleIndex |-> 0, group |-> "Prefix",
             stackFrame |-> NoFrame, blockFrame |-> NoFrame, work |-> <<>>, spans |-> <<>>]
    /\ lastPacketNumber = -1 /\ lastBufferNumber = 0
    /\ items = <<>> /\ input = <<>> /\ lastIterPosition = 0
    /\ result = "Ok" /\ events = <<>> /\ systemEvents = 0

----------------------------------------------------------------------------
(* The controller, the network and the readout worker: external.  They act *)
(* while the parser is idle, which it cannot tell from acting earlier: it  *)
(* sees finished buffers only.                                             *)

EventsOf(words) == {words[i].ev : i \in DOMAIN words} \ {0}

\* An ETH packet carries any number of words.  Its nextHeaderPointer is the
\* offset of the first stack frame header in it, -1 if there is none.
Packet(n) ==
    LET words == SubSeq(wire, 1, n)
        headers == {i \in 1..n : IsFrameHeader(words[i])}
    IN [kind |-> "packet", number |-> packetNumber, words |-> words,
        nextHeader |-> IF headers = {} THEN -1 ELSE Min(headers) - 1]

SendPacket(n) ==
    /\ pc = "idle" /\ source = "eth" /\ n <= Len(wire) /\ Len(collected) < MaxItems
    /\ collected' = Append(collected, Packet(n))
    /\ wire' = Drop(wire, n)
    /\ packetNumber' = (packetNumber + 1) % PacketMod
    /\ UNCHANGED <<source, sent, bufferNumber, lost, dropped, system, damaged, parserVars>>

LosePacket(n) ==
    /\ pc = "idle" /\ source = "eth" /\ n <= Len(wire) /\ lost < MaxLost
    /\ lost' = lost + 1
    /\ damaged' = damaged \cup EventsOf(SubSeq(wire, 1, n))
    /\ wire' = Drop(wire, n)
    /\ packetNumber' = (packetNumber + 1) % PacketMod
    /\ UNCHANGED <<source, sent, collected, bufferNumber, dropped, system, parserVars>>

InsertSystemEvent ==
    /\ pc = "idle" /\ source = "eth" /\ system < MaxSystem /\ Len(collected) < MaxItems
    /\ collected' = Append(collected, [kind |-> "system"])
    /\ system' = system + 1
    /\ UNCHANGED <<source, sent, wire, packetNumber, bufferNumber, lost, dropped,
                   damaged, parserVars>>

\* USB buffers are cut between frames.
IsCut(n) == n = Len(wire) \/ (n < Len(wire) /\ IsFrameHeader(wire[n + 1]))

FillUsbBuffer(n) ==
    /\ pc = "idle" /\ source # "eth" /\ collected = <<>> /\ IsCut(n)
    /\ collected' = <<[kind |-> "usb", words |-> SubSeq(wire, 1, n)]>>
    /\ wire' = Drop(wire, n)
    /\ UNCHANGED <<source, sent, packetNumber, bufferNumber, lost, dropped, system,
                   damaged, parserVars>>

\* A buffer with a system frame: the readout worker puts it in front, in a
\* replay it can be between any two frames.
FillUsbBufferSystem(n, at) ==
    /\ pc = "idle" /\ source # "eth" /\ collected = <<>> /\ IsCut(n)
    /\ system < MaxSystem
    /\ at <= n /\ (at = 0 \/ (source = "replay" /\ IsCut(at)))
    /\ collected' = <<[kind |-> "usb", words |->
           SubSeq(wire, 1, at) \o SystemEvent \o SubSeq(wire, at + 1, n)]>>
    /\ wire' = Drop(wire, n)
    /\ system' = system + 1
    /\ UNCHANGED <<source, sent, packetNumber, bufferNumber, lost, dropped, damaged,
                   parserVars>>

NextBuffer == bufferNumber' = (bufferNumber + 1) % BufferMod

\* The event the controller is in the middle of.  It suffers even from the
\* loss of a buffer with none of its words in it.
SplitEvent == IF wire # <<>> /\ wire[1].pos # 1 THEN {wire[1].ev} ELSE {}

\* No snoop buffer is free: the parser does not get this readout buffer.
DropBuffer ==
    /\ pc = "idle" /\ source # "replay" /\ collected # <<>> /\ dropped < MaxDropped
    /\ dropped' = dropped + 1
    /\ damaged' = damaged \cup SplitEvent \cup UNION {EventsOf(collected[i].words) :
                        i \in {j \in DOMAIN collected : collected[j].kind # "system"}}
    /\ collected' = <<>>
    /\ NextBuffer
    /\ UNCHANGED <<source, sent, wire, packetNumber, lost, system, parserVars>>

----------------------------------------------------------------------------
(* parse_readout_buffer(), parse_eth_packet()                              *)

calc_buffer_loss(number, last) ==
    LET diff == (number - last) % BufferMod
    IN IF diff < 1 THEN BufferMod - 1 + diff ELSE diff - 1

\* Mutant: PacketNumberMax taken as the number of packet numbers.
MutCalcPacketLoss(last, number) ==
    LET diff == number - last
    IN IF diff < 1 THEN PacketMod + diff ELSE diff - 1

calc_packet_loss(last, number) ==
    LET diff == number - last
    IN IF diff < 1 THEN PacketMod - 1 + diff ELSE diff - 1

parse_readout_buffer ==
    /\ pc = "idle" /\ collected # <<>>
    /\ IF calc_buffer_loss(bufferNumber, lastBufferNumber) # 0
       THEN /\ st' = parser_clear_event_state(st)
            /\ lastPacketNumber' = IF source = "eth" THEN -1 ELSE lastPacketNumber
       ELSE UNCHANGED <<st, lastPacketNumber>>
    /\ lastBufferNumber' = bufferNumber
    /\ items' = collected /\ collected' = <<>>
    /\ result' = "Ok"
    /\ NextBuffer
    /\ pc' = "item"
    /\ UNCHANGED <<source, sent, wire, packetNumber, lost, dropped, system, damaged,
                   input, lastIterPosition, events, systemEvents>>

parse_readout_buffer_done ==
    /\ pc = "item" /\ items = <<>>
    /\ pc' = "idle"
    /\ UNCHANGED <<envVars, st, lastPacketNumber, lastBufferNumber, items, input,
                   lastIterPosition, result, events, systemEvents>>

parse_readout_buffer_usb ==
    /\ pc = "item" /\ items # <<>> /\ Head(items).kind = "usb"
    /\ input' = Head(items).words
    /\ items' = Tail(items)
    /\ pc' = "frame"
    /\ UNCHANGED <<envVars, st, lastPacketNumber, lastBufferNumber, lastIterPosition,
                   result, events, systemEvents>>

\* The system frames between the packets of an ETH buffer.
try_handle_system_event_eth ==
    /\ pc = "item" /\ items # <<>> /\ Head(items).kind = "system"
    /\ systemEvents' = systemEvents + 1
    /\ items' = Tail(items)
    /\ UNCHANGED <<envVars, pc, st, lastPacketNumber, lastBufferNumber, input,
                   lastIterPosition, result, events>>

\* The first error of a buffer is the one returned.
KeepResult(error) == IF result = "Ok" THEN error ELSE result

\* Mutant: only a jump forward is taken as a loss.
MutPacketLoss(packet) == lastPacketNumber >= 0 /\ packet.number > lastPacketNumber + 1

\* Packets are missing before this one.
PacketLoss(packet) ==
    lastPacketNumber >= 0 /\ calc_packet_loss(lastPacketNumber, packet.number) # 0

\* Mutant: a packet without a header is not skipped.
MutPacketNotSkipped ==
    /\ pc = "item" /\ items # <<>> /\ Head(items).kind = "packet"
    /\ LET packet == Head(items)
           s == IF PacketLoss(packet) THEN parser_clear_event_state(st) ELSE st
       IN /\ lastPacketNumber' = packet.number
          /\ items' = IF s.eventIndex = 0 /\ packet.nextHeader = -1
                      THEN items ELSE Tail(items)
          /\ IF s.eventIndex # 0
             THEN /\ input' = packet.words
                  /\ st' = s /\ pc' = "frame" /\ UNCHANGED result
             ELSE IF packet.nextHeader = -1
             THEN /\ st' = parser_clear_event_state(s)
                  /\ result' = KeepResult("NoHeaderPresent")
                  /\ UNCHANGED <<input, pc>>
             ELSE /\ input' = Drop(packet.words, packet.nextHeader)
                  /\ st' = s /\ pc' = "frame" /\ UNCHANGED result
    /\ UNCHANGED <<envVars, lastBufferNumber, lastIterPosition, events, systemEvents>>

parse_eth_packet ==
    /\ pc = "item" /\ items # <<>> /\ Head(items).kind = "packet"
    /\ LET packet == Head(items)
           s == IF PacketLoss(packet) THEN parser_clear_event_state(st) ELSE st
       IN /\ lastPacketNumber' = packet.number
          /\ items' = Tail(items)
          /\ IF s.eventIndex # 0
             THEN /\ input' = packet.words
                  /\ st' = s /\ pc' = "frame" /\ UNCHANGED result
             ELSE IF packet.nextHeader = -1
             THEN /\ st' = parser_clear_event_state(s)
                  /\ result' = KeepResult("NoHeaderPresent")
                  /\ UNCHANGED <<input, pc>>
             ELSE /\ input' = Drop(packet.words, packet.nextHeader)
                  /\ st' = s /\ pc' = "frame" /\ UNCHANGED result
    /\ UNCHANGED <<envVars, lastBufferNumber, lastIterPosition, events, systemEvents>>

----------------------------------------------------------------------------
(* parse_readout_contents(): finding the stack frame                       *)

\* Mutant: continuation frames are not skipped.
MutFindStackFrame ==
    LET find[i \in 1..(Len(input) + 1)] ==
            IF i > Len(input) THEN 0
            ELSE IF input[i].t = "stack" THEN i
            ELSE 0
    IN find[1]

\* The index of the next StackFrame header in input, 0 if there is none.
find_stack_frame_header ==
    LET find[i \in 1..(Len(input) + 1)] ==
            IF i > Len(input) THEN 0
            ELSE IF input[i].t = "stack" THEN i
            ELSE IF input[i].t # "cont" \/ Len(input) - i + 1 <= input[i].len THEN 0
            ELSE find[i + input[i].len + 1]
    IN find[1]

IsSystemFrame == source # "eth" /\ Head(input).t = "system"

FrameError ==
    IF IsOpen(st.blockFrame) THEN "UnexpectedOpenBlockFrame"
    ELSE IF IsSystemFrame
    THEN IF Len(input) <= Head(input).len THEN "UnexpectedEndOfBuffer" ELSE "Ok"
    ELSE IF is_event_in_progress
    THEN IF Head(input).t # "cont" THEN "NotAStackContinuation"
         ELSE IF Head(input).stack # st.eventIndex THEN "StackIndexChanged"
         ELSE "Ok"
    ELSE LET i == find_stack_frame_header
         IN IF i = 0 THEN "NoStackFrameFound"
            ELSE IF input[i].stack \notin DOMAIN Structure THEN "StackIndexOutOfRange"
            ELSE "Ok"

AtFrame == pc = "frame" /\ input # <<>>

\* An error ends the packet or the USB buffer and the event in progress.
Fails(error) ==
    /\ st' = parser_clear_event_state(st)
    /\ result' = KeepResult(error)
    /\ input' = <<>>
    /\ pc' = "item"
    /\ UNCHANGED <<envVars, lastPacketNumber, lastBufferNumber, items,
                   lastIterPosition, events, systemEvents>>

EndOfInput ==
    /\ pc = "frame" /\ input = <<>>
    /\ pc' = "item"
    /\ UNCHANGED <<envVars, st, lastPacketNumber, lastBufferNumber, items, input,
                   lastIterPosition, result, events, systemEvents>>

OpenStackFrame ==
    /\ AtFrame /\ IsOpen(st.stackFrame)
    /\ lastIterPosition' = Len(input)
    /\ pc' = "part"
    /\ UNCHANGED <<envVars, st, lastPacketNumber, lastBufferNumber, items, input,
                   result, events, systemEvents>>

FrameFails ==
    /\ AtFrame /\ ~IsOpen(st.stackFrame) /\ FrameError # "Ok"
    /\ Fails(FrameError)

try_handle_system_event_usb ==
    /\ AtFrame /\ ~IsOpen(st.stackFrame) /\ FrameError = "Ok" /\ IsSystemFrame
    /\ systemEvents' = systemEvents + 1
    /\ input' = Drop(input, Head(input).len + 1)
    /\ UNCHANGED <<envVars, pc, st, lastPacketNumber, lastBufferNumber, items,
                   lastIterPosition, result, events>>

\* An empty continuation also closes the current block frame.
ContinueStackFrame ==
    /\ AtFrame /\ ~IsOpen(st.stackFrame) /\ FrameError = "Ok"
    /\ ~IsSystemFrame /\ is_event_in_progress
    /\ st' = [st EXCEPT !.stackFrame = FrameParseState(Head(input)),
                        !.blockFrame = IF Head(input).len = 0 THEN NoFrame ELSE @]
    /\ input' = Tail(input)
    /\ lastIterPosition' = Len(input)
    /\ pc' = "part"
    /\ UNCHANGED <<envVars, lastPacketNumber, lastBufferNumber, items, result, events,
                   systemEvents>>

\* Mutant: the header stays in the input.
MutBeginEvent ==
    /\ AtFrame /\ ~IsOpen(st.stackFrame) /\ FrameError = "Ok"
    /\ ~IsSystemFrame /\ ~is_event_in_progress
    /\ LET i == find_stack_frame_header
       IN /\ st' = [eventIndex |-> input[i].stack, moduleIndex |-> 1, group |-> "Prefix",
                    stackFrame |-> FrameParseState(input[i]), blockFrame |-> NoFrame,
                    work |-> <<>>,
                    spans |-> [m \in DOMAIN Structure[input[i].stack] |-> NoSpans]]
          /\ input' = Drop(input, i - 1)
    /\ lastIterPosition' = Len(input)
    /\ pc' = "part"
    /\ UNCHANGED <<envVars, lastPacketNumber, lastBufferNumber, items, result, events,
                   systemEvents>>

parser_begin_event ==
    /\ AtFrame /\ ~IsOpen(st.stackFrame) /\ FrameError = "Ok"
    /\ ~IsSystemFrame /\ ~is_event_in_progress
    /\ LET i == find_stack_frame_header
       IN /\ st' = [eventIndex |-> input[i].stack, moduleIndex |-> 1, group |-> "Prefix",
                    stackFrame |-> FrameParseState(input[i]), blockFrame |-> NoFrame,
                    work |-> <<>>,
                    spans |-> [m \in DOMAIN Structure[input[i].stack] |-> NoSpans]]
          /\ input' = Drop(input, i)
    /\ lastIterPosition' = Len(input)
    /\ pc' = "part"
    /\ UNCHANGED <<envVars, lastPacketNumber, lastBufferNumber, items, result, events,
                   systemEvents>>

----------------------------------------------------------------------------
(* parse_readout_contents(): the parts of a module                         *)

AtPart == pc = "part"
AtGroup(g) ==
    /\ AtPart /\ st.stackFrame.header.len # 0
    /\ st.moduleIndex \in DOMAIN Modules
    /\ ~is_empty(Modules[st.moduleIndex])
    /\ st.group = g

NeedsBlockHeader == IsOpen(st.stackFrame) /\ ~IsOpen(st.blockFrame)

PartError ==
    IF st.stackFrame.header.len = 0 THEN "Ok"
    ELSE IF Modules = <<>> THEN "UnexpectedNonEmptyStackFrame"
    ELSE IF st.moduleIndex \notin DOMAIN Modules THEN "GroupIndexOutOfRange"
    ELSE IF AtGroup("Dynamic") /\ NeedsBlockHeader /\ input # <<>> /\ Head(input).t # "block"
    THEN "NotABlockFrame"
    ELSE "Ok"

PartFails ==
    /\ AtPart /\ PartError # "Ok"
    /\ Fails(PartError)

\* The eventData() callback.  ev is a ghost: the event of the frame header.
EventData(modules) ==
    [ev |-> st.stackFrame.header.ev, stack |-> st.eventIndex, modules |-> modules]

EmptyStackFrame ==
    /\ AtPart /\ st.stackFrame.header.len = 0
    /\ events' = Append(events,
           EventData([m \in DOMAIN Modules |->
                        [prefix |-> <<>>, dynamic |-> <<>>, suffix |-> <<>>]]))
    /\ st' = parser_clear_event_state(st)
    /\ pc' = "frame"
    /\ UNCHANGED <<envVars, lastPacketNumber, lastBufferNumber, items, input,
                   lastIterPosition, result, systemEvents>>

SkipEmptyModule ==
    /\ AtPart /\ st.stackFrame.header.len # 0
    /\ st.moduleIndex \in DOMAIN Modules /\ is_empty(Modules[st.moduleIndex])
    /\ st' = [st EXCEPT !.moduleIndex = @ + 1]
    /\ pc' = "tail"
    /\ UNCHANGED <<envVars, lastPacketNumber, lastBufferNumber, items, input,
                   lastIterPosition, result, events, systemEvents>>

\* Extends a span by n words, remembering the offset of its first word.
Extend(span, n) ==
    [offset |-> IF span.size = 0 THEN Len(st.work) ELSE span.offset, size |-> span.size + n]

\* Mutant: copied words are taken off the stack frame twice.
MutConsume(frame, n) == [frame EXCEPT !.left = (@ - 2 * n) % U16]

\* Words are taken off the unsigned wordsLeft of the stack frame.
Consume(frame, n) == [frame EXCEPT !.left = (@ - n) % U16]

copy_to_workbuffer(s, n) ==
    [s EXCEPT !.work = @ \o SubSeq(input, 1, n), !.stackFrame = Consume(@, n)]

\* One of the fixed size parts: as many words as the part, the stack frame
\* and the input still have.
CopyFixed(part, len) ==
    LET span == st.spans[st.moduleIndex][part]
        n == Min({len - span.size, st.stackFrame.left, Len(input)})
    IN IF span.size < len
       THEN [copy_to_workbuffer(st, n) EXCEPT
                !.spans[st.moduleIndex][part] = Extend(span, n)]
       ELSE st

Copied(s) == Len(s.work) - Len(st.work)

NextModule(s) == [s EXCEPT !.moduleIndex = @ + 1, !.group = "Prefix"]

PrefixPart ==
    /\ AtGroup("Prefix") /\ PartError = "Ok"
    /\ LET module == Modules[st.moduleIndex]
           s == CopyFixed("prefix", module.prefixLen)
           done == s.spans[st.moduleIndex].prefix.size = module.prefixLen
       IN /\ input' = Drop(input, Copied(s))
          /\ IF ~done THEN st' = s /\ pc' = "tail"
             ELSE IF module.hasDynamic THEN st' = [s EXCEPT !.group = "Dynamic"] /\ pc' = "frame"
             ELSE IF module.suffixLen # 0 THEN st' = [s EXCEPT !.group = "Suffix"] /\ pc' = "frame"
             ELSE st' = NextModule(s) /\ pc' = "tail"
    /\ UNCHANGED <<envVars, lastPacketNumber, lastBufferNumber, items, lastIterPosition,
                   result, events, systemEvents>>

\* Trailing fill words of a 2eSST transfer are cut off the dynamic span.
TrimFill(s) ==
    LET span == s.spans[s.moduleIndex].dynamic
        last(i) == s.work[span.offset + span.size - i]
    IN IF /\ Modules[s.moduleIndex].esst
          /\ span.size >= 2 /\ span.size % 4 = 0
          /\ last(0).t = "fill" /\ last(1).t = "fill"
       THEN [s EXCEPT !.spans[s.moduleIndex].dynamic.size = @ - 2]
       ELSE s

\* The next block header is read, if one is due, and the rest of the block
\* is copied as far as the input goes.
DynamicPart ==
    /\ AtGroup("Dynamic") /\ PartError = "Ok"
    /\ ~(NeedsBlockHeader /\ input = <<>>)
    /\ LET module == Modules[st.moduleIndex]
           h == IF NeedsBlockHeader THEN 1 ELSE 0
           block == IF NeedsBlockHeader THEN FrameParseState(Head(input)) ELSE st.blockFrame
           n == Min({block.left, Len(input) - h})
           span == st.spans[st.moduleIndex].dynamic
           s == [st EXCEPT !.stackFrame = Consume(@, h + n),
                           !.blockFrame = [block EXCEPT !.left = @ - n],
                           !.work = @ \o SubSeq(input, h + 1, h + n),
                           !.spans[st.moduleIndex].dynamic = Extend(span, n)]
       IN /\ input' = Drop(input, h + n)
          /\ IF IsOpen(s.blockFrame) \/ block.header.cont THEN st' = s /\ pc' = "tail"
             ELSE IF module.suffixLen = 0 THEN st' = NextModule(TrimFill(s)) /\ pc' = "tail"
             ELSE st' = [TrimFill(s) EXCEPT !.group = "Suffix"] /\ pc' = "frame"
    /\ UNCHANGED <<envVars, lastPacketNumber, lastBufferNumber, items, lastIterPosition,
                   result, events, systemEvents>>

\* The dynamic part has to wait for its block header.
BlockHeaderMissing ==
    /\ AtGroup("Dynamic") /\ NeedsBlockHeader /\ input = <<>>
    /\ pc' = "item"
    /\ UNCHANGED <<envVars, st, lastPacketNumber, lastBufferNumber, items, input,
                   lastIterPosition, result, events, systemEvents>>

SuffixPart ==
    /\ AtGroup("Suffix") /\ PartError = "Ok"
    /\ LET module == Modules[st.moduleIndex]
           s == CopyFixed("suffix", module.suffixLen)
           done == s.spans[st.moduleIndex].suffix.size >= module.suffixLen
       IN /\ input' = Drop(input, Copied(s))
          /\ st' = IF done THEN NextModule(s) ELSE s
    /\ pc' = "tail"
    /\ UNCHANGED <<envVars, lastPacketNumber, lastBufferNumber, items, lastIterPosition,
                   result, events, systemEvents>>

----------------------------------------------------------------------------
(* parse_readout_contents(): the end of an iteration                       *)

\* The first module with data from moduleIndex on, or one past the last.
SkipEmptyModules ==
    Min({m \in st.moduleIndex..Len(Modules) : ~is_empty(Modules[m])} \cup {Len(Modules) + 1})

\* ModuleData: one slice of the work buffer, cut into parts by their sizes
\* (prefix_span(), dynamic_span(), suffix_span()).
ModuleData(spans) ==
    LET start == IF spans.prefix.size # 0 THEN spans.prefix.offset
                 ELSE IF spans.dynamic.size # 0 THEN spans.dynamic.offset
                 ELSE IF spans.suffix.size # 0 THEN spans.suffix.offset
                 ELSE 0
        slice(from, n) == SubSeq(st.work, start + from + 1, start + from + n)
    IN [prefix  |-> slice(0, spans.prefix.size),
        dynamic |-> slice(spans.prefix.size, spans.dynamic.size),
        suffix  |-> slice(spans.prefix.size + spans.dynamic.size, spans.suffix.size)]

Advanced == Len(input) # lastIterPosition

\* After the iteration, unless it has not consumed anything.
NextIteration(s) ==
    IF Advanced
    THEN st' = s /\ pc' = "frame" /\ UNCHANGED <<result, input>>
    ELSE /\ st' = parser_clear_event_state(s)
         /\ result' = KeepResult("ParseReadoutContentsNotAdvancing")
         /\ input' = <<>> /\ pc' = "item"

FlushEvent ==
    /\ pc = "tail" /\ SkipEmptyModules > Len(Modules)
    /\ events' = Append(events,
           EventData([m \in DOMAIN Modules |-> ModuleData(st.spans[m])]))
    /\ NextIteration(parser_clear_event_state(st))
    /\ UNCHANGED <<envVars, lastPacketNumber, lastBufferNumber, items, lastIterPosition,
                   systemEvents>>

EventIncomplete ==
    /\ pc = "tail" /\ SkipEmptyModules <= Len(Modules)
    /\ NextIteration([st EXCEPT !.moduleIndex = SkipEmptyModules])
    /\ UNCHANGED <<envVars, lastPacketNumber, lastBufferNumber, items, lastIterPosition,
                   events, systemEvents>>

----------------------------------------------------------------------------
ParseReadoutContents ==
    \/ EndOfInput \/ OpenStackFrame \/ FrameFails
    \/ try_handle_system_event_usb \/ ContinueStackFrame \/ parser_begin_event
    \/ PartFails \/ EmptyStackFrame \/ SkipEmptyModule
    \/ PrefixPart \/ DynamicPart \/ BlockHeaderMissing \/ SuffixPart
    \/ FlushEvent \/ EventIncomplete

Parser ==
    \/ parse_readout_buffer \/ parse_readout_buffer_done
    \/ parse_readout_buffer_usb \/ try_handle_system_event_eth \/ parse_eth_packet
    \/ ParseReadoutContents

Environment ==
    \/ \E n \in PacketSizes : SendPacket(n) \/ LosePacket(n)
    \/ InsertSystemEvent
    \/ \E n \in 1..Len(wire) : FillUsbBuffer(n)
    \/ \E n \in 0..Len(wire) : \E at \in 0..n : FillUsbBufferSystem(n, at)
    \/ DropBuffer

Next == Environment \/ Parser

\* The parser runs on a thread of its own for as long as there are buffers.
Spec == Init /\ [][Next]_vars /\ WF_vars(Parser)

----------------------------------------------------------------------------
(* Properties                                                              *)

Results ==
    {"Ok", "NoHeaderPresent", "NoStackFrameFound", "NotABlockFrame",
     "NotAStackContinuation", "StackIndexChanged", "StackIndexOutOfRange",
     "GroupIndexOutOfRange", "UnexpectedOpenBlockFrame", "UnexpectedNonEmptyStackFrame",
     "ParseReadoutContentsNotAdvancing", "UnexpectedEndOfBuffer"}

\* The parser's state is that of ReadoutParserState: the indexes are those
\* of an event and a module of the readout structure, a span lies inside the
\* work buffer, and no more words are left in a frame than its header says.
TypeOK ==
    /\ source \in Sources /\ pc \in {"idle", "item", "frame", "part", "tail"}
    /\ packetNumber \in 0..(PacketMod - 1) /\ lastPacketNumber \in -1..(PacketMod - 1)
    /\ bufferNumber \in 0..(BufferMod - 1) /\ lastBufferNumber \in 0..(BufferMod - 1)
    /\ damaged \subseteq DOMAIN sent
    /\ result \in Results
    /\ systemEvents \in 0..MaxSystem
    /\ st.group \in {"Prefix", "Dynamic", "Suffix"}
    /\ st.stackFrame.left \in 0..st.stackFrame.header.len
    /\ st.blockFrame.left \in 0..st.blockFrame.header.len
    /\ st.eventIndex \in {0} \cup DOMAIN Structure
    /\ is_event_in_progress =>
           /\ st.moduleIndex \in 1..(Len(Modules) + 1)
           /\ \A m \in DOMAIN Modules : \A part \in {"prefix", "dynamic", "suffix"} :
                  LET span == st.spans[m][part] IN span.offset + span.size <= Len(st.work)

\* What the modules of event n read out, from the words of the event.
Expected(n) ==
    LET words == EventWords(sent[n], n)
        part(m, p) == SelectSeq(words, LAMBDA w : w.mod = m /\ w.part = p)
    IN [m \in DOMAIN Structure[sent[n].stack] |->
            [prefix  |-> part(m, "prefix"), dynamic |-> part(m, "dynamic"),
             suffix  |-> part(m, "suffix")]]

\* An event that reaches the eventData() callback is one that the controller
\* sent, with every word of every module in its part, in order, and nothing
\* else: wherever packets and buffers are cut, whichever are lost, whatever
\* data words look like, parse_readout_contents() never joins the pieces of
\* two events nor passes on an event with a hole in it.
EventsIntact ==
    \A i \in DOMAIN events :
        LET e == events[i]
        IN /\ e.ev \in DOMAIN sent \ damaged
           /\ sent[e.ev].good
           /\ e.stack = sent[e.ev].stack
           /\ e.modules = Expected(e.ev)

\* The parts of a module, as prefix_span(), dynamic_span() and suffix_span()
\* cut them from ModuleData, hold the words read for that part, also when
\* the fill words of a 2eSST transfer are cut off.  (Fails for a 2eSST read
\* with a suffix: EsstStacks and EsstStreams below.)
PartsIntact ==
    \A i \in DOMAIN events :
        \A m \in DOMAIN events[i].modules : \A part \in {"prefix", "dynamic", "suffix"} :
            LET words == events[i].modules[m][part]
            IN \A k \in DOMAIN words : words[k].mod = m /\ words[k].part = part

\* Events reach the callback in the order they were sent, each at most once,
\* although parse_readout_buffer() may restart in the middle of an event.
DeliveredInOrder ==
    \A i, j \in DOMAIN events : i < j => events[i].ev < events[j].ev

Quiet == pc = "idle" /\ wire = <<>> /\ collected = <<>>

\* Losing packets or buffers costs the events that had words in them and no
\* other: with everything parsed, each undamaged event was delivered, and
\* each system frame of a buffer that was parsed.  (For streams in which
\* every event has the structure of its stack.)
NoCollateralLoss ==
    Quiet /\ (\A n \in DOMAIN sent : sent[n].good) =>
        /\ \A n \in DOMAIN sent \ damaged : \E i \in DOMAIN events : events[i].ev = n
        /\ dropped = 0 => systemEvents = system

\* A parse error is the consequence of a loss or of an event that does not
\* have the structure of its stack: after a loss only the search for the next
\* event may fail, and the internal errors (no progress, an open block frame
\* outside a stack frame, a module index out of range) never occur.
ErrorsExplained ==
    /\ result \in {"NoHeaderPresent", "NoStackFrameFound"} =>
           damaged # {} \/ \E n \in DOMAIN sent : ~sent[n].good
    /\ result \in {"NotABlockFrame", "NotAStackContinuation", "StackIndexOutOfRange",
                   "UnexpectedNonEmptyStackFrame"} =>
           \E n \in DOMAIN sent : ~sent[n].good
    /\ result \notin {"StackIndexChanged", "GroupIndexOutOfRange", "UnexpectedOpenBlockFrame",
                      "ParseReadoutContentsNotAdvancing", "UnexpectedEndOfBuffer"}

\* An open block frame lies inside the open stack frame, so that the unsigned
\* wordsLeft of the stack frame never wraps and the asserted absence of a
\* block frame between stack frames and at the end of an event holds.
BlockInsideStackFrame == st.blockFrame.left <= st.stackFrame.left

\* parse_readout_buffer() returns, whatever the buffer holds.
ParseTerminates == pc # "idle" ~> pc = "idle"

\* The callbacks see the events that the MVLC sent and nothing else: whole, in order,
\* with block reads read inside their stack frame, from packets and from buffers.
EventsParsed == TypeOK /\ EventsIntact /\ DeliveredInOrder /\ BlockInsideStackFrame

\* Damage stays where it is: an event is only missing if its own data was lost or bad,
\* and every counted error has such a cause (packet loss, find_stack_frame_header).
LossContained == NoCollateralLoss /\ ErrorsExplained

-----------------------------------------------------------------------------
(* The instance that is model checked.                                     *)

Cmd(type) == [type |-> type, transfers |-> 0]
Custom(n) == [type |-> "custom", transfers |-> n]
Group(commands) == [mesytec |-> FALSE, commands |-> commands]
MesytecGroup(commands) == [mesytec |-> TRUE, commands |-> commands]

\* Stack 1: prefix, block read and suffix; a module without output; a single
\* read turned into a block by the accumulator.  Stack 2: no modules.
\* Stack 3: an empty module first, then fixed size data only.  Stack 4: 2eSST.
MCStacks ==
    << << Group(<<Cmd("read"), Cmd("block"), Cmd("marker")>>),
          Group(<<Cmd("none")>>),
          Group(<<Cmd("accu"), Cmd("read")>>) >>,
       << >>,
       << Group(<< >>), Group(<<Custom(2)>>) >>,
       << MesytecGroup(<<Cmd("esst")>>) >> >>

Event(stack, words) == [stack |-> stack, words |-> words, good |-> TRUE]
BadEvent(stack, words) == [stack |-> stack, words |-> words, good |-> FALSE]

OneFrame == Event(1,
    <<StackFrame(1, 5), Data(1, "prefix"), BlockRead(1, FALSE), Data(1, "dynamic"),
      Data(1, "suffix"), BlockRead(0, FALSE)>>)

\* Stack frame and block are continued; a data word looks like a header.
TwoFrames == Event(1,
    <<StackFrame(1, 3), Data(1, "prefix"), BlockRead(1, TRUE),
      Word("stack", 2, FALSE, 1, 1, "dynamic"),
      StackContinuation(1, 5), BlockRead(1, FALSE), Data(1, "dynamic"),
      Data(1, "suffix"), BlockRead(1, FALSE), Data(3, "dynamic")>>)

NoModules == Event(2, <<StackFrame(2, 0)>>)
FixedOnly == Event(3, <<StackFrame(3, 2), Data(2, "prefix"), Data(2, "prefix")>>)
Esst == Event(4,
    <<StackFrame(4, 5), BlockRead(4, FALSE), Data(1, "dynamic"), Data(1, "dynamic"),
      Fill(1), Fill(1)>>)

\* A stack that ended early, a word where a block read is expected, a stack
\* the parser does not know, data of a stack without modules.
EndedEarly == BadEvent(1,
    <<StackFrame(1, 3), Data(1, "prefix"), BlockRead(1, FALSE), Data(1, "dynamic")>>)
NoBlock == BadEvent(1, <<StackFrame(1, 2), Data(1, "prefix"), Data(1, "dynamic")>>)
UnknownStack == BadEvent(9, <<StackFrame(9, 1), Data(1, "prefix")>>)
UnexpectedData == BadEvent(2, <<StackFrame(2, 1), Data(1, "prefix")>>)

Bad == {EndedEarly, NoBlock, UnknownStack, UnexpectedData}
MCStreams ==
    {<<OneFrame, TwoFrames>>, <<TwoFrames, OneFrame>>, <<TwoFrames, FixedOnly>>,
     <<FixedOnly, NoModules>>, <<NoModules, Esst>>, <<Esst, FixedOnly>>}
    \cup {<<event, FixedOnly>> : event \in Bad}

\* A 2eSST read followed by a marker.
EsstStacks == << << MesytecGroup(<<Cmd("esst"), Cmd("marker")>>) >> >>
EsstStreams ==
    {<<Event(1, <<StackFrame(1, 6), BlockRead(4, FALSE), Data(1, "dynamic"),
                Data(1, "dynamic"), Fill(1), Fill(1), Data(1, "suffix")>>)>>}

MCPacketSizes == {1, 3, 7}
AllSources == {"eth", "usb", "replay"}
Usb == {"usb"}
=============================================================================
