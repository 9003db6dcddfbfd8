------------------------------ MODULE VmeAccess ------------------------------
(***************************************************************************)
(* Single accesses to the VME bus through an immediate stack (CmdApi in    *)
(* mvlc.cc), the scan of the bus for modules and the identification of     *)
(* what was found (scanbus_support.cc).                                    *)
(*                                                                         *)
(* stackTransaction() is taken as one step that fails or returns the       *)
(* frames of the answer; CmdPipe has its details.  The MVLC and the bus    *)
(* are modelled from what the code expects of them: an access nobody       *)
(* answers gives a word 0xffffffxx and a timeout flag, a block read that   *)
(* finds less than it asked for ends in a bus error, and an answer too     *)
(* long for one frame goes on in continuation frames.                      *)
(***************************************************************************)
EXTENDS Integers, Sequences, SequencesExt, FiniteSets

CONSTANTS
  Buses,              \* functions from base addresses to the modules at them
  BaseMax,            \* the last base address
  MaxStackSizes,      \* words of stack memory a scan may use
  FrameLength,        \* words behind the header of a stack frame
  MaxAccesses         \* bound on the accesses made

VARIABLES
  bus,                \* the modules: their probe register, ids and fifo
  apc,                \* "idle", "scan", "info" or "threw"
  access,             \* history: the last access, its result and its answer
  accesses,           \* accesses made
  base,               \* scan: next base address
  maxStackSize,       \* scan: limit on the stack
  candidates,         \* scan: result
  scanned,            \* a scan has come to its end
  info                \* VMEModuleInfo of the last read_module_info()

accessVars == <<bus, apc, access, accesses, base, maxStackSize, candidates,
                scanned, info>>

NoAccess == [op |-> "none", ec |-> "ok", at |-> 0, wide |-> FALSE, value |-> 0,
             asked |-> 0, dest |-> <<>>, expected |-> <<>>]
NoInfo == [ec |-> "none", at |-> 0, fwId |-> 0, hwId |-> 0]

Bases == 0..BaseMax
ErrorWord == -1       \* 0xffffffxx

(***************************************************************************)
(* The answer of the MVLC                                                  *)
(***************************************************************************)
Header(type, len, flags) == [type |-> type, len |-> len, flags |-> flags]

\* The reference word and the words the stack produced, in one or more frames.
Frames(words, flags) ==
  LET all == <<"marker">> \o words
      n == (Len(all) + FrameLength - 1) \div FrameLength
      Piece(k) == SubSeq(all, (k - 1) * FrameLength + 1,
                         IF k = n THEN Len(all) ELSE k * FrameLength)
  IN [k \in 1..n |-> [header |-> Header(IF k = 1 THEN "StackFrame" ELSE "StackContinuation",
                                        Len(Piece(k)), flags),
                      words |-> Piece(k)]]

MutFlagsResult(flags) ==
  CASE "BusError" \in flags -> "VMEBusError"
    [] "BusError" \notin flags /\ "SyntaxError" \in flags -> "StackSyntaxError"
    [] OTHER -> "ok"

\* frameFlags of the first frame, in the order the code looks at them.
FlagsResult(flags) ==
  CASE "Timeout" \in flags -> "NoVMEResponse"
    [] "Timeout" \notin flags /\ "BusError" \in flags -> "VMEBusError"
    [] flags \cap {"Timeout", "BusError"} = {} /\ "SyntaxError" \in flags
         -> "StackSyntaxError"
    [] OTHER -> "ok"

Init ==
  /\ bus \in Buses /\ apc = "idle" /\ access = NoAccess /\ accesses = 0
  /\ base = 0 /\ maxStackSize = 0 /\ candidates = <<>> /\ scanned = FALSE
  /\ info = NoInfo

scanVars == <<base, maxStackSize, candidates, scanned>>

Begin(op, a) == /\ apc = "idle" /\ accesses < MaxAccesses
                /\ accesses' = accesses + 1
                /\ UNCHANGED <<apc, scanVars, info>>

\* The transaction itself fails: the bus may or may not have been accessed.
TransactionFails(op, a, effect) ==
  /\ Begin(op, a)
  /\ access' = [NoAccess EXCEPT !.op = op, !.at = a, !.ec = "transaction"]
  /\ bus' \in {bus, effect}

\* A register is 16 bits wide; a wide register has more, masked by a D16 read.
Masked(v, wide) == IF wide THEN v ELSE v % 4

\* vmeRead(): the answer has to be header, reference and value.
vmeRead(a, wide) ==
  LET m == bus[a]
      flags == IF m.there THEN {} ELSE {"Timeout"}
  IN /\ Begin("read", a)
     /\ \/ access' = [NoAccess EXCEPT !.op = "read", !.at = a, !.wide = wide,
                        !.ec = FlagsResult(flags),
                        !.value = IF FlagsResult(flags) = "ok"
                                  THEN Masked(IF m.there THEN m.reg ELSE ErrorWord, wide)
                                  ELSE 0]
        \/ \E error \in {"transaction", "UnexpectedResponseSize"} :
             access' = [NoAccess EXCEPT !.op = "read", !.at = a, !.ec = error]
     /\ UNCHANGED bus

\* vmeWrite(): header and reference.
vmeWrite(a, v) ==
  LET m == bus[a]
      done == IF m.there THEN [bus EXCEPT ![a].reg = v] ELSE bus
  IN \/ /\ Begin("write", a)
        /\ access' = [NoAccess EXCEPT !.op = "write", !.at = a, !.value = v,
                        !.ec = FlagsResult(IF m.there THEN {} ELSE {"Timeout"})]
        /\ bus' = done
     \/ TransactionFails("write", a, done)

\* The block read itself; dest is the whole answer, framing included.
BlockRead(a, n) ==
  LET m == bus[a]
      got == SubSeq(m.fifo, 1, IF n < Len(m.fifo) THEN n ELSE Len(m.fifo))
      flags == IF ~m.there THEN {"Timeout"}
               ELSE IF Len(m.fifo) < n THEN {"BusError"} ELSE {}
      done == IF m.there THEN [bus EXCEPT ![a].fifo = SubSeq(@, n + 1, Len(@))] ELSE bus
  IN \/ /\ Begin("block", a) /\ bus' = done
        /\ access' = [NoAccess EXCEPT !.op = "block", !.at = a, !.asked = n,
                        !.ec = FlagsResult(flags), !.dest = Frames(got, flags),
                        !.expected = got]
     \/ TransactionFails("block", a, done)

\* Only vmeBlockRead() looks at the address modifier, before anything is sent.
vmeBlockRead(a, blockMode, n) ==
  \/ blockMode /\ BlockRead(a, n)
  \/ /\ ~blockMode /\ Begin("block", a) /\ UNCHANGED bus
     /\ access' = [NoAccess EXCEPT !.op = "block", !.at = a, !.ec = "NonBlockAddressMode"]

vmeBlockReadSwapped(a, n) == BlockRead(a, n)

(***************************************************************************)
(* scan_vme_bus_for_candidates()                                           *)
(***************************************************************************)
\* get_encoded_stack_size(): StackStart, StackEnd, the marker and two words for
\* every read.
StackSize(reads) == 3 + 2 * reads

\* Reads that are added while the stack is smaller than the limit less two.
MutReadsInStack(limit, left) ==
  CHOOSE k \in 0..left :
    /\ \A j \in 0..(k - 1) : StackSize(j) < limit
    /\ k = left \/ StackSize(k) >= limit
ReadsInStack(limit, left) ==
  CHOOSE k \in 0..left :
    /\ \A j \in 0..(k - 1) : StackSize(j) < limit - 2
    /\ k = left \/ StackSize(k) >= limit - 2

StartScan(limit) ==
  /\ apc = "idle" /\ accesses < MaxAccesses /\ accesses' = accesses + 1
  /\ apc' = "scan" /\ base' = 0 /\ maxStackSize' = limit
  /\ candidates' = <<>> /\ scanned' = FALSE
  /\ UNCHANGED <<bus, access, info>>

ProbeWord(m) == IF ~m.there THEN ErrorWord
                ELSE IF m.probeHigh THEN ErrorWord ELSE m.probe

\* responseContents: the frames without headers and without the reference.
MutResponseContents(frames) ==
  FoldLeft(LAMBDA acc, f : acc \o SubSeq(f.words, 2, Len(f.words)), <<>>, frames)
ResponseContents(frames) ==
  FoldLeft(LAMBDA acc, f : acc \o
    SubSeq(f.words, IF f.header.type = "StackFrame" THEN 2 ELSE 1, f.header.len),
    <<>>, frames)

\* One turn of the loop: a stack with as many probes as fit, executed, its
\* answer taken apart.  A failed transaction or an empty answer throws.
ScanStack ==
  LET k == ReadsInStack(maxStackSize, BaseMax + 1 - base)
      contents == ResponseContents(Frames([i \in 1..k |-> ProbeWord(bus[base + i - 1])], {}))
      hits == SelectSeq([i \in DOMAIN contents |-> <<base + i - 1, contents[i]>>],
                        LAMBDA p : p[2] # ErrorWord)
  IN /\ apc = "scan" /\ base <= BaseMax
     /\ \/ /\ candidates' = candidates \o [i \in DOMAIN hits |-> hits[i][1]]
           /\ base' = base + k
           /\ IF base + k <= BaseMax THEN UNCHANGED <<apc, scanned>>
              ELSE apc' = "idle" /\ scanned' = TRUE
        \/ apc' = "threw" /\ UNCHANGED <<candidates, base, scanned>>
     /\ UNCHANGED <<bus, access, accesses, maxStackSize, info>>

\* read_module_info(): firmware and hardware id, for the MVHV4 from other
\* registers; the first read that fails ends it.
ReadModuleInfo(a) ==
  LET m == bus[a]
      hv == m.fwId = 0 /\ m.hwId = 0
  IN /\ apc = "idle" /\ scanned /\ a \in ToSet(candidates)
     /\ \/ info' = [ec |-> "ok", at |-> a, fwId |-> IF hv THEN m.hvFwId ELSE m.fwId,
                    hwId |-> IF hv THEN m.hvHwId ELSE m.hwId]
        \/ \E reads \in 0..(IF hv THEN 3 ELSE 1) :
             info' = [ec |-> "error", at |-> a,
                      fwId |-> IF reads = 0 THEN info.fwId
                               ELSE IF reads = 3 THEN m.hvFwId ELSE m.fwId,
                      hwId |-> IF reads < 2 THEN info.hwId ELSE m.hwId]
     /\ UNCHANGED <<bus, apc, access, accesses, scanVars>>

Next ==
  \/ \E a \in Bases, wide \in BOOLEAN : vmeRead(a, wide)
  \/ \E a \in Bases, v \in {1, 6} : vmeWrite(a, v)
  \/ \E a \in Bases, blk \in BOOLEAN, n \in {1, 3} : vmeBlockRead(a, blk, n)
  \/ \E a \in Bases, n \in {1, 3} : vmeBlockReadSwapped(a, n)
  \/ \E limit \in MaxStackSizes : StartScan(limit)
  \/ ScanStack
  \/ \E a \in Bases : ReadModuleInfo(a)

Spec == Init /\ [][Next]_accessVars

(***************************************************************************)
(* Properties                                                              *)
(***************************************************************************)
\* An access that reports success was made: a value read is the register's, in
\* the width asked for, a value written is in the register, and a block read
\* returned all the words it asked for (vmeRead, vmeWrite, vmeBlockRead).
AccessTruth ==
  access.ec = "ok" /\ access.op # "none" =>
    /\ bus[access.at].there
    /\ access.op = "read" => access.value = Masked(bus[access.at].reg, access.wide)
    /\ access.op = "write" => bus[access.at].reg = access.value
    /\ access.op = "block" => /\ Len(access.expected) = access.asked
                              /\ FlattenSeq([k \in DOMAIN access.dest |-> access.dest[k].words])
                                   = <<"marker">> \o access.expected

\* A scan finds every module whose probe register does not look like an error
\* word, at its address and in order, whatever the size of the stacks and the
\* frames of the answers (scan_vme_bus_for_candidates).
ScanExact ==
  scanned =>
    candidates = SetToSortSeq({a \in Bases : bus[a].there /\ ~bus[a].probeHigh}, <)

\* A scan never builds a stack larger than it may use, at any limit that lets it
\* add a read at all (scan_vme_bus_for_candidates).
StackWithinLimit ==
  apc = "scan" => StackSize(ReadsInStack(maxStackSize, BaseMax + 1 - base)) <= maxStackSize

=============================================================================
