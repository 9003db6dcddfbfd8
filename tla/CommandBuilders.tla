--------------------------- MODULE CommandBuilders ---------------------------
(***************************************************************************)
(* Building, encoding, decoding and printing MVLC commands                 *)
(* (mvlc_command_builders.cc).                                             *)
(*                                                                         *)
(* A StackCommandBuilder collects commands in named groups.  Its commands  *)
(* become words of stack memory (make_stack_buffer), words become commands *)
(* again (stack_commands_from_buffer), commands become text                *)
(* (to_string) and text becomes commands (stack_command_from_string).  A   *)
(* SuperCommandBuilder does the same for the words of a command buffer.    *)
(*                                                                         *)
(* TLC's integers are too narrow for a u32, so a word is a record of its   *)
(* bits 31..24, 23..16 and 15..0, which are the fields the code cuts out   *)
(* of a stack command.                                                     *)
(***************************************************************************)
EXTENDS Integers, Sequences, SequencesExt, Bitwise

CONSTANTS
  StackInputs,     \* the stack commands callers add
  SuperInputs,     \* the super commands callers add
  GroupNames,      \* names of command groups
  MaxCommands,     \* bound on the commands added to either builder
  MaxGroups        \* bound on the groups begun

VARIABLES
  groups,          \* StackCommandBuilder::m_groups
  added,           \* what callers added, in order, with the group it is for
  super            \* SuperCommandBuilder::m_commands

builderVars == <<groups, added, super>>

Word(hi, mid, lo) == [hi |-> hi, mid |-> mid, lo |-> lo]
Zero == Word(0, 0, 0)

(***************************************************************************)
(* Stack commands                                                          *)
(***************************************************************************)
StackCode == [StackStart |-> 243, StackEnd |-> 244, VMERead |-> 18,
  VMEReadSwapped |-> 19, VMEReadMem |-> 50, VMEReadMemSwapped |-> 51,
  VMEWrite |-> 35, WriteMarker |-> 194, WriteSpecial |-> 193, Wait |-> 196,
  SignalAccu |-> 198, MaskShiftAccu |-> 197, SetAccu |-> 200,
  ReadToAccu |-> 20, CompareLoopAccu |-> 199]

StackCommand == [type |-> "Invalid", address |-> Zero, value |-> Zero,
  amod |-> 0, dataWidth |-> 0, transfers |-> 0, rate |-> 0,
  lateRead |-> FALSE, customValues |-> <<>>]

BltModes == {11, 15, 59, 63}
MbltModes == {8, 12}
Blk2eSST64 == 32

is_blt_mode(amod) == amod % 64 \in BltModes
is_mblt_mode(amod) == amod % 64 \in MbltModes
is_esst64_mode(amod) == amod % 64 = Blk2eSST64
is_block_mode(amod) == amod % 64 \in BltModes \cup MbltModes \cup {Blk2eSST64}

ReadTypes == {"VMERead", "VMEReadSwapped", "VMEReadMem", "VMEReadMemSwapped"}

addVMERead(address, amod, width, late, fifo) ==
  [StackCommand EXCEPT !.type = IF fifo THEN "VMERead" ELSE "VMEReadMem",
     !.address = address, !.amod = amod, !.dataWidth = width, !.lateRead = late]

addVMEBlockRead(address, amod, transfers, fifo) ==
  [StackCommand EXCEPT !.type = IF fifo THEN "VMERead" ELSE "VMEReadMem",
     !.address = address, !.amod = amod, !.transfers = transfers]

\* The 2eSST overload takes the rate instead of the address modifier.
addVMEBlockRead2eSST(address, rate, transfers, fifo) ==
  [addVMEBlockRead(address, Blk2eSST64, transfers, fifo) EXCEPT !.rate = rate]

addVMEBlockReadSwapped(address, amod, transfers, fifo) ==
  [StackCommand EXCEPT
     !.type = IF fifo THEN "VMEReadSwapped" ELSE "VMEReadMemSwapped",
     !.address = address, !.amod = amod, !.transfers = transfers]

addVMEBlockReadSwapped2eSST(address, rate, transfers, fifo) ==
  [addVMEBlockReadSwapped(address, Blk2eSST64, transfers, fifo)
     EXCEPT !.rate = rate]

addVMEWrite(address, value, amod, width) ==
  [StackCommand EXCEPT !.type = "VMEWrite", !.address = address,
     !.value = value, !.amod = amod, !.dataWidth = width]

\* addWriteMarker, addWait, addSignalAccu, addSetAccu, addWriteSpecial and
\* addSoftwareDelay: a type and a value.
addSimple(type, value) == [StackCommand EXCEPT !.type = type, !.value = value]

addMaskShiftAccu(mask, shift) ==
  [StackCommand EXCEPT !.type = "MaskShiftAccu", !.address = mask,
     !.value = Word(0, 0, shift)]

addReadToAccu(address, amod, width, late) ==
  [addVMERead(address, amod, width, late, TRUE) EXCEPT !.type = "ReadToAccu"]

addCompareLoopAccu(comp, value) ==
  [StackCommand EXCEPT !.type = "CompareLoopAccu", !.address = value,
     !.value = Word(0, 0, comp)]

custom(values, outputWords) ==
  [StackCommand EXCEPT !.type = "Custom", !.customValues = values,
     !.transfers = outputWords]

get_encoded_size(type) ==
  CASE type \in {"Invalid", "SoftwareDelay"} -> 0
    [] type \in {"StackStart", "StackEnd", "Wait", "SignalAccu", "Custom",
                 "WriteSpecial"} -> 1
    [] type = "VMEWrite" -> 3
    [] OTHER -> 2

\* One word for a command and its address where there are two.
Mutget_encoded_stack_size(cmds) ==
  2 + FoldLeft(LAMBDA n, c : n + (IF c.type = "SetAccu" THEN 1
                                  ELSE get_encoded_size(c.type)), 0, cmds)

get_encoded_stack_size(cmds) ==
  2 + FoldLeft(LAMBDA n, c : n + get_encoded_size(c.type), 0, cmds)

produces_output(c) ==
  \/ c.type \in ReadTypes \cup {"WriteMarker", "WriteSpecial"}
  \/ c.type = "Custom" /\ c.transfers > 0

(***************************************************************************)
(* The words of one command.  The code throws for a software delay and an  *)
(* invalid command: Encodable leaves those out.                            *)
(***************************************************************************)
Encodable(c) == c.type \notin {"SoftwareDelay", "Invalid"}

SingleReadBits(c) == c.dataWidth + (IF c.lateRead THEN 4 ELSE 0)

\* The rate of a 2eSST read is left out.
MutEncode(c) ==
  LET code == StackCode[c.type] IN
  CASE c.type \in ReadTypes ->
         <<IF is_block_mode(c.amod)
           THEN Word(code, c.amod, c.transfers)
           ELSE Word(code, c.amod, SingleReadBits(c)), c.address>>
    [] c.type = "ReadToAccu" ->
         <<Word(code, c.amod, SingleReadBits(c)), c.address>>
    [] c.type = "VMEWrite" ->
         <<Word(code, c.amod, c.dataWidth), c.address, c.value>>
    [] c.type \in {"WriteMarker", "SetAccu"} -> <<Word(code, 0, 0), c.value>>
    [] c.type \in {"WriteSpecial", "Wait"} -> <<[c.value EXCEPT !.hi = code]>>
    [] c.type \in {"MaskShiftAccu", "CompareLoopAccu"} ->
         <<[c.value EXCEPT !.hi = @ | code], c.address>>
    [] c.type = "Custom" -> c.customValues
    [] OTHER -> <<Word(code, 0, 0)>>

Encode(c) ==
  CASE c.type \in ReadTypes ->
         LET code == StackCode[c.type] IN
         <<IF ~is_block_mode(c.amod)
           THEN Word(code, c.amod, SingleReadBits(c))
           ELSE IF is_esst64_mode(c.amod)
           THEN Word(code, c.amod | (64 * c.rate), c.transfers % 65536)
           ELSE Word(code, c.amod, c.transfers % 65536), c.address>>
    [] c.type = "ReadToAccu" ->
         <<Word(StackCode[c.type], c.amod, SingleReadBits(c)), c.address>>
    [] c.type = "VMEWrite" ->
         <<Word(StackCode[c.type], c.amod, c.dataWidth), c.address, c.value>>
    [] c.type \in {"WriteMarker", "SetAccu"} ->
         <<Word(StackCode[c.type], 0, 0), c.value>>
    [] c.type \in {"WriteSpecial", "Wait"} ->
         <<[c.value EXCEPT !.hi = StackCode[c.type]]>>
    [] c.type \in {"MaskShiftAccu", "CompareLoopAccu"} ->
         <<[c.value EXCEPT !.hi = @ | StackCode[c.type]], c.address>>
    [] c.type = "Custom" -> c.customValues
    [] c.type \in {"StackStart", "StackEnd", "SignalAccu"} ->
         <<Word(StackCode[c.type], 0, 0)>>

make_stack_buffer(cmds) == FlattenSeq([i \in DOMAIN cmds |-> Encode(cmds[i])])

(***************************************************************************)
(* Decoding.  Decode1 is the command that starts with word w; the words    *)
(* that follow it are read if they are there and stay zero if not.  A word *)
(* that is no stack command becomes a custom command of one word.          *)
(***************************************************************************)
is_stack_command(w) == \E t \in DOMAIN StackCode : StackCode[t] = w.hi

TypeOf(w) == CHOOSE t \in DOMAIN StackCode : StackCode[t] = w.hi

Decode1(w, arg) ==
  LET type == TypeOf(w)
      amod == w.mid % 64
      cmd == [StackCommand EXCEPT !.type = type]
  IN
  CASE type \in ReadTypes \cup {"ReadToAccu"} ->
         IF is_esst64_mode(amod)
         THEN [cmd EXCEPT !.amod = amod, !.rate = w.mid \div 64,
                          !.transfers = w.lo, !.address = arg[1]]
         ELSE IF is_block_mode(amod)
         THEN [cmd EXCEPT !.amod = amod, !.transfers = w.lo,
                          !.address = arg[1]]
         ELSE [cmd EXCEPT !.amod = amod, !.dataWidth = w.lo % 4,
                          !.lateRead = (w.lo \div 4) % 2 = 1,
                          !.address = arg[1]]
    [] type = "VMEWrite" ->
         [cmd EXCEPT !.amod = w.mid, !.dataWidth = w.lo % 4,
                     !.address = arg[1], !.value = arg[2]]
    [] type \in {"WriteMarker", "SetAccu"} -> [cmd EXCEPT !.value = arg[1]]
    [] type \in {"WriteSpecial", "Wait"} ->
         [cmd EXCEPT !.value = [w EXCEPT !.hi = 0]]
    [] type = "MaskShiftAccu" ->
         [cmd EXCEPT !.value = [w EXCEPT !.hi = 0], !.address = arg[1]]
    [] type = "CompareLoopAccu" ->
         [cmd EXCEPT !.value = Word(0, 0, w.lo), !.address = arg[1]]
    [] type = "SignalAccu" -> cmd

ArgCount(type) == get_encoded_size(type) - 1

RECURSIVE stack_commands_from_buffer(_)
stack_commands_from_buffer(buffer) ==
  IF buffer = <<>> THEN <<>> ELSE
  LET w == Head(buffer)
      rest(n) == SubSeq(buffer, 2 + n, Len(buffer))
      at(i) == IF i + 1 <= Len(buffer) THEN buffer[i + 1] ELSE Zero
  IN IF ~is_stack_command(w)
     THEN <<custom(<<w>>, 0)>> \o stack_commands_from_buffer(rest(0))
     ELSE IF TypeOf(w) \in {"StackStart", "StackEnd"}
     THEN stack_commands_from_buffer(rest(0))
     ELSE <<Decode1(w, <<at(1), at(2)>>)>>
            \o stack_commands_from_buffer(rest(ArgCount(TypeOf(w))))

(***************************************************************************)
(* Text: a name and its arguments in the order they are printed.           *)
(***************************************************************************)
DataWidths == <<"d16", "d32">>
Comparators == <<"eq", "lt", "gt">>

vme_data_width_from_string(str) == CHOOSE w \in {1, 2} : DataWidths[w] = str

accu_comparator_to_string(value) == Comparators[value.lo + 1]
accu_comparator_from_string(str) ==
  Word(0, 0, CHOOSE i \in 0 .. 2 : Comparators[i + 1] = str)

LateArg(c) == IF c.lateRead THEN <<"late">> ELSE <<>>

Single(name, c) == 
  <<name, c.amod, DataWidths[c.dataWidth], c.address>> \o LateArg(c)

Block(name, c) ==
  <<name, c.amod, c.transfers, c.address>>
    \o (IF is_esst64_mode(c.amod) THEN <<c.rate>> ELSE <<>>)

to_string(c) ==
  LET single == ~is_block_mode(c.amod) IN
  CASE c.type = "VMERead" ->
         IF single THEN Single("vme_read", c) ELSE Block("vme_block_read", c)
    [] c.type = "VMEReadSwapped" ->
         IF single THEN Single("vme_read", c)
         ELSE Block("vme_block_read_swapped", c)
    [] c.type = "VMEReadMem" ->
         IF single THEN Single("vme_read_mem", c)
         ELSE Block("vme_block_read_mem", c)
    [] c.type = "VMEReadMemSwapped" ->
         IF single THEN Single("vme_read", c)
         ELSE Block("vme_block_read_mem_swapped", c)
    [] c.type = "ReadToAccu" -> Single("read_to_accu", c)
    [] c.type = "VMEWrite" ->
         <<"vme_write", c.amod, DataWidths[c.dataWidth], c.address, c.value>>
    [] c.type = "MaskShiftAccu" -> <<"mask_shift_accu", c.address, c.value>>
    [] c.type = "CompareLoopAccu" ->
         <<"compare_loop_accu", accu_comparator_to_string(c.value), c.address>>
    [] c.type = "Custom" -> <<"custom_cmd:", c.transfers, c.customValues>>
    [] c.type \in {"SignalAccu", "StackStart", "StackEnd", "Invalid"} ->
         <<c.type>>
    [] OTHER -> <<c.type, c.value>>

BlockNames == [vme_block_read |-> "VMERead",
  vme_block_read_swapped |-> "VMEReadSwapped",
  vme_block_read_mem |-> "VMEReadMem",
  vme_block_read_mem_swapped |-> "VMEReadMemSwapped"]

SingleNames == [vme_read |-> "VMERead", vme_read_mem |-> "VMEReadMem",
  read_to_accu |-> "ReadToAccu"]

\* The rate of a 2eSST read is not parsed.
Mutstack_command_from_string(s) ==
  LET cmd(type) == [StackCommand EXCEPT !.type = type] IN
  CASE s[1] \in DOMAIN SingleNames ->
         [cmd(SingleNames[s[1]]) EXCEPT !.amod = s[2],
            !.dataWidth = vme_data_width_from_string(s[3]), !.address = s[4], !.lateRead = Len(s) > 4]
    [] s[1] \in DOMAIN BlockNames ->
         [cmd(BlockNames[s[1]]) EXCEPT !.amod = s[2], !.transfers = s[3],
            !.address = s[4]]
    [] s[1] = "vme_write" ->
         [cmd("VMEWrite") EXCEPT !.amod = s[2],
            !.dataWidth = vme_data_width_from_string(s[3]), !.address = s[4], !.value = s[5]]
    [] s[1] = "mask_shift_accu" ->
         [cmd("MaskShiftAccu") EXCEPT !.address = s[2], !.value = s[3]]
    [] s[1] = "compare_loop_accu" ->
         [cmd("CompareLoopAccu") EXCEPT
            !.value = accu_comparator_from_string(s[2]), !.address = s[3]]
    [] s[1] = "custom_cmd:" -> custom(s[3], s[2])
    [] Len(s) = 1 -> cmd(s[1])
    [] OTHER -> addSimple(s[1], s[2])

stack_command_from_string(s) ==
  LET cmd(type) == [StackCommand EXCEPT !.type = type] IN
  CASE s[1] \in DOMAIN SingleNames ->
         [cmd(SingleNames[s[1]]) EXCEPT !.amod = s[2],
            !.dataWidth = vme_data_width_from_string(s[3]), !.address = s[4], !.lateRead = Len(s) > 4]
    [] s[1] \in DOMAIN BlockNames ->
         LET c == [cmd(BlockNames[s[1]]) EXCEPT !.amod = s[2],
                     !.transfers = s[3], !.address = s[4]]
         IN IF is_esst64_mode(c.amod) /\ Len(s) > 4
            THEN [c EXCEPT !.rate = s[5]] ELSE c
    [] s[1] = "vme_write" ->
         [cmd("VMEWrite") EXCEPT !.amod = s[2],
            !.dataWidth = vme_data_width_from_string(s[3]), !.address = s[4], !.value = s[5]]
    [] s[1] = "mask_shift_accu" ->
         [cmd("MaskShiftAccu") EXCEPT !.address = s[2], !.value = s[3]]
    [] s[1] = "compare_loop_accu" ->
         [cmd("CompareLoopAccu") EXCEPT
            !.value = accu_comparator_from_string(s[2]), !.address = s[3]]
    [] s[1] = "custom_cmd:" -> custom(s[3], s[2])
    [] s[1] \in {"SignalAccu", "StackStart", "StackEnd"} -> cmd(s[1])
    [] s[1] \in {"WriteMarker", "WriteSpecial", "Wait", "SetAccu",
                 "SoftwareDelay"} -> addSimple(s[1], s[2])

(***************************************************************************)
(* Super commands.  The command is the upper half word, so hi * 256 + mid. *)
(***************************************************************************)
SuperCode == [CmdBufferStart |-> 61696, CmdBufferEnd |-> 61952,
  ReferenceWord |-> 257, ReadLocal |-> 258, ReadLocalBlock |-> 259,
  WriteLocal |-> 516, WriteReset |-> 518]

SuperWord(type, arg) ==
  Word(SuperCode[type] \div 256, SuperCode[type] % 256, arg)

SuperCommand(type, address, value) ==
  [type |-> type, address |-> address, value |-> value]

get_encoded_super_size(type) ==
  IF type \in {"ReadLocalBlock", "WriteLocal"} THEN 2 ELSE 1

\* The count of a block read is left out.
MutEncodeSuper(c) ==
  CASE c.type = "ReferenceWord" -> <<SuperWord(c.type, c.value.lo)>>
    [] c.type \in {"ReadLocal", "ReadLocalBlock"} ->
         <<SuperWord(c.type, c.address)>>
    [] c.type = "WriteLocal" -> <<SuperWord(c.type, c.address), c.value>>
    [] OTHER -> <<SuperWord(c.type, 0)>>

EncodeSuper(c) ==
  CASE c.type = "ReferenceWord" -> <<SuperWord(c.type, c.value.lo)>>
    [] c.type = "ReadLocal" -> <<SuperWord(c.type, c.address)>>
    [] c.type \in {"ReadLocalBlock", "WriteLocal"} ->
         <<SuperWord(c.type, c.address), c.value>>
    [] OTHER -> <<SuperWord(c.type, 0)>>

make_command_buffer(cmds) ==
  <<SuperWord("CmdBufferStart", 0)>>
    \o FlattenSeq([i \in DOMAIN cmds |-> EncodeSuper(cmds[i])])
    \o <<SuperWord("CmdBufferEnd", 0)>>

\* StackStart with the output pipe, a write per word of the stack, StackEnd.
StackMemoryBegin == 8192
AddressIncrement == 4

make_stack_upload_commands(pipe, offset, buffer) ==
  LET words == <<Word(StackCode["StackStart"], pipe, 0)>> \o buffer
                 \o <<Word(StackCode["StackEnd"], 0, 0)>>
  IN [i \in DOMAIN words |->
        SuperCommand("WriteLocal",
          (StackMemoryBegin + offset + AddressIncrement * (i - 1)) % 65536,
          words[i])]

SuperTypeIs(w, t) == SuperCode[t] = w.hi * 256 + w.mid
is_super_command(w) == \E t \in DOMAIN SuperCode : SuperTypeIs(w, t)

RECURSIVE super_builder_from_buffer(_)
super_builder_from_buffer(buffer) ==
  IF buffer = <<>> \/ ~is_super_command(buffer[1]) THEN <<>> ELSE
  LET w == Head(buffer)
      type == CHOOSE t \in DOMAIN SuperCode : SuperTypeIs(w, t)
      second == IF Len(buffer) > 1 THEN buffer[2] ELSE Zero
      rest == SubSeq(buffer, 1 + get_encoded_super_size(type), Len(buffer))
      decoded ==
        CASE type \in {"CmdBufferStart", "CmdBufferEnd"} -> <<>>
          [] type = "ReferenceWord" ->
               <<SuperCommand(type, 0, Word(0, 0, w.lo))>>
          [] type = "ReadLocal" -> <<SuperCommand(type, w.lo, Zero)>>
          [] type \in {"ReadLocalBlock", "WriteLocal"} ->
               <<SuperCommand(type, w.lo, second)>>
          [] type = "WriteReset" -> <<SuperCommand(type, 0, Zero)>>
  IN decoded \o super_builder_from_buffer(rest)

(***************************************************************************)
(* The builders                                                            *)
(***************************************************************************)
hasOpenGroup == groups # <<>>

getCommands == FlattenSeq([i \in DOMAIN groups |-> groups[i].commands])

\* getGroup(name): the first group of that name, or an empty one.
getGroup(name) ==
  LET found == {i \in DOMAIN groups : groups[i].name = name}
  IN IF found = {} THEN <<>>
     ELSE groups[CHOOSE i \in found : \A j \in found : i <= j].commands

beginGroup(name) ==
  /\ Len(groups) < MaxGroups
  /\ groups' = Append(groups, [name |-> name, commands |-> <<>>])
  /\ UNCHANGED <<added, super>>

addCommand(cmd) ==
  /\ Len(added) < MaxCommands
  /\ LET open == IF hasOpenGroup THEN groups
                 ELSE <<[name |-> "", commands |-> <<>>]>>
     IN groups' = [open EXCEPT ![Len(open)].commands = Append(@, cmd)]
  /\ added' = Append(added, cmd)
  /\ UNCHANGED super

addGroup(name, cmds) ==
  /\ Len(groups) < MaxGroups /\ Len(added) + Len(cmds) <= MaxCommands
  /\ groups' = Append(groups, [name |-> name, commands |-> cmds])
  /\ added' = added \o cmds
  /\ UNCHANGED super

addSuperCommand(cmd) ==
  /\ Len(super) < MaxCommands
  /\ super' = Append(super, cmd)
  /\ UNCHANGED <<groups, added>>

Init == groups = <<>> /\ added = <<>> /\ super = <<>>

BuildStack ==
  \/ \E name \in GroupNames : beginGroup(name)
  \/ \E cmd \in StackInputs : addCommand(cmd)
  \/ \E name \in GroupNames, cmd \in StackInputs : addGroup(name, <<cmd>>)

BuildSuper == \E cmd \in SuperInputs : addSuperCommand(cmd)

-----------------------------------------------------------------------------
(***************************************************************************)
(* Properties                                                              *)
(***************************************************************************)

Encoded == SelectSeq(getCommands, Encodable)

\* What the decoder can return for a custom command: one command per word,
\* with no record of how many words of output it produces.
Decodable(c) ==
  IF c.type = "Custom"
  THEN [i \in DOMAIN c.customValues |-> custom(<<c.customValues[i]>>, 0)]
  ELSE <<c>>

\* Commands leave the builder in the order callers added them, whatever groups
\* they were added to, and decoding the stack buffer of all of them gives each
\* one back: no operand (an address or value that looks like a command, a
\* transfer count, a 2eSST rate, a late read) is taken for something else
\* (StackCommandBuilder::getCommands, make_stack_buffer,
\* stack_commands_from_buffer).
StackRoundTrip ==
  /\ getCommands = added
  /\ stack_commands_from_buffer(make_stack_buffer(Encoded))
       = FlattenSeq([i \in DOMAIN Encoded |-> Decodable(Encoded[i])])

\* The size callers reserve for a stack before they upload it
\* (get_encoded_stack_size, used for the limit in setup_readout_stack and by
\* the stack executor) is the number of words the upload writes, for every
\* stack without custom commands.
SizeReserved ==
  (\A i \in DOMAIN Encoded : Encoded[i].type # "Custom") =>
     get_encoded_stack_size(Encoded)
       = Len(make_stack_upload_commands(1, 512, make_stack_buffer(Encoded)))

\* Printing a command and reading it back (the form in which crate configs and
\* listfile preambles store readout stacks) gives the command: rate, transfer
\* count and late read included.
TextRoundTrip ==
  \A i \in DOMAIN getCommands :
     LET c == getCommands[i] IN stack_command_from_string(to_string(c)) = c

\* A command buffer decodes to the super commands it was made from, even when a
\* value written or a reference looks like the end of the buffer, and it is two
\* words longer than its contents, which is what the dialog's partitioning of an
\* upload relies on (make_command_buffer, super_builder_from_buffer).  The same
\* goes for the commands that upload a stack.
SuperRoundTrip ==
  LET RoundTrip(cmds) ==
        LET buffer == make_command_buffer(cmds) IN
        /\ super_builder_from_buffer(buffer) = cmds
        /\ Len(buffer) = 2 + FoldLeft(
             LAMBDA n, c : n + get_encoded_super_size(c.type), 0, cmds)
  IN /\ RoundTrip(super)
     /\ RoundTrip(make_stack_upload_commands(1, 512,
                    make_stack_buffer(Encoded)))
=============================================================================
