------------------------ MODULE InitReadout_proofs ------------------------
(***************************************************************************)
(* Proof that init_readout() brings any number of stacks of any size into  *)
(* the stack memory, whatever fails and whatever other threads execute, as *)
(* long as it stays within the memory reserved for it.                     *)
(*                                                                         *)
(* The inductive invariant SetupInv says where the stacks before stackId   *)
(* are: whole, above the reserved memory and below uploadOffset (Layout);  *)
(* how much of the current one is there (Partly); that no trigger is set   *)
(* while memory is written (Quiet), and that only whole stacks are         *)
(* triggered afterwards (Live).                                            *)
(***************************************************************************)
EXTENDS InitReadout, TLAPS

Writing == {"cb_modules", "stacks", "upload", "offset", "cb_stacks", "triggers"}
Before  == {"crate_id", "registers", "cb_registers", "trigger_io", "cb_trigger_io", "modules"}
After   == {"cb_triggers", "jumbo"}
Stages  == {"idle", "disable"} \cup Before \cup Writing \cup After

MemoryTypes ==
  /\ DOMAIN mem = 0 .. (MemWords - 1)
  /\ offsets \in [ReadoutStacks -> Nat] /\ triggers \in [ReadoutStacks -> BOOLEAN]
LoopTypes ==
  /\ ipc \in Stages /\ config \in Seq(Nat) /\ inits \in Nat
  /\ overrun \in BOOLEAN /\ stackId \in Nat \ {0} /\ uploadOffset \in Nat /\ partIter \in Nat

\* Stack i has its place at a, above the memory reserved for immediate stacks, and
\* is there from its start word to its end word unless one was too long.
Whole(i, a) ==
  /\ a >= ReservedWords + 2 /\ a + config[i] + 1 < MemWords
  /\ ~overrun => /\ mem[a] = StartWord(inits, i)
                 /\ \A k \in 1 .. config[i] : mem[a + k] = CmdWord(inits, i, k)
                 /\ mem[a + config[i] + 1] = EndWord(inits, i)

\* The stacks before the current one are whole and below it.
Layout ==
  ipc \in Writing =>
    /\ uploadOffset >= ReservedWords + 2
    /\ stackId <= Len(config) + 1
    /\ \A j \in 1 .. Len(config) : j < stackId =>
         /\ j < StackCount
         /\ config[j] > 0 => Whole(j, offsets[j]) /\ offsets[j] + config[j] + 1 < uploadOffset

\* The parts of the current stack that were uploaded are there.
Partly ==
  /\ ipc \in {"upload", "offset"} => stackId <= Len(config) /\ stackId < StackCount
  /\ ipc = "upload" => /\ partIter < Size
                       /\ partIter > 0 => \A k \in 0 .. partIter :
                            /\ uploadOffset + k < MemWords
                            /\ mem[uploadOffset + k] = StackWord(k)
  /\ ipc = "offset" /\ Size > 0 => Whole(stackId, uploadOffset)
  /\ ipc \in {"cb_stacks", "triggers"} => stackId > Len(config)

\* No trigger is set while the stacks are written.
Quiet == ipc \in Before \cup Writing => \A i \in ReadoutStacks : ~triggers[i]

\* Afterwards only stacks of the config are triggered, and those are whole.
Live ==
  ipc \in {"idle"} \cup After /\ "disable" \notin failed =>
    \A i \in ReadoutStacks :
       triggers[i] => i <= Len(config) /\ (config[i] > 0 => Whole(i, offsets[i]))

\* Errors that do not end the call are those of the registers, the modules and the
\* callbacks.
Failures ==
  /\ ipc = "disable" => failed = {}
  /\ ipc \in Before \cup Writing \cup After => failed \subseteq Hidden
  /\ ipc \in After => \A i \in ReadoutStacks : triggers[i] <=> i <= Len(config)

SetupInv ==
  /\ MemoryTypes /\ LoopTypes /\ Layout /\ Partly /\ Quiet /\ Live /\ Failures
  /\ SuccessMeansConfigured /\ NoReadoutDuringInit

USE DEF Writing, Before, After, Stages

\* The callbacks of the five stages.
LEMMA CallbackNames ==
  /\ Callbacks = {"cb_registers", "cb_trigger_io", "cb_modules", "cb_stacks", "cb_triggers"}
  /\ AfterCallback["cb_registers"] = "trigger_io" /\ AfterCallback["cb_trigger_io"] = "modules"
  /\ AfterCallback["cb_modules"] = "stacks" /\ AfterCallback["cb_stacks"] = "triggers"
  /\ AfterCallback["cb_triggers"] = "jumbo"
BY DEF Callbacks, AfterCallback

\* The application starts with a controller that has no triggers set.
LEMMA InitSetup == SetupInit => SetupInv
<1> SUFFICES ASSUME SetupInit PROVE SetupInv
  OBVIOUS
<1>0. overrun \in BOOLEAN
  BY Zenon DEF SetupInit
<1>1. MemoryTypes /\ LoopTypes
  BY <1>0, ConfigAssumption DEF SetupInit, InitMem, MemoryTypes, LoopTypes
<1>2. Layout /\ Partly /\ Quiet /\ Live /\ Failures
  BY DEF SetupInit, Layout, Partly, Quiet, Live, Failures
<1>3. SuccessMeansConfigured /\ NoReadoutDuringInit
  BY DEF SetupInit, SuccessMeansConfigured, NoReadoutDuringInit
<1> QED BY <1>1, <1>2, <1>3 DEF SetupInv

-----------------------------------------------------------------------------
(* What the steps do to the memory                                         *)

\* A stack stays whole while nothing is written above the reserved memory.
LEMMA WholeKept ==
  ASSUME MemoryTypes, NEW i \in Nat, NEW a \in Nat, config[i] \in Nat, Whole(i, a),
         config' = config, inits' = inits, ~overrun' => ~overrun,
         ~overrun' => \A b \in DOMAIN mem :
                        b >= ReservedWords + 2 /\ b <= a + config[i] + 1 => mem'[b] = mem[b]
  PROVE  Whole(i, a)'
<1>0. CASE overrun'
  BY <1>0 DEF Whole
<1> SUFFICES ASSUME ~overrun' PROVE Whole(i, a)'
  BY <1>0
<1>1. \A k \in 0 .. config[i] + 1 : a + k \in DOMAIN mem /\ a + k >= ReservedWords + 2
                                    /\ a + k <= a + config[i] + 1
  BY MemoryAssumption DEF Whole, MemoryTypes
<1>2. \A k \in 0 .. config[i] + 1 : mem'[a + k] = mem[a + k]
  BY <1>1
<1>3. mem'[a] = mem[a] /\ mem'[a + config[i] + 1] = mem[a + config[i] + 1]
  <2>1. mem'[a + 0] = mem[a + 0] /\ mem'[a + (config[i] + 1)] = mem[a + (config[i] + 1)]
    BY <1>2
  <2>2. a + 0 = a /\ a + (config[i] + 1) = a + config[i] + 1
    OBVIOUS
  <2> QED BY <2>1, <2>2
<1>4. \A k \in 1 .. config[i] : mem'[a + k] = mem[a + k]
  BY <1>2
<1> QED BY <1>3, <1>4 DEF Whole

\* A VME command writes to the reserved memory only, or counts as an overrun.
LEMMA CommandsBelow ==
  ASSUME MemoryTypes, LoopTypes, RunCommands
  PROVE  /\ DOMAIN mem' = DOMAIN mem
         /\ ~overrun' => ~overrun /\ \A b \in DOMAIN mem : b >= ReservedWords + 2 => mem'[b] = mem[b]
         /\ overrun' \in BOOLEAN
         /\ UNCHANGED <<offsets, triggers, daqMode>>
<1>1. CASE UNCHANGED <<mem, overrun>>
  BY <1>1 DEF RunCommands, LoopTypes
<1>2. CASE ~UNCHANGED <<mem, overrun>>
  <2>0. PICK n \in ImmediateSizes : \E k \in LastWords(n) :
          ImmediateStack(n, k) /\ overrun' = (overrun \/ k > ReservedWords)
    BY <1>2 DEF RunCommands
  <2>1. PICK k \in LastWords(n) :
          ImmediateStack(n, k) /\ overrun' = (overrun \/ k > ReservedWords)
    BY <2>0
  <2>2. n \in Nat /\ k \in Nat
    BY MemoryAssumption DEF LastWords
  <2>3. DOMAIN mem' = DOMAIN mem
    BY <2>1 DEF ImmediateStack
  <2>4. ASSUME ~overrun', NEW b \in DOMAIN mem, b >= ReservedWords + 2 PROVE mem'[b] = mem[b]
    <3>0. ~(k > ReservedWords)
      BY ONLY <2>1, <2>4, Zenon
    <3>1. k <= ReservedWords /\ b \in Int
      BY <2>2, <3>0, MemoryAssumption DEF MemoryTypes
    <3>2. b \notin ImmediateStart .. (ImmediateStart + k)
      BY <2>2, <2>4, <3>1, MemoryAssumption DEF ImmediateStart
    <3> QED BY <2>1, <3>2 DEF ImmediateStack
  <2> QED BY <2>1, <2>3, <2>4 DEF RunCommands
<1> QED BY <1>1, <1>2

\* A part that is uploaded is above the stacks before.
LEMMA PartFacts ==
  ASSUME MemoryTypes, LoopTypes, Partly, ipc = "upload"
  PROVE  /\ Size \in Nat /\ PartSize \in Nat \ {0} /\ partIter + PartSize <= Size
         /\ FirstWord \in Nat /\ LastWord \in Nat /\ FirstWord <= LastWord
         /\ LastWord = IF partIter + PartSize = Size THEN Size + 1 ELSE partIter + PartSize
         /\ FirstWord = IF partIter = 0 THEN 0 ELSE partIter + 1
         /\ partIter < Size
<1>1. stackId \in 1 .. Len(config) /\ Len(config) \in Nat
  BY DEF LoopTypes, Partly
<1>2. Size \in Nat
  BY <1>1 DEF LoopTypes, Size
<1>3. partIter \in Nat /\ partIter < Size
  BY DEF LoopTypes, Partly
<1>4. PartSize \in Nat \ {0} /\ partIter + PartSize <= Size
  BY <1>2, <1>3, MemoryAssumption DEF PartSize
<1> QED BY <1>2, <1>3, <1>4 DEF FirstWord, LastWord

\* Below uploadOffset nothing is written; the part has its words.
LEMMA PartStored ==
  ASSUME MemoryTypes, LoopTypes, Partly, ipc = "upload", uploadOffset + LastWord < MemWords
  PROVE  /\ DOMAIN PartWritten = DOMAIN mem
         /\ \A b \in DOMAIN mem : b < uploadOffset => PartWritten[b] = mem[b]
         /\ \A k \in Nat : k < FirstWord => PartWritten[uploadOffset + k] = mem[uploadOffset + k]
                              \/ uploadOffset + k \notin DOMAIN mem
         /\ \A k \in FirstWord .. LastWord :
              uploadOffset + k \in DOMAIN mem /\ PartWritten[uploadOffset + k] = StackWord(k)
<1>1. FirstWord \in Nat /\ LastWord \in Nat /\ uploadOffset \in Nat /\ MemWords \in Nat
  BY PartFacts, MemoryAssumption DEF LoopTypes
<1>2. \A b \in DOMAIN mem : b \in Int
  BY DEF MemoryTypes
<1>3. \A b \in DOMAIN mem : b < uploadOffset => b - uploadOffset \notin FirstWord .. LastWord
  BY <1>1, <1>2
<1>4. \A b \in DOMAIN mem : PartWritten[b] = IF b - uploadOffset \in FirstWord .. LastWord
                                             THEN StackWord(b - uploadOffset) ELSE mem[b]
  BY DEF PartWritten
<1>5. \A k \in Nat : (uploadOffset + k) - uploadOffset = k
  BY <1>1
<1>6. ASSUME NEW k \in FirstWord .. LastWord
      PROVE  uploadOffset + k \in DOMAIN mem /\ PartWritten[uploadOffset + k] = StackWord(k)
  <2>1. k \in Nat /\ uploadOffset + k \in DOMAIN mem
    BY <1>1 DEF MemoryTypes
  <2>2. (uploadOffset + k) - uploadOffset = k
    BY <1>5, <2>1
  <2>3. PartWritten[uploadOffset + k] = StackWord((uploadOffset + k) - uploadOffset)
    BY <1>4, <2>1, <2>2
  <2> QED BY <2>1, <2>2, <2>3
<1>7. ASSUME NEW k \in Nat, k < FirstWord, uploadOffset + k \in DOMAIN mem
      PROVE  PartWritten[uploadOffset + k] = mem[uploadOffset + k]
  <2>1. (uploadOffset + k) - uploadOffset \notin FirstWord .. LastWord
    BY <1>1, <1>7
  <2> QED BY <1>4, <1>7, <2>1
<1>8. DOMAIN PartWritten = DOMAIN mem
  BY DEF PartWritten
<1> QED BY <1>3, <1>4, <1>6, <1>7, <1>8

-----------------------------------------------------------------------------
(* The steps                                                               *)

\* Outside setup_readout_stacks() the layout says nothing.
LEMMA Unwritten == ASSUME ipc' \in Stages \ Writing PROVE Layout' /\ Partly'
BY DEF Layout, Partly

Rest == Quiet /\ Live /\ Failures /\ SuccessMeansConfigured /\ NoReadoutDuringInit

\* A stage before the triggers are set fails and ends the call: nothing is triggered.
LEMMA Ended ==
  ASSUME SetupInv, ipc \in Before \cup Writing, ipc' = "idle", ec' # "none",
         triggers' = triggers, daqMode' = daqMode
  PROVE  Layout' /\ Partly' /\ Rest'
<1>1. \A i \in ReadoutStacks : ~triggers'[i]
  BY DEF SetupInv, Quiet
<1>2. Live'
  BY <1>1 DEF Live
<1>3. Quiet' /\ Failures' /\ SuccessMeansConfigured' /\ NoReadoutDuringInit'
  BY DEF Quiet, Failures, SuccessMeansConfigured, NoReadoutDuringInit
<1> QED BY <1>2, <1>3, Unwritten DEF Rest

\* A stage before the triggers are set is followed by another one.
LEMMA Forward ==
  ASSUME SetupInv, ipc \in Before \cup Writing, ipc' \in Before \cup Writing,
         triggers' = triggers, daqMode' = daqMode,
         failed' \subseteq failed \cup Hidden
  PROVE  Rest'
<1>1. Quiet' /\ Live'
  BY DEF SetupInv, Quiet, Live
<1>2. Failures'
  BY DEF SetupInv, Failures
<1>3. SuccessMeansConfigured' /\ NoReadoutDuringInit'
  BY DEF SetupInv, SuccessMeansConfigured, NoReadoutDuringInit
<1> QED BY <1>1, <1>2, <1>3 DEF Rest

\* The calls before the stacks are uploaded.
LEMMA EarlyStep ==
  ASSUME SetupInv, \/ \E c \in Configs : StartInit(c)
                   \/ enable_daq_mode \/ disable_daq_mode_and_triggers \/ set_crate_id
                   \/ init_registers \/ init_trigger_io
  PROVE  SetupInv'
<1> USE DEF SetupInv
<1>1. CASE \E c \in Configs : StartInit(c)
  <2> PICK c \in Configs : StartInit(c)
    BY <1>1
  <2>1. /\ ipc = "idle" /\ ipc' = "disable" /\ config' = c /\ inits' = inits + 1
        /\ failed' = {} /\ ec' = "none"
        /\ UNCHANGED <<mem, offsets, triggers, daqMode, stackId, uploadOffset, partIter, overrun>>
    BY DEF StartInit, mvlcVars
  <2>2. MemoryTypes' /\ LoopTypes'
    BY <2>1, ConfigAssumption DEF MemoryTypes, LoopTypes
  <2>3. Rest'
    BY <2>1 DEF Rest, Quiet, Live, Failures, SuccessMeansConfigured, NoReadoutDuringInit
  <2> QED BY <2>1, <2>2, <2>3, Unwritten DEF Rest
<1>2. CASE enable_daq_mode
  <2>1. /\ ipc = "idle" /\ ipc' = "idle"
        /\ UNCHANGED <<mem, offsets, triggers, loopVars, ec, failed, inits, overrun>>
    BY <1>2 DEF enable_daq_mode
  <2>2. MemoryTypes' /\ LoopTypes'
    BY <2>1 DEF MemoryTypes, LoopTypes, loopVars
  <2>3. Live'
    BY <2>1 DEF Live, Whole, loopVars
  <2>4. Quiet' /\ Failures' /\ SuccessMeansConfigured' /\ NoReadoutDuringInit'
    BY <2>1 DEF Quiet, Failures, SuccessMeansConfigured, NoReadoutDuringInit, loopVars
  <2> QED BY <2>1, <2>2, <2>3, <2>4, Unwritten
<1>3. CASE disable_daq_mode_and_triggers
  <2>1. /\ ipc = "disable" /\ UNCHANGED <<mem, offsets, loopVars, inits, overrun>>
        /\ \/ /\ ipc' = "crate_id" /\ daqMode' = FALSE /\ failed' = failed
              /\ triggers' = [i \in ReadoutStacks |-> FALSE]
           \/ /\ ipc' = "idle" /\ ec' = "disable" /\ failed' = failed \cup {"disable"}
              /\ triggers' \in {triggers, [i \in ReadoutStacks |-> FALSE]}
    BY <1>3 DEF disable_daq_mode_and_triggers, FatalStage, Fault, NoFault, Return, mvlcVars
  <2>2. MemoryTypes' /\ LoopTypes'
    BY <2>1 DEF MemoryTypes, LoopTypes, loopVars
  <2>3. Rest'
    BY <2>1 DEF Rest, Quiet, Live, Failures, SuccessMeansConfigured, NoReadoutDuringInit
  <2> QED BY <2>1, <2>2, <2>3, Unwritten DEF Rest
<1>4. CASE set_crate_id \/ init_registers
  <2>1. /\ ipc \in Before
        /\ UNCHANGED <<mem, offsets, triggers, daqMode, loopVars, inits, overrun>>
        /\ \/ ipc' \in Before /\ failed' \in {failed, failed \cup {"registers"}}
           \/ ipc' = "idle" /\ ec' # "none"
    BY <1>4 DEF set_crate_id, init_registers, FatalStage, Fault, NoFault, Return, mvlcVars
  <2>2. MemoryTypes' /\ LoopTypes'
    BY <2>1 DEF MemoryTypes, LoopTypes, loopVars
  <2>3. CASE ipc' \in Before /\ failed' \in {failed, failed \cup {"registers"}}
    BY <2>1, <2>2, <2>3, Forward, Unwritten DEF Rest, Hidden
  <2>4. CASE ipc' = "idle" /\ ec' # "none"
    BY <2>1, <2>2, <2>4, Ended DEF Rest
  <2> QED BY <2>1, <2>3, <2>4
<1>5. CASE init_trigger_io
  <2>1. /\ ipc = "trigger_io" /\ (RunCommands \/ UNCHANGED <<mvlcVars, overrun>>)
        /\ UNCHANGED <<loopVars, inits>>
        /\ \/ ipc' = "cb_trigger_io" /\ failed' = failed
           \/ ipc' = "idle" /\ ec' # "none"
    BY <1>5 DEF init_trigger_io, FatalStage, Fault, NoFault, Return
  <2>2. /\ DOMAIN mem' = DOMAIN mem /\ overrun' \in BOOLEAN
        /\ UNCHANGED <<offsets, triggers, daqMode>>
    BY <2>1, CommandsBelow DEF mvlcVars, LoopTypes
  <2>3. MemoryTypes' /\ LoopTypes'
    BY <2>1, <2>2 DEF MemoryTypes, LoopTypes, loopVars
  <2>4. CASE ipc' = "cb_trigger_io" /\ failed' = failed
    BY <2>1, <2>2, <2>3, <2>4, Forward, Unwritten DEF Rest
  <2>5. CASE ipc' = "idle" /\ ec' # "none"
    BY <2>1, <2>2, <2>3, <2>5, Ended DEF Rest
  <2> QED BY <2>1, <2>4, <2>5
<1> QED BY <1>1, <1>2, <1>3, <1>4, <1>5

\* The modules are initialised, and the loop over the stacks starts.
LEMMA ModulesStep == ASSUME SetupInv, init_modules PROVE SetupInv'
<1>1. /\ ipc = "modules" /\ stackId' = 1 /\ uploadOffset' = ImmediateStart + ReservedWords + 1
      /\ partIter' = 0 /\ RunCommands /\ UNCHANGED <<config, inits>>
      /\ \/ ipc' = "cb_modules" /\ failed' \in {failed, failed \cup {"modules"}}
         \/ ipc' = "idle" /\ ec' # "none"
  BY DEF init_modules, Fault, NoFault
<1>2. /\ DOMAIN mem' = DOMAIN mem /\ overrun' \in BOOLEAN
      /\ UNCHANGED <<offsets, triggers, daqMode>>
  BY <1>1, CommandsBelow DEF SetupInv
<1>3. MemoryTypes' /\ LoopTypes' /\ uploadOffset' = ReservedWords + 2
  BY <1>1, <1>2, MemoryAssumption DEF SetupInv, MemoryTypes, LoopTypes, ImmediateStart
<1>4. CASE ipc' = "cb_modules" /\ failed' \in {failed, failed \cup {"modules"}}
  <2>1. Rest'
    BY <1>1, <1>2, <1>4, Forward DEF Hidden
  <2>2. Len(config') \in Nat
    BY <1>3 DEF LoopTypes
  <2>3. Layout' /\ Partly'
    BY <1>1, <1>3, <1>4, <2>2, MemoryAssumption DEF Layout, Partly
  <2> QED BY <1>3, <2>1, <2>3 DEF SetupInv, Rest
<1>5. CASE ipc' = "idle" /\ ec' # "none"
  BY <1>1, <1>2, <1>3, <1>5, Ended DEF SetupInv, Rest
<1> QED BY <1>1, <1>4, <1>5

\* The stacks before the current one stay whole when nothing below uploadOffset
\* and above the reserved memory changes.
LEMMA LowerKept ==
  ASSUME SetupInv, ipc \in Writing, UNCHANGED <<offsets, config, inits>>,
         stackId > 1 /\ ~overrun' =>
           /\ ~overrun
           /\ \A b \in DOMAIN mem : b >= ReservedWords + 2 /\ b < uploadOffset => mem'[b] = mem[b]
  PROVE  \A j \in 1 .. Len(config) : j < stackId =>
           /\ j < StackCount
           /\ config[j] > 0 => Whole(j, offsets[j])' /\ offsets[j] + config[j] + 1 < uploadOffset
<1> SUFFICES ASSUME NEW j \in 1 .. Len(config), j < stackId
             PROVE  /\ j < StackCount
                    /\ config[j] > 0 => /\ Whole(j, offsets[j])'
                                        /\ offsets[j] + config[j] + 1 < uploadOffset
  OBVIOUS
<1>1. /\ j < StackCount
      /\ config[j] > 0 => Whole(j, offsets[j]) /\ offsets[j] + config[j] + 1 < uploadOffset
  BY DEF SetupInv, Layout
<1>2. j \in Nat /\ config[j] \in Nat /\ j \in ReadoutStacks
  BY <1>1, ConfigAssumption DEF SetupInv, LoopTypes, ReadoutStacks
<1>3. offsets[j] \in Nat /\ uploadOffset \in Nat
  BY <1>2 DEF SetupInv, MemoryTypes, LoopTypes
<1>4. CASE config[j] > 0
  <2>0. stackId > 1
    BY <1>2 DEF SetupInv, LoopTypes
  <2>1. ~overrun' =>
          \A b \in DOMAIN mem : b >= ReservedWords + 2 /\ b <= offsets[j] + config[j] + 1
                               => mem'[b] = mem[b]
    <3>1. \A b \in DOMAIN mem : b \in Int
      BY DEF SetupInv, MemoryTypes
    <3> QED BY <1>1, <1>2, <1>3, <1>4, <2>0, <3>1
  <2>2. Whole(j, offsets[j]) /\ MemoryTypes
    BY <1>1, <1>4 DEF SetupInv
  <2>3. offsets' = offsets
    OBVIOUS
  <2>4. PICK a \in Nat : a = offsets[j]
    BY <1>3
  <2>5. Whole(j, a)'
    BY <1>2, <2>0, <2>1, <2>2, <2>4, WholeKept
  <2>6. Whole(j, offsets[j])'
    BY <2>3, <2>4, <2>5 DEF Whole
  <2> QED BY <1>1, <1>4, <2>6
<1> QED BY <1>1, <1>4

\* The loop goes on to the next stack, or ends with an error.
LEMMA LoopStep == ASSUME SetupInv, setup_readout_stacks PROVE SetupInv'
<1>1. /\ ipc = "stacks" /\ stackId <= Len(config) /\ partIter' = 0
      /\ overrun' = (overrun /\ stackId > 1)
      /\ UNCHANGED <<mem, offsets, triggers, daqMode, config, inits, stackId, uploadOffset>>
      /\ \/ ipc' = "idle" /\ ec' # "none"
         \/ /\ stackId < StackCount /\ failed' = failed
            /\ ipc' = IF Size = 0 THEN "offset" ELSE "upload"
  BY ConfigAssumption DEF setup_readout_stacks, SetupVars, Return, SetupInv, LoopTypes
<1>2. MemoryTypes' /\ LoopTypes'
  BY <1>1 DEF SetupInv, MemoryTypes, LoopTypes
<1>3. CASE ipc' = "idle" /\ ec' # "none"
  BY <1>1, <1>2, <1>3, Ended DEF SetupInv, Rest
<1>4. CASE stackId < StackCount /\ failed' = failed /\ ipc' = IF Size = 0 THEN "offset" ELSE "upload"
  <2>1. ipc' \in {"offset", "upload"} /\ Size' = Size
    BY <1>1, <1>4 DEF Size
  <2>2. Rest'
    BY <1>1, <1>4, <2>1, Forward
  <2>3. Layout'
    <3>1. \A j \in 1 .. Len(config) : j < stackId =>
            /\ j < StackCount
            /\ config[j] > 0 => Whole(j, offsets[j])' /\ offsets[j] + config[j] + 1 < uploadOffset
      BY <1>1, LowerKept
    <3>2. uploadOffset >= ReservedWords + 2 /\ stackId <= Len(config) + 1
      BY <1>1 DEF SetupInv, Layout
    <3> QED BY <1>1, <3>1, <3>2 DEF Layout, Whole
  <2>4. Size \in Nat
    BY <1>1 DEF SetupInv, LoopTypes, Size
  <2>5. Partly'
    BY <1>1, <1>4, <2>1, <2>4 DEF Partly
  <2> QED BY <1>2, <2>2, <2>3, <2>5 DEF SetupInv, Rest
<1> QED BY <1>1, <1>3, <1>4

\* After a part has been stored, all words up to its last one are there.
LEMMA StoredSoFar ==
  ASSUME SetupInv, ipc = "upload", uploadOffset + LastWord < MemWords
  PROVE  \A k \in 0 .. LastWord : /\ uploadOffset + k < MemWords
                                  /\ PartWritten[uploadOffset + k] = StackWord(k)
<1> SUFFICES ASSUME NEW k \in 0 .. LastWord
             PROVE  uploadOffset + k < MemWords /\ PartWritten[uploadOffset + k] = StackWord(k)
  OBVIOUS
<1>1. MemoryTypes /\ LoopTypes /\ Partly
  BY DEF SetupInv
<1>2. /\ FirstWord \in Nat /\ LastWord \in Nat /\ uploadOffset \in Nat /\ partIter \in Nat
      /\ FirstWord = IF partIter = 0 THEN 0 ELSE partIter + 1
  BY <1>1, PartFacts DEF LoopTypes
<1>3. k \in Nat /\ uploadOffset + k < MemWords
  BY <1>2, MemoryAssumption
<1>4. CASE k \in FirstWord .. LastWord
  BY <1>1, <1>3, <1>4, PartStored
<1>5. CASE k < FirstWord
  <2>1. partIter > 0 /\ k \in 0 .. partIter
    BY <1>2, <1>3, <1>5
  <2>2. mem[uploadOffset + k] = StackWord(k)
    BY <1>1, <2>1 DEF Partly
  <2>3. uploadOffset + k \in DOMAIN mem
    BY <1>1, <1>2, <1>3, MemoryAssumption DEF MemoryTypes
  <2>4. PartWritten[uploadOffset + k] = mem[uploadOffset + k]
    BY <1>1, <1>3, <1>5, <2>3, PartStored
  <2> QED BY <1>3, <2>2, <2>4
<1> QED BY <1>2, <1>3, <1>4, <1>5

\* A part is uploaded, does not fit, or fails.
LEMMA UploadStep == ASSUME SetupInv, uploadStack PROVE SetupInv'
<1>1. /\ ipc = "upload"
      /\ UNCHANGED <<offsets, triggers, daqMode, config, inits, stackId, uploadOffset, overrun>>
      /\ \/ /\ ipc' = "idle" /\ ec' # "none" /\ partIter' = partIter
            /\ mem' = mem \/ mem' = PartWritten
         \/ /\ ~(uploadOffset + LastWord >= MemWords)
            /\ mem' = PartWritten /\ partIter' = partIter + PartSize
            /\ ipc' = (IF partIter + PartSize = Size THEN "offset" ELSE "upload")
            /\ failed' = failed
  BY DEF uploadStack, SetupVars, Return, Fault, NoFault
<1>2. /\ Size \in Nat /\ PartSize \in Nat \ {0} /\ partIter + PartSize <= Size /\ LastWord \in Nat
      /\ LastWord = IF partIter + PartSize = Size THEN Size + 1 ELSE partIter + PartSize
      /\ partIter \in Nat /\ uploadOffset \in Nat /\ Size > 0
  BY <1>1, PartFacts DEF SetupInv, LoopTypes
<1>3. DOMAIN mem' = DOMAIN mem
  BY <1>1 DEF PartWritten
<1>4. MemoryTypes' /\ LoopTypes'
  BY <1>1, <1>2, <1>3 DEF SetupInv, MemoryTypes, LoopTypes
<1>5. CASE ipc' = "idle" /\ ec' # "none"
  BY <1>1, <1>4, <1>5, Ended DEF SetupInv, Rest
<1>6. CASE /\ ~(uploadOffset + LastWord >= MemWords)
           /\ mem' = PartWritten /\ partIter' = partIter + PartSize
           /\ ipc' = (IF partIter + PartSize = Size THEN "offset" ELSE "upload")
           /\ failed' = failed
  <2>1. uploadOffset + LastWord < MemWords
    BY <1>2, <1>6, MemoryAssumption
  <2>2. ipc' \in {"offset", "upload"} /\ Size' = Size
    BY <1>1, <1>6 DEF Size
  <2>3. Rest'
    BY <1>1, <1>6, <2>2, Forward
  <2>4. Layout'
    <3>1. \A c \in DOMAIN mem : c < uploadOffset => mem'[c] = mem[c]
      BY <1>1, <1>6, <2>1, PartStored DEF SetupInv
    <3>2. \A j \in 1 .. Len(config) : j < stackId =>
            /\ j < StackCount
            /\ config[j] > 0 => Whole(j, offsets[j])' /\ offsets[j] + config[j] + 1 < uploadOffset
      BY <1>1, <3>1, LowerKept
    <3>3. uploadOffset >= ReservedWords + 2 /\ stackId <= Len(config) + 1
      BY <1>1 DEF SetupInv, Layout
    <3> QED BY <1>1, <3>2, <3>3 DEF Layout, Whole
  <2>5. \A k \in 0 .. LastWord : uploadOffset + k < MemWords /\ mem'[uploadOffset + k] = StackWord(k)
    BY <1>1, <1>6, <2>1, StoredSoFar
  <2>6. stackId <= Len(config) /\ stackId < StackCount /\ uploadOffset >= ReservedWords + 2
    BY <1>1 DEF SetupInv, Partly, Layout
  <2>7. CASE partIter + PartSize # Size
    <3>1. ipc' = "upload" /\ partIter' < Size /\ LastWord = partIter'
      BY <1>2, <1>6, <2>7
    <3>2. \A k \in 0 .. partIter' :
            /\ uploadOffset' + k < MemWords /\ mem'[uploadOffset' + k] = StackWord(k)'
      BY <1>1, <2>2, <2>5, <3>1 DEF StackWord
    <3> QED BY <1>1, <1>4, <2>2, <2>3, <2>4, <2>6, <3>1, <3>2 DEF SetupInv, Rest, Partly
  <2>8. CASE partIter + PartSize = Size
    <3>1. ipc' = "offset" /\ LastWord = Size + 1 /\ Size = config[stackId]
      BY <1>2, <1>6, <2>8 DEF Size
    <3>2. /\ 0 \in 0 .. LastWord /\ Size + 1 \in 0 .. LastWord
          /\ \A k \in 1 .. Size : k \in 0 .. LastWord /\ k # 0 /\ k <= Size
          /\ Size + 1 # 0 /\ ~(Size + 1 <= Size)
      BY <1>2, <3>1
    <3>3. /\ mem'[uploadOffset + 0] = StartWord(inits, stackId)
          /\ \A k \in 1 .. Size : mem'[uploadOffset + k] = CmdWord(inits, stackId, k)
          /\ mem'[uploadOffset + (Size + 1)] = EndWord(inits, stackId)
          /\ uploadOffset + (Size + 1) < MemWords
      BY <2>5, <3>2 DEF StackWord
    <3>4. uploadOffset + 0 = uploadOffset /\ uploadOffset + (Size + 1) = uploadOffset + Size + 1
      BY <1>2
    <3>5. Whole(stackId, uploadOffset)'
      BY <1>1, <2>6, <3>1, <3>3, <3>4 DEF Whole
    <3> QED BY <1>1, <1>4, <2>2, <2>3, <2>4, <2>6, <3>1, <3>5 DEF SetupInv, Rest, Partly
  <2> QED BY <2>7, <2>8
<1> QED BY <1>1, <1>5, <1>6

\* The offset register of the current stack is written, and the next stack gets
\* the place behind it.
LEMMA OffsetStep == ASSUME SetupInv, WriteOffset PROVE SetupInv'
<1>1. /\ ipc = "offset" /\ stackId' = stackId + 1 /\ uploadOffset' = NextOffset
      /\ UNCHANGED <<mem, triggers, daqMode, config, partIter, inits, overrun>>
      /\ offsets' = offsets \/ offsets' = [offsets EXCEPT ![stackId] = uploadOffset]
      /\ \/ /\ offsets' = [offsets EXCEPT ![stackId] = uploadOffset]
            /\ ipc' = "stacks" /\ failed' = failed
         \/ ipc' = "idle" /\ ec' # "none"
  BY DEF WriteOffset, Fault, NoFault, Return
<1>2. /\ stackId \in Nat \ {0} /\ stackId <= Len(config) /\ stackId < StackCount
      /\ Size \in Nat /\ uploadOffset \in Nat /\ Size = config[stackId] /\ Len(config) \in Nat
  BY <1>1 DEF SetupInv, LoopTypes, Partly, Size
<1>3. uploadOffset' = uploadOffset + Size + 3 /\ stackId \in ReadoutStacks
  BY <1>1, <1>2, ConfigAssumption DEF NextOffset, ReadoutStacks
<1>4. MemoryTypes' /\ LoopTypes'
  <2>1. offsets \in [ReadoutStacks -> Nat] /\ ipc' \in Stages
    BY <1>1 DEF SetupInv, MemoryTypes
  <2>2. offsets' \in [ReadoutStacks -> Nat]
    BY <1>1, <1>2, <1>3, <2>1
  <2>3. MemoryTypes'
    BY <1>1, <2>2 DEF SetupInv, MemoryTypes
  <2>4. stackId' \in Nat \ {0} /\ uploadOffset' \in Nat
    BY <1>1, <1>2, <1>3
  <2> QED BY <1>1, <2>1, <2>3, <2>4 DEF SetupInv, LoopTypes
<1>5. CASE ipc' = "idle" /\ ec' # "none"
  BY <1>1, <1>4, <1>5, Ended DEF SetupInv, Rest
<1>6. CASE /\ offsets' = [offsets EXCEPT ![stackId] = uploadOffset]
           /\ ipc' = "stacks" /\ failed' = failed
  <2>1. Rest'
    BY <1>1, <1>6, Forward
  <2>2. Layout'
    <3>1. uploadOffset >= ReservedWords + 2
      BY <1>1 DEF SetupInv, Layout
    <3>2. ASSUME NEW j \in 1 .. Len(config), j < stackId + 1
          PROVE  /\ j < StackCount
                 /\ config[j] > 0 => /\ Whole(j, offsets[j])'
                                     /\ offsets'[j] + config[j] + 1 < uploadOffset'
      <4>1. CASE j = stackId
        <5>1. config[j] > 0 => Whole(j, uploadOffset)
          BY <1>1, <1>2, <4>1 DEF SetupInv, Partly
        <5>2. offsets'[j] = uploadOffset
          BY <1>3, <1>6, <4>1 DEF SetupInv, MemoryTypes
        <5> QED BY <1>1, <1>2, <1>3, <4>1, <5>1, <5>2 DEF Whole
      <4>2. CASE j # stackId
        <5>1. j < stackId
          BY <1>2, <3>2, <4>2
        <5>2. /\ j < StackCount
              /\ config[j] > 0 => Whole(j, offsets[j]) /\ offsets[j] + config[j] + 1 < uploadOffset
          BY <1>1, <5>1 DEF SetupInv, Layout
        <5>3. j \in ReadoutStacks /\ config[j] \in Nat
          BY <5>2, ConfigAssumption DEF ReadoutStacks, SetupInv, LoopTypes
        <5>4. offsets'[j] = offsets[j] /\ offsets[j] \in Nat
          BY <1>6, <4>2, <5>3 DEF SetupInv, MemoryTypes
        <5>5. config[j] > 0 => Whole(j, offsets[j])'
          <6>1. UNCHANGED <<mem, config, inits, overrun, offsets[j]>>
            BY <1>1, <5>4
          <6>2. Whole(j, offsets[j])' <=> Whole(j, offsets[j])
            BY ONLY <6>1 DEF Whole
          <6> QED BY <5>2, <6>2
        <5>6. config[j] > 0 => offsets'[j] + config[j] + 1 < uploadOffset'
          BY <1>2, <1>3, <5>2, <5>3, <5>4
        <5> QED BY <1>1, <5>2, <5>5, <5>6
      <4> QED BY <4>1, <4>2
    <3>3. uploadOffset' >= ReservedWords + 2 /\ stackId' <= Len(config') + 1
      BY <1>1, <1>2, <1>3, <3>1, MemoryAssumption
    <3> QED BY <1>1, <3>2, <3>3 DEF Layout
  <2>3. Partly'
    BY <1>6 DEF Partly
  <2> QED BY <1>4, <2>1, <2>2, <2>3 DEF SetupInv, Rest
<1> QED BY <1>1, <1>5, <1>6

\* All stacks are uploaded.
LEMMA DoneStep == ASSUME SetupInv, StacksDone PROVE SetupInv'
<1>1. /\ ipc = "stacks" /\ stackId > Len(config) /\ ipc' = "cb_stacks" /\ failed' = failed
      /\ UNCHANGED <<mem, offsets, triggers, daqMode, config, stackId, uploadOffset, partIter, inits,
                     overrun>>
  BY DEF StacksDone, mvlcVars, loopVars
<1>2. MemoryTypes' /\ LoopTypes'
  BY <1>1 DEF SetupInv, MemoryTypes, LoopTypes
<1>3. Layout'
  BY <1>1 DEF SetupInv, Layout, Whole
<1>4. Partly'
  BY <1>1 DEF Partly
<1> QED BY <1>1, <1>2, <1>3, <1>4, Forward DEF SetupInv, Rest

\* The triggers of the stacks are set, all of them or none.
LEMMA TriggerStep == ASSUME SetupInv, setup_readout_triggers PROVE SetupInv'
<1>1. /\ ipc = "triggers"
      /\ UNCHANGED <<mem, offsets, daqMode, config, stackId, uploadOffset, partIter, inits, overrun>>
      /\ \/ /\ ipc' = "cb_triggers" /\ failed' = failed
            /\ triggers' = [i \in ReadoutStacks |-> i <= Len(config)]
         \/ /\ ipc' = "idle" /\ ec' # "none"
            /\ triggers' = triggers \/ triggers' = [i \in ReadoutStacks |-> i <= Len(config)]
  BY DEF setup_readout_triggers, TriggersSet, Fault, NoFault, Return, loopVars
<1>2. MemoryTypes' /\ LoopTypes'
  <2>1. [i \in ReadoutStacks |-> i <= Len(config)] \in [ReadoutStacks -> BOOLEAN]
    OBVIOUS
  <2>2. triggers' \in [ReadoutStacks -> BOOLEAN]
    BY <1>1, <2>1 DEF SetupInv, MemoryTypes
  <2> QED BY <1>1, <2>2 DEF SetupInv, MemoryTypes, LoopTypes
<1>3. Len(config) \in Nat /\ stackId \in Nat /\ stackId > Len(config)
  BY <1>1 DEF SetupInv, LoopTypes, Partly
<1>4. \A i \in ReadoutStacks : i \in Nat /\ i >= 1
  BY ConfigAssumption DEF ReadoutStacks
<1>5. \A i \in ReadoutStacks : i <= Len(config) => (config[i] > 0 => Whole(i, offsets[i]))
  BY <1>1, <1>3, <1>4 DEF SetupInv, Layout
<1>6. \A i \in ReadoutStacks : triggers'[i] => i <= Len(config)
  BY <1>1 DEF SetupInv, Quiet
<1>7. Live'
  BY <1>1, <1>5, <1>6 DEF Live, Whole
<1>8. Quiet' /\ SuccessMeansConfigured' /\ NoReadoutDuringInit'
  BY <1>1 DEF SetupInv, Quiet, SuccessMeansConfigured, NoReadoutDuringInit
<1>9. Failures'
  BY <1>1 DEF SetupInv, Failures
<1> QED BY <1>1, <1>2, <1>7, <1>8, <1>9, Unwritten DEF SetupInv

\* The last stage, after which init_readout() returns.
LEMMA JumboStep == ASSUME SetupInv, enableJumboFrames PROVE SetupInv'
<1>1. /\ ipc = "jumbo" /\ ipc' = "idle"
      /\ UNCHANGED <<mem, offsets, triggers, daqMode, config, stackId, uploadOffset, partIter, inits,
                     overrun>>
      /\ \/ failed' = failed
         \/ ec' # "none" /\ failed' = failed \cup {"jumbo"}
  BY DEF enableJumboFrames, Fault, NoFault, Return, mvlcVars, loopVars
<1>2. MemoryTypes' /\ LoopTypes'
  BY <1>1 DEF SetupInv, MemoryTypes, LoopTypes
<1>3. Live'
  BY <1>1 DEF SetupInv, Live, Whole
<1>4. Quiet' /\ Failures' /\ NoReadoutDuringInit'
  BY <1>1 DEF SetupInv, Quiet, Failures, NoReadoutDuringInit
<1>5. SuccessMeansConfigured'
  BY <1>1 DEF SetupInv, Failures, SuccessMeansConfigured
<1> QED BY <1>1, <1>2, <1>3, <1>4, <1>5, Unwritten DEF SetupInv

\* A callback fails or not; the sequence goes on.
LEMMA CallbackStep == ASSUME SetupInv, maybe_invoke_callback PROVE SetupInv'
<1>1. /\ UNCHANGED <<mem, offsets, triggers, daqMode, config, stackId, uploadOffset, partIter,
                     inits, overrun>>
      /\ ipc \in Callbacks /\ ipc' = AfterCallback[ipc]
      /\ failed' = failed \/ failed' = failed \cup {ipc}
  BY DEF maybe_invoke_callback, Fault, NoFault, mvlcVars, loopVars
<1>2. failed' \subseteq failed \cup Hidden
  BY <1>1 DEF Hidden
<1>3. \/ ipc \in {"cb_registers", "cb_trigger_io"} /\ ipc' \in Before
      \/ ipc \in {"cb_modules", "cb_stacks"} /\ ipc' \in {"stacks", "triggers"}
         /\ (ipc' = "triggers" => ipc = "cb_stacks")
      \/ ipc = "cb_triggers" /\ ipc' = "jumbo"
  BY <1>1, CallbackNames
<1>4. MemoryTypes' /\ LoopTypes'
  BY <1>1, <1>3 DEF SetupInv, MemoryTypes, LoopTypes
<1>5. CASE ipc \in {"cb_registers", "cb_trigger_io"} /\ ipc' \in Before
  BY <1>1, <1>2, <1>4, <1>5, Forward, Unwritten DEF SetupInv, Rest
<1>6. CASE /\ ipc \in {"cb_modules", "cb_stacks"} /\ ipc' \in {"stacks", "triggers"}
           /\ ipc' = "triggers" => ipc = "cb_stacks"
  <2>1. Rest'
    BY <1>1, <1>2, <1>6, Forward
  <2>2. Layout'
    BY <1>1, <1>6 DEF SetupInv, Layout, Whole
  <2>3. Partly'
    BY <1>1, <1>6 DEF SetupInv, Partly
  <2> QED BY <1>4, <2>1, <2>2, <2>3 DEF SetupInv, Rest
<1>7. CASE ipc = "cb_triggers" /\ ipc' = "jumbo"
  <2>1. Layout' /\ Partly'
    BY <1>7, Unwritten
  <2>2. "disable" \notin failed
    BY <1>7, CallbackNames DEF SetupInv, Failures, Hidden
  <2>3. Live'
    BY <1>1, <1>7, <2>2 DEF SetupInv, Live, Whole
  <2>4. Failures'
    BY <1>1, <1>2, <1>7 DEF SetupInv, Failures
  <2>5. Quiet' /\ SuccessMeansConfigured' /\ NoReadoutDuringInit'
    BY <1>1, <1>7 DEF SetupInv, Quiet, SuccessMeansConfigured, NoReadoutDuringInit
  <2> QED BY <1>4, <2>1, <2>3, <2>4, <2>5 DEF SetupInv
<1> QED BY <1>3, <1>5, <1>6, <1>7

\* Another thread executes a VME command: its stack is below all others.
LEMMA ImmediateStep == ASSUME SetupInv, Immediate PROVE SetupInv'
<1>1. /\ ipc # "upload" /\ RunCommands
      /\ UNCHANGED <<ipc, config, stackId, uploadOffset, partIter, ec, failed, inits>>
  BY DEF Immediate, loopVars
<1>2. /\ DOMAIN mem' = DOMAIN mem
      /\ ~overrun' => ~overrun /\ \A b \in DOMAIN mem : b >= ReservedWords + 2 => mem'[b] = mem[b]
      /\ overrun' \in BOOLEAN
      /\ UNCHANGED <<offsets, triggers, daqMode>>
  BY <1>1, CommandsBelow DEF SetupInv
<1>3. MemoryTypes' /\ LoopTypes'
  BY <1>1, <1>2 DEF SetupInv, MemoryTypes, LoopTypes
<1>4. Layout'
  <2>1. CASE ipc \in Writing
    <3>1. \A j \in 1 .. Len(config) : j < stackId =>
            /\ j < StackCount
            /\ config[j] > 0 => Whole(j, offsets[j])' /\ offsets[j] + config[j] + 1 < uploadOffset
      BY <1>1, <1>2, <2>1, LowerKept
    <3>2. uploadOffset >= ReservedWords + 2 /\ stackId <= Len(config) + 1
      BY <2>1 DEF SetupInv, Layout
    <3> QED BY <1>1, <1>2, <3>1, <3>2 DEF Layout, Whole
  <2>2. CASE ipc \notin Writing
    BY <1>1, <2>2 DEF Layout
  <2> QED BY <2>1, <2>2
<1>5. \A i \in Nat, a \in Nat : config[i] \in Nat /\ Whole(i, a) => Whole(i, a)'
  BY <1>1, <1>2, WholeKept DEF SetupInv
<1>6. Partly'
  <2>1. ASSUME ipc = "offset", Size > 0 PROVE Whole(stackId, uploadOffset)'
    <3>1. Whole(stackId, uploadOffset) /\ stackId \in 1 .. Len(config)
      BY <2>1 DEF SetupInv, Partly, LoopTypes
    <3>2. PICK i \in Nat, a \in Nat : i = stackId /\ a = uploadOffset
      BY DEF SetupInv, LoopTypes
    <3>3. config[i] \in Nat /\ Whole(i, a)
      BY <3>1, <3>2 DEF SetupInv, LoopTypes
    <3>4. Whole(i, a)'
      BY <1>5, <3>3
    <3> QED BY <1>1, <3>2, <3>4 DEF Whole
  <2>2. Size' = Size
    BY <1>1 DEF Size
  <2> QED BY <1>1, <2>1, <2>2 DEF SetupInv, Partly
<1>7. Live'
  <2> SUFFICES ASSUME ipc' \in {"idle"} \cup After, "disable" \notin failed', NEW i \in ReadoutStacks, triggers'[i]
               PROVE  i <= Len(config') /\ (config'[i] > 0 => Whole(i, offsets[i])')
    BY DEF Live
  <2>1. i <= Len(config) /\ (config[i] > 0 => Whole(i, offsets[i]))
    BY <1>1, <1>2 DEF SetupInv, Live
  <2>2. i \in Nat /\ config[i] \in Nat /\ offsets[i] \in Nat
    BY <2>1, ConfigAssumption DEF ReadoutStacks, SetupInv, LoopTypes, MemoryTypes
  <2>3. PICK a \in Nat : a = offsets[i]
    BY <2>2
  <2>4. config[i] > 0 => Whole(i, a)'
    BY <1>5, <2>1, <2>2, <2>3
  <2>5. config[i] > 0 => Whole(i, offsets[i])'
    BY <1>2, <2>3, <2>4 DEF Whole
  <2> QED BY <1>1, <2>1, <2>5
<1>8. Quiet' /\ Failures' /\ SuccessMeansConfigured' /\ NoReadoutDuringInit'
  BY <1>1, <1>2 DEF SetupInv, Quiet, Failures, SuccessMeansConfigured, NoReadoutDuringInit
<1> QED BY <1>3, <1>4, <1>6, <1>7, <1>8 DEF SetupInv

LEMMA SetupStep == SetupInv /\ [SetupNext]_initVars => SetupInv'
<1> SUFFICES ASSUME SetupInv, [SetupNext]_initVars PROVE SetupInv'
  OBVIOUS
<1>1. CASE UNCHANGED initVars
  BY <1>1 DEF initVars, SetupInv, MemoryTypes, LoopTypes, Layout, Partly, Quiet, Live, Failures,
     SuccessMeansConfigured, NoReadoutDuringInit, Whole, Size, StackWord
<1>2. CASE SetupNext
  BY <1>2, EarlyStep, ModulesStep, LoopStep, UploadStep, OffsetStep, DoneStep, TriggerStep,
     JumboStep, CallbackStep, ImmediateStep DEF SetupNext
<1> QED BY <1>1, <1>2

-----------------------------------------------------------------------------

\* A sequence between two words.
LEMMA Framed ==
  ASSUME NEW S, NEW x \in S, NEW y \in S, NEW s \in Seq(S), NEW t, t = <<x>> \o s \o <<y>>
  PROVE  /\ t \in Seq(S) /\ Len(t) = Len(s) + 2 /\ t[1] = x /\ t[Len(s) + 2] = y
         /\ \A k \in 1 .. Len(s) : t[k + 1] = s[k]
<1> DEFINE u == <<x>> \o s
<1>1. u \in Seq(S) /\ Len(u) = Len(s) + 1 /\ u[1] = x /\ Len(s) \in Nat
  OBVIOUS
<1>2. \A k \in 1 .. Len(s) : u[k + 1] = s[k]
  OBVIOUS
<1>3. t = u \o <<y>>
  OBVIOUS
<1> HIDE DEF u
<1>4. t \in Seq(S) /\ Len(t) = Len(u) + 1 /\ t[Len(u) + 1] = y
  BY <1>1, <1>3
<1>5. \A k \in 1 .. Len(u) : t[k] = u[k]
  BY <1>1, <1>3
<1> QED BY <1>1, <1>2, <1>4, <1>5

\* read_stack_contents() gives back a stack that is whole.
LEMMA WholeReadBack ==
  ASSUME SetupInv, ~overrun, NEW i \in 1 .. Len(config), NEW a \in Nat, Whole(i, a)
  PROVE  read_stack_contents(a) = Uploaded(i)
<1> DEFINE n == config[i]
           ends == {b \in (a + 1) .. (MemWords - 1) : mem[b][1] = "end"}
<1>1. n \in Nat /\ a + n + 1 \in (a + 1) .. (MemWords - 1)
  BY MemoryAssumption DEF SetupInv, LoopTypes, Whole
<1>2. mem[a] # ZeroWord /\ mem[a][1] = "start"
  BY DEF Whole, ZeroWord, StartWord
<1>3. \A b \in (a + 1) .. (a + n) : mem[b][1] # "end"
  <2> SUFFICES ASSUME NEW b \in (a + 1) .. (a + n) PROVE mem[b][1] # "end"
    OBVIOUS
  <2>1. b - a \in 1 .. n /\ a + (b - a) = b
    BY <1>1
  <2>2. mem[b] = CmdWord(inits, i, b - a)
    BY <2>1 DEF Whole
  <2> QED BY <2>2 DEF CmdWord
<1>4. a + n + 1 \in ends
  BY <1>1 DEF Whole, EndWord
<1>5. \A c \in ends : c \in Int /\ a + n + 1 <= c
  BY <1>1, <1>3
<1>6. (CHOOSE b \in ends : \A c \in ends : b <= c) = a + n + 1
  <2>1. \A b \in ends : (\A c \in ends : b <= c) => b = a + n + 1
    BY <1>1, <1>4, <1>5
  <2>2. \A c \in ends : a + n + 1 <= c
    BY <1>5
  <2> HIDE DEF ends
  <2> QED BY <1>4, <2>1, <2>2
<1>7. read_stack_contents(a) = [k \in 1 .. ((CHOOSE b \in ends : \A c \in ends : b <= c) - a + 1) |->
                                  mem[a + k - 1]]
  BY <1>2, <1>4 DEF read_stack_contents
<1> HIDE DEF ends
<1>8. (a + n + 1) - a + 1 = n + 2
  BY <1>1
<1>9. read_stack_contents(a) = [k \in 1 .. (n + 2) |-> mem[a + k - 1]]
  BY <1>6, <1>7, <1>8
<1> DEFINE cmds == [k \in 1 .. config[i] |-> CmdWord(inits, i, k)]
<1>10. Uploaded(i) = <<StartWord(inits, i)>> \o cmds \o <<EndWord(inits, i)>>
  BY DEF Uploaded
<1>11. cmds \in Seq({CmdWord(inits, i, k) : k \in Nat}) /\ Len(cmds) = n
       /\ \A k \in 1 .. n : cmds[k] = CmdWord(inits, i, k)
  BY <1>1
<1> DEFINE W == {CmdWord(inits, i, k) : k \in Nat} \cup {StartWord(inits, i), EndWord(inits, i)}
<1>12. cmds \in Seq(W) /\ <<StartWord(inits, i)>> \in Seq(W) /\ <<EndWord(inits, i)>> \in Seq(W)
  BY <1>1
<1> HIDE DEF cmds, W
<1>13. /\ Uploaded(i) \in Seq(W) /\ Len(Uploaded(i)) = n + 2
       /\ Uploaded(i)[1] = StartWord(inits, i)
       /\ \A k \in 1 .. n : Uploaded(i)[k + 1] = CmdWord(inits, i, k)
       /\ Uploaded(i)[n + 2] = EndWord(inits, i)
  <2>1. StartWord(inits, i) \in W /\ EndWord(inits, i) \in W
    BY DEF W
  <2>2. /\ Uploaded(i) \in Seq(W) /\ Len(Uploaded(i)) = Len(cmds) + 2
        /\ Uploaded(i)[1] = StartWord(inits, i) /\ Uploaded(i)[Len(cmds) + 2] = EndWord(inits, i)
        /\ \A k \in 1 .. Len(cmds) : Uploaded(i)[k + 1] = cmds[k]
    BY <1>10, <1>12, <2>1, Framed
  <2> QED BY <1>11, <2>2
<1>14. Uploaded(i) = [k \in 1 .. (n + 2) |-> Uploaded(i)[k]]
  BY <1>13
<1>15. \A k \in 1 .. (n + 2) : mem[a + k - 1] = Uploaded(i)[k]
  <2> SUFFICES ASSUME NEW k \in 1 .. (n + 2) PROVE mem[a + k - 1] = Uploaded(i)[k]
    OBVIOUS
  <2>1. CASE k = 1
    BY <1>13, <2>1 DEF Whole
  <2>2. CASE k = n + 2
    <3>1. a + k - 1 = a + n + 1
      BY ONLY <1>1, <2>2, a \in Nat, SMTT(30)
    <3> QED BY <1>13, <2>2, <3>1 DEF Whole
  <2>3. CASE k \in 2 .. (n + 1)
    <3>1. k - 1 \in 1 .. n /\ a + k - 1 = a + (k - 1) /\ (k - 1) + 1 = k
      BY <1>1, <2>3
    <3>2. mem[a + (k - 1)] = CmdWord(inits, i, k - 1)
      BY <3>1 DEF Whole
    <3>3. Uploaded(i)[(k - 1) + 1] = CmdWord(inits, i, k - 1)
      BY <1>13, <3>1
    <3> QED BY <3>1, <3>2, <3>3
  <2>4. k = 1 \/ k = n + 2 \/ k \in 2 .. (n + 1)
    BY <1>1
  <2> HIDE DEF n
  <2> QED BY <2>1, <2>2, <2>3, <2>4
<1> QED BY <1>9, <1>14, <1>15

\* Whatever calls and callbacks fail while init_readout() runs: a stack that is
\* triggered is whole in the stack memory unless another thread has executed a stack
\* longer than the memory reserved for that, success means that stacks and triggers
\* were written (not: that registers, modules and callbacks succeeded), and no readout
\* runs while the memory is written.  For any sizes and number of stacks, any memory
\* and part size.
THEOREM SetupTheorem == SetupSpec => []ReadoutInitialized
<1>1. SetupInv => TriggeredStacksIntact
  <2> SUFFICES ASSUME SetupInv, ipc # "disable", "disable" \notin failed, ~overrun,
                      NEW i \in ReadoutStacks, triggers[i], config[i] > 0
               PROVE  read_stack_contents(offsets[i]) = Uploaded(i)
    BY DEF TriggeredStacksIntact
  <2>1. ipc \in {"idle"} \cup After
    BY DEF SetupInv, LoopTypes, Quiet
  <2>2. i <= Len(config) /\ Whole(i, offsets[i])
    BY <2>1 DEF SetupInv, Live
  <2>3. i \in 1 .. Len(config) /\ offsets[i] \in Nat
    BY <2>2, ConfigAssumption DEF ReadoutStacks, SetupInv, MemoryTypes
  <2> QED BY <2>2, <2>3, WholeReadBack
<1>2. SetupInv => ReadoutInitialized
  BY <1>1 DEF SetupInv, ReadoutInitialized
<1> QED BY <1>2, InitSetup, SetupStep, PTL DEF SetupSpec
=============================================================================
