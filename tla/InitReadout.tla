----------------------------- MODULE InitReadout -----------------------------
(***************************************************************************)
(* init_readout() (mvlc_readout_worker.cc): bringing an MVLC from whatever *)
(* state an earlier run left it in to one where its stacks read out the    *)
(* modules, and the layout of its stack memory (mvlc_dialog_util.h,        *)
(* CmdApi::uploadStack in mvlc.cc).                                        *)
(*                                                                         *)
(* Any call that talks to the MVLC may fail, with its writes done or not,  *)
(* and so may the user's callback after each stage.  Between two calls     *)
(* another thread may execute VME commands, which uploads a stack to the   *)
(* memory reserved for immediate execution, or past it: uploadStack() does *)
(* not look at that limit.                                                 *)
(*                                                                         *)
(* Stack memory is counted in words; a word remembers which init wrote it, *)
(* for which stack and at which place.                                     *)
(***************************************************************************)
EXTENDS Integers, Sequences

CONSTANTS
  Configs,         \* crate configs: the number of words of each readout stack
  StackCount,      \* getStackCount(): stacks of the MVLC, stack 0 included
  MemWords,        \* StackMemoryWords
  ReservedWords,   \* ImmediateStackReservedWords
  ImmediateSizes,  \* words of the immediate stacks that are executed
  PartMax,         \* EthPartMaxSize / UsbPartMaxSize
  MaxInits,        \* bound on calls of init_readout()
  MaxFaults,       \* bound on calls that fail
  MaxImmediate     \* bound on VME commands of other threads

ASSUME ConfigAssumption == Configs \subseteq Seq(Nat) /\ StackCount \in Nat \ {0}

ASSUME MemoryAssumption ==
  /\ MemWords \in Nat \ {0} /\ ReservedWords \in Nat /\ PartMax \in Nat \ {0}
  /\ ImmediateSizes \subseteq Nat \ {0}

VARIABLES
  mem,             \* the MVLC: its stack memory
  offsets,         \* the MVLC: stack offset registers, in words
  triggers,        \* the MVLC: is the trigger of the stack set
  daqMode,         \* the MVLC: does it process triggers
  ipc,             \* where init_readout() is
  config,          \* the stacks of crateConfig
  stackId,         \* setup_readout_stacks(): stackId
  uploadOffset,    \* setup_readout_stacks(): uploadWordOffset
  partIter,        \* uploadStack(): stack words written
  ec,              \* ret.ec
  failed,          \* history: stages and callbacks of this call that failed
  overrun,         \* history: since the first stack of this call was uploaded,
                   \*   an immediate stack was longer than the reserved memory
  inits, initFaults, immediates

mvlcVars == <<mem, offsets, triggers, daqMode>>
loopVars == <<config, stackId, uploadOffset, partIter>>
initVars == <<mem, offsets, triggers, daqMode, ipc, config, stackId,
              uploadOffset, partIter, ec, failed, overrun, inits,
              initFaults, immediates>>

ReadoutStacks == 1 .. (StackCount - 1)
ImmediateStart == 1

ZeroWord == <<"zero">>
StartWord(g, i) == <<"start", g, i>>
EndWord(g, i) == <<"end", g, i>>
CmdWord(g, i, k) == <<"cmd", g, i, k>>

InitMem == [a \in 0 .. (MemWords - 1) |-> ZeroWord]

SetupInit ==
  /\ mem = InitMem
  /\ offsets = [i \in ReadoutStacks |-> 0]
  /\ triggers = [i \in ReadoutStacks |-> FALSE]
  /\ daqMode = FALSE
  /\ ipc = "idle" /\ config = <<>> /\ stackId = 1 /\ uploadOffset = 0
  /\ partIter = 0 /\ ec = "none" /\ failed = {} /\ overrun = FALSE
  /\ inits = 0 /\ initFaults = 0 /\ immediates = 0

Return(code) == ipc' = "idle" /\ ec' = code

(***************************************************************************)
(* A call to the MVLC: it succeeds, or fails with its effect done or not.  *)
(* Fault counts the failure and records the stage.                         *)
(***************************************************************************)
Fault(stage) ==
  /\ initFaults < MaxFaults
  /\ initFaults' = initFaults + 1
  /\ failed' = failed \cup {stage}

NoFault == UNCHANGED <<initFaults, failed>>

(***************************************************************************)
(* A stage that writes registers: effect is its effect on the MVLC, next   *)
(* the stage that follows.  A failure ends the call.                       *)
(***************************************************************************)
FatalStage(stage, effect, nothing, next) ==
  /\ ipc = stage
  /\ \/ effect /\ NoFault /\ ipc' = next /\ UNCHANGED ec
     \/ (effect \/ nothing) /\ Fault(stage) /\ Return(stage)
  /\ UNCHANGED <<loopVars, inits, immediates>>

(***************************************************************************)
(* maybe_invoke_callback(): an error goes to ret.ec, an exception to       *)
(* ret.ex, which no caller reads; the sequence goes on with either.        *)
(***************************************************************************)
AfterCallback ==
  [cb_registers |-> "trigger_io", cb_trigger_io |-> "modules", cb_modules |-> "stacks",
   cb_stacks |-> "triggers", cb_triggers |-> "jumbo"]
Callbacks == DOMAIN AfterCallback

maybe_invoke_callback ==
  /\ ipc \in Callbacks /\ ipc' = AfterCallback[ipc]
  /\ \/ NoFault /\ UNCHANGED ec
     \/ Fault(ipc) /\ ec' \in {ec, ipc}
  /\ UNCHANGED <<mvlcVars, loopVars, overrun, inits, immediates>>

\* The application starts the sequence; mvlc may be in DAQ mode with triggers
\* set, left over from a run that was not ended.
StartInit(c) ==
  /\ ipc = "idle" /\ inits < MaxInits
  /\ inits' = inits + 1
  /\ config' = c
  /\ ipc' = "disable" /\ ec' = "none" /\ failed' = {}
  /\ UNCHANGED <<mvlcVars, stackId, uploadOffset, partIter, overrun, initFaults,
                 immediates>>

\* Left to someone else: after a successful init the application enables DAQ
\* mode.
enable_daq_mode ==
  /\ ipc = "idle" /\ inits > 0 /\ ec = "none" /\ ~daqMode
  /\ daqMode' = TRUE
  /\ UNCHANGED <<mem, offsets, triggers, ipc, loopVars, ec, failed, overrun,
                 inits, initFaults, immediates>>

\* A failure to disable is only recorded.
Mutdisable_daq_mode_and_triggers ==
  /\ ipc = "disable" /\ ipc' = "crate_id"
  /\ \/ /\ daqMode' = FALSE
        /\ triggers' = [i \in ReadoutStacks |-> FALSE]
        /\ NoFault /\ UNCHANGED ec
     \/ Fault("disable") /\ ec' = "disable" /\ UNCHANGED <<daqMode, triggers>>
  /\ UNCHANGED <<mem, offsets, loopVars, overrun, inits, immediates>>

disable_daq_mode_and_triggers ==
  FatalStage("disable",
    /\ daqMode' = FALSE
    /\ triggers' = [i \in ReadoutStacks |-> FALSE]
    /\ UNCHANGED <<mem, offsets, overrun>>,
    UNCHANGED <<mvlcVars, overrun>>, "crate_id")

set_crate_id ==
  FatalStage("crate_id", UNCHANGED <<mvlcVars, overrun>>,
             UNCHANGED <<mvlcVars, overrun>>, "registers")

\* A register that cannot be written sets ret.ec and does not end the sequence.
init_registers ==
  /\ ipc = "registers" /\ ipc' = "cb_registers"
  /\ \/ NoFault /\ UNCHANGED ec
     \/ Fault("registers") /\ ec' = "registers"
  /\ UNCHANGED <<mvlcVars, loopVars, overrun, inits, immediates>>

(***************************************************************************)
(* run_commands(): every VME command is an immediate stack, which stays in *)
(* the memory.  It is uploaded in parts like the others: when a part fails *)
(* or would leave the memory, the ones before are there.  LastWords(n) are *)
(* the words of a stack with which an upload may have ended.               *)
(***************************************************************************)
LastWords(n) ==
  {k \in 1 .. (n + 1) : /\ k = n + 1 \/ (k < n /\ k % PartMax = 0)
                        /\ ImmediateStart + k < MemWords}

ImmediateStack(n, k) ==
  mem' = [a \in DOMAIN mem |->
            IF a \notin ImmediateStart .. (ImmediateStart + k) THEN mem[a]
            ELSE IF a = ImmediateStart THEN StartWord(0, 0)
            ELSE IF a = ImmediateStart + n + 1 THEN EndWord(0, 0)
            ELSE CmdWord(0, 0, a - ImmediateStart)]

RunCommands ==
  /\ \/ \E n \in ImmediateSizes : \E k \in LastWords(n) :
          ImmediateStack(n, k) /\ overrun' = (overrun \/ k > ReservedWords)
     \/ UNCHANGED <<mem, overrun>>
  /\ UNCHANGED <<offsets, triggers, daqMode>>

init_trigger_io ==
  FatalStage("trigger_io", RunCommands, UNCHANGED <<mvlcVars, overrun>>, "cb_trigger_io")

\* With continueOnVMEError an error is recorded and the sequence goes on.
init_modules ==
  /\ ipc = "modules"
  /\ \/ NoFault /\ ipc' = "cb_modules" /\ UNCHANGED ec
     \/ Fault("modules") /\ ec' = "modules" /\ ipc' \in {"cb_modules", "idle"}
  /\ stackId' = 1
  /\ uploadOffset' = ImmediateStart + ReservedWords + 1
  /\ partIter' = 0
  /\ RunCommands
  /\ UNCHANGED <<config, inits, immediates>>

(***************************************************************************)
(* setup_readout_stacks(): one step per part of a stack that is uploaded   *)
(* and one for its offset register.                                        *)
(***************************************************************************)
Size == config[stackId]

SetupVars == <<offsets, triggers, daqMode, config, inits, immediates>>

\* The checks at the head of the loop.
setup_readout_stacks ==
  /\ ipc = "stacks" /\ stackId <= Len(config)
  /\ IF stackId >= StackCount
     THEN /\ Return("StackCountExceeded") /\ failed' = failed \cup {"stacks"}
     ELSE IF uploadOffset + Size >= MemWords
     THEN /\ Return("StackMemoryExceeded") /\ failed' = failed \cup {"stacks"}
     ELSE ipc' = (IF Size = 0 THEN "offset" ELSE "upload")
          /\ UNCHANGED <<ec, failed>>
  /\ partIter' = 0 /\ overrun' = (overrun /\ stackId > 1)
  /\ UNCHANGED <<SetupVars, mem, stackId, uploadOffset, initFaults>>

(***************************************************************************)
(* uploadStack(): the words of one part, with StackStart before the first  *)
(* and StackEnd after the last.  A write that would leave the memory ends  *)
(* the call before any word of its part is sent.                           *)
(***************************************************************************)
PartSize == IF Size - partIter < PartMax THEN Size - partIter ELSE PartMax
FirstWord == IF partIter = 0 THEN 0 ELSE partIter + 1
LastWord == IF partIter + PartSize = Size THEN Size + 1 ELSE partIter + PartSize

StackWord(k) == IF k = 0 THEN StartWord(inits, stackId)
                ELSE IF k <= Size THEN CmdWord(inits, stackId, k)
                ELSE EndWord(inits, stackId)

PartWritten == [a \in DOMAIN mem |->
                  IF a - uploadOffset \in FirstWord .. LastWord
                  THEN StackWord(a - uploadOffset) ELSE mem[a]]

uploadStack ==
  /\ ipc = "upload"
  /\ IF uploadOffset + LastWord >= MemWords
     THEN /\ Return("StackMemoryExceeded")
          /\ failed' = failed \cup {"stacks"}
          /\ UNCHANGED <<mem, partIter, initFaults>>
     ELSE \/ /\ mem' = PartWritten
             /\ partIter' = partIter + PartSize
             /\ ipc' = IF partIter + PartSize = Size THEN "offset" ELSE "upload"
             /\ NoFault /\ UNCHANGED ec
          \/ /\ Fault("stacks") /\ Return("stacks")
             /\ mem' \in {mem, PartWritten}
             /\ UNCHANGED partIter
  /\ UNCHANGED <<SetupVars, stackId, uploadOffset, overrun>>

\* StackStart and StackEnd are not counted.
MutNextOffset == uploadOffset + Size + 1
NextOffset == uploadOffset + Size + 1 + 2

WriteOffset ==
  /\ ipc = "offset"
  /\ \/ /\ offsets' = [offsets EXCEPT ![stackId] = uploadOffset]
        /\ NoFault /\ ipc' = "stacks" /\ UNCHANGED ec
     \/ /\ offsets' \in {offsets, [offsets EXCEPT ![stackId] = uploadOffset]}
        /\ Fault("stacks") /\ Return("stacks")
  /\ stackId' = stackId + 1
  /\ uploadOffset' = NextOffset
  /\ UNCHANGED <<mem, triggers, daqMode, config, partIter, overrun, inits, immediates>>

\* ret.ec is assigned the result of the upload: an error recorded before is
\* gone.
StacksDone ==
  /\ ipc = "stacks" /\ stackId > Len(config)
  /\ ec' = "none" /\ ipc' = "cb_stacks"
  /\ UNCHANGED <<mvlcVars, loopVars, failed, overrun, inits, initFaults, immediates>>

TriggersSet == [i \in ReadoutStacks |-> i <= Len(config)]

\* The loop over the triggers ends one stack too early.
Mutsetup_readout_triggers ==
  /\ ipc = "triggers"
  /\ triggers' = [i \in ReadoutStacks |-> i < Len(config)]
  /\ NoFault /\ ec' = "none" /\ ipc' = "cb_triggers"
  /\ UNCHANGED <<mem, offsets, daqMode, loopVars, overrun, inits, immediates>>

\* One super transaction writes the trigger of every stack; a crate config has
\* triggers for the stacks it has.  ret.ec is assigned again.
setup_readout_triggers ==
  /\ ipc = "triggers"
  /\ \/ /\ triggers' = TriggersSet
        /\ NoFault /\ ec' = "none" /\ ipc' = "cb_triggers"
     \/ /\ triggers' \in {triggers, TriggersSet}
        /\ Fault("triggers") /\ Return("triggers")
  /\ UNCHANGED <<mem, offsets, daqMode, loopVars, overrun, inits, immediates>>

\* Over Ethernet ret.ec is assigned once more; over USB it stays what it is.
enableJumboFrames ==
  /\ ipc = "jumbo"
  /\ \/ NoFault /\ Return("none")
     \/ Fault("jumbo") /\ Return("jumbo")
     \/ NoFault /\ Return(ec)
  /\ UNCHANGED <<mvlcVars, loopVars, overrun, inits, immediates>>

\* stackTransactionImpl() of another thread. It holds the command lock, which
\* uploadStack() of init_readout() holds too.
Immediate ==
  /\ immediates < MaxImmediate /\ ipc # "upload"
  /\ immediates' = immediates + 1
  /\ RunCommands
  /\ UNCHANGED <<ipc, loopVars, ec, failed, inits, initFaults>>

SetupNext ==
  \/ \E c \in Configs : StartInit(c)
  \/ enable_daq_mode
  \/ disable_daq_mode_and_triggers \/ set_crate_id \/ init_registers
  \/ init_trigger_io \/ init_modules \/ maybe_invoke_callback
  \/ setup_readout_stacks \/ uploadStack \/ WriteOffset \/ StacksDone
  \/ setup_readout_triggers \/ enableJumboFrames
  \/ Immediate

SetupSpec == SetupInit /\ [][SetupNext]_initVars

-----------------------------------------------------------------------------
(***************************************************************************)
(* read_stack_contents(): the words from a StackStart to the next StackEnd *)
(* or, when there is none, an error.                                       *)
(***************************************************************************)
read_stack_contents(a) ==
  IF mem[a] = ZeroWord THEN <<>>
  ELSE IF mem[a][1] # "start" THEN <<"InvalidStackHeader">>
  ELSE LET ends == {b \in (a + 1) .. (MemWords - 1) : mem[b][1] = "end"}
       IN IF ends = {} THEN <<"StackMemoryExceeded">>
          ELSE [k \in 1 .. ((CHOOSE b \in ends : \A c \in ends : b <= c)
                              - a + 1) |-> mem[a + k - 1]]

\* What reading stack i of the current config back must give.
Uploaded(i) ==
  <<StartWord(inits, i)>> \o [k \in 1 .. config[i] |-> CmdWord(inits, i, k)]
    \o <<EndWord(inits, i)>>

\* Whatever failed and whatever other threads execute in between, a stack whose
\* trigger is set (so that the MVLC runs it as soon as DAQ mode is on) is, from
\* its offset register on, exactly the stack of the config that is being set up:
\* never a half-uploaded one, one of an earlier config, or one that a later
\* stack or an immediate stack has overwritten. There are two exceptions.
\* Nothing is uploaded for stacks without commands, and an immediate stack that
\* is longer than the memory reserved for it overwrites the first readout stacks
\* (mvlc.cc, uploadStack()).
TriggeredStacksIntact ==
  ipc # "disable" /\ "disable" \notin failed /\ ~overrun =>
    \A i \in ReadoutStacks :
       triggers[i] /\ config[i] > 0 =>
         read_stack_contents(offsets[i]) = Uploaded(i)

\* The failures a later assignment to ret.ec hides, or that are kept in ret.ex
\* only: the init registers, the modules (with continueOnVMEError) and the callbacks.
Hidden == {"registers", "modules"} \cup Callbacks

\* init_readout() reports success only if exactly the stacks of the config are
\* triggered and everything was done but, possibly, what Hidden lists: success
\* does not mean that registers and modules are initialised.
SuccessMeansConfigured ==
  ipc = "idle" /\ inits > 0 /\ ec = "none" =>
     /\ \A i \in ReadoutStacks : triggers[i] <=> i <= Len(config)
     /\ failed \subseteq Hidden

\* "Disable triggers and DAQ mode to start from a clean state": from then on
\* until the sequence has ended the MVLC does not run a readout stack, so that no
\* stack is overwritten while it runs.
NoReadoutDuringInit ==
  ipc \notin {"idle", "disable"} => ~daqMode

\* A readout starts with the stacks of the configuration: unless an immediate stack was
\* longer than its memory, a stack with a trigger is whole in the stack memory;
\* init_readout() succeeds only if stacks and triggers are set up, though it may hide
\* errors of registers, modules and callbacks; and nothing is read out while it writes
\* (setup_readout_stacks, disable_daq_mode_and_triggers).
ReadoutInitialized == TriggeredStacksIntact /\ SuccessMeansConfigured /\ NoReadoutDuringInit
=============================================================================
