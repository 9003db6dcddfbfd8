------------------------------- MODULE MCCodec -------------------------------
(***************************************************************************)
(* What is written to and read back from the MVLC, for TLC: building and   *)
(* encoding commands, setting up stack memory, saving and loading the      *)
(* Trigger I/O.  The three share no state; part selects the one a          *)
(* behaviour is about.                                                     *)
(***************************************************************************)
EXTENDS TriggerIO, InitReadout

CONSTANTS GroupNames, MaxCommands, MaxGroups

VARIABLES
  part,
  groups, added, super

cbVars == <<groups, added, super>>

\* Sizes of readout stacks: one of one part, one of several, an empty one, a
\* stack that does not fit behind the others, more stacks than the MVLC has.
MCConfigs == {<<1, 3>>, <<2, 0>>, <<5>>, <<3, 4>>, <<1, 1, 1>>}

\* A bitmap over the 64 inputs for each of the three outputs.
MCLutInputs == {<<{0, 5, 63}, {5}, {1, 2, 3, 63}>>}

W(hi, mid, lo) == [hi |-> hi, mid |-> mid, lo |-> lo]

\* Operands that look like a VME write, a stack end and a plain address.
Operands == {W(35, 9, 1), W(244, 0, 0)}
Address == W(1, 2, 24576)

B == INSTANCE CommandBuilders WITH StackInputs <- {}, SuperInputs <- {}

StackInputs ==
  {B!addVMERead(a, 9, 2, late, fifo) :
     a \in Operands, late \in BOOLEAN, fifo \in BOOLEAN}
  \cup {B!addVMEBlockRead(Address, amod, n, TRUE) :
          amod \in {11, 8}, n \in {1, 65535}}
  \cup {B!addVMEBlockRead2eSST(Address, 2, 65535, FALSE),
        B!addVMEBlockReadSwapped(Address, 8, 7, TRUE),
        B!addVMEBlockReadSwapped2eSST(Address, 1, 7, FALSE),
        B!addReadToAccu(W(244, 0, 0), 9, 1, TRUE),
        B!addMaskShiftAccu(W(0, 0, 255), 3),
        B!addCompareLoopAccu(2, W(199, 0, 0)),
        B!addSimple("SignalAccu", B!Zero),
        B!addSimple("SoftwareDelay", W(0, 0, 100)),
        B!custom(<<W(2, 0, 0), W(3, 1, 1)>>, 1)}
  \cup {B!addVMEWrite(Address, v, 9, 1) : v \in Operands}
  \cup {B!addSimple(t, W(18, 1, 2)) : t \in {"WriteMarker", "SetAccu"}}
  \cup {B!addSimple(t, W(0, 1, 2)) : t \in {"WriteSpecial", "Wait"}}

SuperInputs ==
  {B!SuperCommand("ReferenceWord", 0, W(0, 0, 61952)),
   B!SuperCommand("ReadLocal", 512, B!Zero),
   B!SuperCommand("ReadLocalBlock", 512, W(0, 0, 4)),
   B!SuperCommand("WriteLocal", 8192, W(242, 0, 0)),
   B!SuperCommand("WriteLocal", 61952, W(2, 4, 8192)),
   B!SuperCommand("WriteReset", 0, B!Zero)}

CB == INSTANCE CommandBuilders

BuildStack ==
  part = "builders" /\ CB!BuildStack /\ UNCHANGED <<part, initVars, tioVars>>
BuildSuper ==
  part = "super" /\ CB!BuildSuper /\ UNCHANGED <<part, initVars, tioVars>>
RunInit ==
  part = "init" /\ SetupNext /\ UNCHANGED <<part, cbVars, tioVars>>
SaveTriggerIO ==
  part = "trigger_io" /\ Next /\ UNCHANGED <<part, cbVars, initVars>>

CodecInit ==
  /\ part \in {"builders", "super", "init", "trigger_io"}
  /\ CB!Init /\ SetupInit /\ Init

CodecNext == BuildStack \/ BuildSuper \/ RunInit \/ SaveTriggerIO

CodecSpec == CodecInit /\ [][CodecNext]_<<part, cbVars, initVars, tioVars>>

\* Commands survive their translations: a stack encoded for the MVLC decodes to what was
\* built and has the size reserved for it, its text form parses to the same command, and
\* a super command buffer decodes to its commands (mvlc_command_builders.cc).
CommandsTranslated ==
    CB!StackRoundTrip /\ CB!SizeReserved /\ CB!TextRoundTrip /\ CB!SuperRoundTrip
=============================================================================
