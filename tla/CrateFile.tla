------------------------------ MODULE CrateFile ------------------------------
(***************************************************************************)
(* The crate configuration on disk: as a YAML or JSON file                 *)
(* (mvlc_readout_config.cc) and in the preamble of a listfile              *)
(* (mvlc_listfile.cc), from which a replay takes it again (init_common in  *)
(* mvlc_replay.cc).                                                        *)
(*                                                                         *)
(* A document is a function from the keys under "crate" to their values.   *)
(* Its text is an opaque run of words, so a section of the listfile can    *)
(* hold a piece of it and a recording that died can end inside it.  The    *)
(* text of a command is checked in CommandBuilders.                        *)
(***************************************************************************)
EXTENDS Integers, Sequences, SequencesExt, FiniteSets

CONSTANTS
  Crates,            \* the configurations that are saved
  DocWords,          \* lengths of a configuration's text, in words
  LengthMask,        \* words one system event section can hold
  PreambleReadMax    \* limit of read_preamble(), in words

VARIABLES
  crate,             \* the configuration that is saved
  words,             \* length of its text
  stored,            \* the words behind the magic bytes of the listfile
  cpc,               \* where saving and loading is
  cut,               \* the recording died before everything was written
  begun,             \* a BeginRun section has been written
  at,                \* words read by read_preamble()
  events,            \* Preamble::systemEvents
  open,              \* the last of them is to be continued
  total,             \* totalContentsSize
  loaded             \* the CrateConfig that was read

crateVars == <<crate, words, stored, cpc, cut, begun, at, events, open, total, loaded>>

NoCommands == [name |-> "", groups |-> <<>>, yamlMeta |-> {}]
DefaultCrate == [crateId |-> 0, connection |-> "none", stacks |-> <<>>,
  triggers |-> <<>>, initRegisters |-> <<>>, initTriggerIO |-> NoCommands,
  initCommands |-> NoCommands, stopCommands |-> NoCommands,
  mcstDaqStart |-> NoCommands, mcstDaqStop |-> NoCommands]

(***************************************************************************)
(* YAML                                                                    *)
(***************************************************************************)
\* Comments are written as YAML comments; metadata become keys of their own.
StackNode(stack) ==
  [name |-> stack.name, extra |-> stack.yamlMeta,
   groups |-> [g \in DOMAIN stack.groups |->
     [name |-> stack.groups[g].name, meta |-> stack.groups[g].meta,
      contents |-> [c \in DOMAIN stack.groups[g].commands |->
                      stack.groups[g].commands[c].text]]]]

\* What to_yaml() emits, in this order.
KeyOrder == <<"crateId", "mvlc_connection", "readout_stacks", "stack_triggers",
  "init_registers", "init_trigger_io", "init_commands", "stop_commands",
  "mcst_daq_start", "mcst_daq_stop">>

to_yaml(c) ==
  [k \in ToSet(KeyOrder) |->
     CASE k = "crateId" -> c.crateId
       [] k = "mvlc_connection" -> c.connection
       [] k = "readout_stacks" -> [s \in DOMAIN c.stacks |-> StackNode(c.stacks[s])]
       [] k = "stack_triggers" -> c.triggers
       [] k = "init_registers" -> c.initRegisters
       [] k = "init_trigger_io" -> StackNode(c.initTriggerIO)
       [] k = "init_commands" -> StackNode(c.initCommands)
       [] k = "stop_commands" -> StackNode(c.stopCommands)
       [] k = "mcst_daq_start" -> StackNode(c.mcstDaqStart)
       [] k = "mcst_daq_stop" -> StackNode(c.mcstDaqStop)]

\* Only the name and the groups are looked for.
stack_command_builder_from_yaml(node) ==
  [name |-> node.name, yamlMeta |-> {},
   groups |-> [g \in DOMAIN node.groups |->
     [name |-> node.groups[g].name, meta |-> node.groups[g].meta,
      commands |-> [c \in DOMAIN node.groups[g].contents |->
                      [text |-> node.groups[g].contents[c], comment |-> ""]]]]]

MutRequiredKeys == {}
RequiredKeys == {"init_trigger_io", "init_commands", "stop_commands"}

\* A required node that is not there throws in stack_command_builder_from_yaml().
Loadable(doc) == RequiredKeys \subseteq DOMAIN doc

\* The crate id is looked for next to "crate" instead of below it, so the
\* default stays.
crate_config_from_yaml(doc) ==
  LET Get(k, default) == IF k \in DOMAIN doc THEN doc[k] ELSE default
      Commands(k) == IF k \in DOMAIN doc
                     THEN stack_command_builder_from_yaml(doc[k]) ELSE NoCommands
      Nodes == Get("readout_stacks", <<>>)
  IN [DefaultCrate EXCEPT
        !.connection = Get("mvlc_connection", "none"),
        !.stacks = [s \in DOMAIN Nodes |-> stack_command_builder_from_yaml(Nodes[s])],
        !.triggers = Get("stack_triggers", <<>>),
        !.initRegisters = Get("init_registers", <<>>),
        !.initTriggerIO = Commands("init_trigger_io"),
        !.initCommands = Commands("init_commands"),
        !.stopCommands = Commands("stop_commands"),
        !.mcstDaqStart = Commands("mcst_daq_start"),
        !.mcstDaqStop = Commands("mcst_daq_stop")]

(***************************************************************************)
(* JSON is made from the YAML tree and turned into one again.  Its objects *)
(* are sorted and have each key once, with the last value given; of the    *)
(* maps only the one of the init registers has keys from the user.         *)
(***************************************************************************)
MutLastOf(regs, a) ==
  regs[CHOOSE i \in DOMAIN regs : regs[i][1] = a /\ \A j \in DOMAIN regs :
                                    regs[j][1] = a => i <= j][2]
LastOf(regs, a) ==
  regs[CHOOSE i \in DOMAIN regs : regs[i][1] = a /\ \A j \in DOMAIN regs :
                                    regs[j][1] = a => j <= i][2]

yaml_to_json(doc) ==
  LET regs == doc["init_registers"]
      keys == SetToSortSeq({regs[i][1] : i \in DOMAIN regs}, <)
  IN [doc EXCEPT !["init_registers"] =
        [i \in DOMAIN keys |-> <<keys[i], LastOf(regs, keys[i])>>]]

\* crate_config_from_file(): by the extension, or an exception.
crate_config_from_file(c, extension) ==
  crate_config_from_yaml(IF extension = ".json" THEN yaml_to_json(to_yaml(c))
                                                ELSE to_yaml(c))

(***************************************************************************)
(* Listfile sections                                                       *)
(***************************************************************************)
Header(subtype, len, continued) ==
  [type |-> "SystemEvent", subtype |-> subtype, len |-> len, continued |-> continued]
Frame == [type |-> "StackFrame", subtype |-> "none", len |-> 0, continued |-> FALSE]
ZeroWord == [type |-> "zero", subtype |-> "none", len |-> 0, continued |-> FALSE]
Payload(subtype, i) ==
  [type |-> "payload", subtype |-> subtype, len |-> i, continued |-> FALSE]
Contents(subtype, n) == [i \in 1..n |-> Payload(subtype, i)]

\* The whole event, cut into sections of at most LengthMask words, all but the
\* last of which say that they are continued.
SectionsWith(Continued(_, _), subtype, contents) ==
  LET n == IF contents = <<>> THEN 1
           ELSE (Len(contents) + LengthMask - 1) \div LengthMask
      Piece(s) == SubSeq(contents, (s - 1) * LengthMask + 1,
                         IF s = n THEN Len(contents) ELSE s * LengthMask)
  IN FoldLeftDomain(LAMBDA acc, s :
       acc \o <<Header(subtype, Len(Piece(s)), Continued(s, n))>> \o Piece(s),
       <<>>, [s \in 1..n |-> s])

MutSections(subtype, contents) ==
  SectionsWith(LAMBDA s, n : s < n - 1, subtype, contents)
Sections(subtype, contents) == SectionsWith(LAMBDA s, n : s < n, subtype, contents)

Init ==
  /\ crate \in Crates /\ words \in DocWords
  /\ stored = <<>> /\ cpc = "idle" /\ cut = FALSE /\ begun = FALSE
  /\ at = 0 /\ events = <<>> /\ open = FALSE /\ total = 0
  /\ loaded = DefaultCrate

SaveAndLoad(extension) ==
  /\ cpc = "idle"
  /\ loaded' = crate_config_from_file(crate, extension) /\ cpc' = "loaded"
  /\ UNCHANGED <<crate, words, stored, cut, begun, at, events, open, total>>

\* The endian marker and the text of the configuration, padded with spaces.
WritePreamble ==
  /\ cpc = "idle"
  /\ stored' = Sections("EndianMarker", Contents("EndianMarker", 1))
               \o Sections("MVLCCrateConfig", Contents("MVLCCrateConfig", words))
  /\ cpc' = "recording"
  /\ UNCHANGED <<crate, words, cut, begun, at, events, open, total, loaded>>

\* listfile_write_timestamp_section(): a 64-bit time.  Old files have none.
WriteBeginRun ==
  /\ cpc = "recording" /\ ~begun /\ Last(stored) # Frame
  /\ stored' = stored \o Sections("BeginRun", Contents("BeginRun", 2)) /\ begun' = TRUE
  /\ UNCHANGED <<crate, words, cpc, cut, at, events, open, total, loaded>>

WriteReadout ==
  /\ cpc = "recording" /\ Last(stored) # Frame
  /\ stored' = Append(stored, Frame)
  /\ UNCHANGED <<crate, words, cpc, cut, begun, at, events, open, total, loaded>>

\* The program or the machine dies: the words behind some point are lost.
Crash ==
  /\ cpc = "recording"
  /\ \E n \in 0..Len(stored) - 1 : stored' = SubSeq(stored, 1, n)
  /\ cut' = TRUE /\ cpc' = "reading"
  /\ UNCHANGED <<crate, words, begun, at, events, open, total, loaded>>

CloseAndOpen ==
  /\ cpc = "recording" /\ cpc' = "reading"
  /\ UNCHANGED <<crate, words, stored, cut, begun, at, events, open, total, loaded>>

\* A read at the end of the file leaves the zeros of the destination.
WordAt(i) == IF i <= Len(stored) THEN stored[i] ELSE ZeroWord

\* One turn of the inner loop of read_preamble(): a header, the words it
\* announces, and the decision whether to go on.
ReadSection ==
  LET h == WordAt(at + 1)
      contents == [i \in 1..h.len |-> WordAt(at + 1 + i)]
      joined == IF open
                THEN [events EXCEPT ![Len(events)].contents = @ \o contents]
                ELSE Append(events, [type |-> h.subtype, contents |-> contents])
  IN /\ cpc = "reading" /\ h.type = "SystemEvent"
     /\ IF total + h.len > PreambleReadMax
        THEN /\ cpc' = "failed"
             /\ UNCHANGED <<at, events, open, total>>
        ELSE /\ at' = at + 1 + h.len /\ total' = total + h.len
             /\ events' = joined /\ open' = h.continued
             /\ cpc' = IF ~h.continued /\ h.subtype = "BeginRun"
                       THEN "preamble" ELSE "reading"
     /\ UNCHANGED <<crate, words, stored, cut, begun, loaded>>

\* Any other header ends the event that was to be continued; the next one ends
\* the preamble.
ReadOther ==
  /\ cpc = "reading" /\ WordAt(at + 1).type # "SystemEvent"
  /\ at' = at + 1 /\ open' = FALSE
  /\ cpc' = IF open THEN "reading" ELSE "preamble"
  /\ UNCHANGED <<crate, words, stored, cut, begun, events, total, loaded>>

Found == SelectSeq(events, LAMBDA e : e.type = "MVLCCrateConfig")

\* The start of a document is at best a document without the last keys, the
\* last command list of which may have lost groups; often it cannot be parsed.
CutDocs(doc) ==
  {[k \in {KeyOrder[i] : i \in 1..n} |->
      IF k = KeyOrder[n] /\ n > 5 /\ doc[k].groups # <<>>
      THEN [doc[k] EXCEPT !.groups = Front(@)] ELSE doc[k]] : n \in 1..Len(KeyOrder)}

\* init_common(): the first configuration found, or an exception.
InitCommon ==
  /\ cpc = "preamble"
  /\ \/ Found = <<>> /\ cpc' = "failed" /\ UNCHANGED loaded
     \/ /\ Found # <<>> /\ Head(Found).contents = Contents("MVLCCrateConfig", words)
        /\ loaded' = crate_config_from_yaml(to_yaml(crate)) /\ cpc' = "loaded"
     \/ /\ Found # <<>> /\ Head(Found).contents # Contents("MVLCCrateConfig", words)
        /\ \/ cpc' = "failed" /\ UNCHANGED loaded
           \/ \E doc \in CutDocs(to_yaml(crate)) :
                IF Loadable(doc)
                THEN loaded' = crate_config_from_yaml(doc) /\ cpc' = "loaded"
                ELSE cpc' = "failed" /\ UNCHANGED loaded
  /\ UNCHANGED <<crate, words, stored, cut, begun, at, events, open, total>>

Next ==
  \/ \E extension \in {".json", ".yaml"} : SaveAndLoad(extension)
  \/ WritePreamble \/ WriteBeginRun \/ WriteReadout \/ Crash \/ CloseAndOpen
  \/ ReadSection \/ ReadOther \/ InitCommon

Spec == Init /\ [][Next]_crateVars

(***************************************************************************)
(* What a load must preserve: the connection, what each stack reads and    *)
(* into which module it goes, the triggers, the command lists and, because *)
(* they are written one after the other, the values the init registers end *)
(* up with.  The crate id is not preserved.                                *)
(***************************************************************************)
SameCommands(a, b) ==
  /\ a.name = b.name /\ Len(a.groups) = Len(b.groups)
  /\ \A g \in DOMAIN a.groups :
       /\ a.groups[g].name = b.groups[g].name
       /\ Len(a.groups[g].commands) = Len(b.groups[g].commands)
       /\ \A c \in DOMAIN a.groups[g].commands :
            a.groups[g].commands[c].text = b.groups[g].commands[c].text

SameStacks(a, b) ==
  /\ Len(a.stacks) = Len(b.stacks)
  /\ \A s \in DOMAIN a.stacks : SameCommands(a.stacks[s], b.stacks[s])

RegisterEffect(regs) ==
  {<<regs[i][1], regs[i][2]>> :
     i \in {i \in DOMAIN regs : \A j \in DOMAIN regs : j > i => regs[j][1] # regs[i][1]}}

\* A configuration loaded from a file or from a complete listfile connects to the
\* same MVLC and sets up the same stacks, triggers, registers and command lists as
\* the one that was saved (mvlc_readout_config.cc, init_common).  Its crate id is
\* always 0, and metadata and comments of command lists are gone.
ConfigSurvives ==
  cpc = "loaded" /\ ~cut =>
    /\ loaded.connection = crate.connection /\ loaded.triggers = crate.triggers
    /\ SameStacks(loaded, crate)
    /\ RegisterEffect(loaded.initRegisters) = RegisterEffect(crate.initRegisters)
    /\ SameCommands(loaded.initTriggerIO, crate.initTriggerIO)
    /\ SameCommands(loaded.initCommands, crate.initCommands)
    /\ SameCommands(loaded.stopCommands, crate.stopCommands)
    /\ SameCommands(loaded.mcstDaqStart, crate.mcstDaqStart)
    /\ SameCommands(loaded.mcstDaqStop, crate.mcstDaqStop)

\* A replay of a recording that died while its preamble was written either does
\* not start or parses with the stacks the data were taken with
\* (crate_config_from_yaml, init_common).
CutRecordingSafe == cpc = "loaded" => SameStacks(loaded, crate)

\* read_preamble() returns the events that were written, whole and in order, up
\* to and including BeginRun, however many sections each of them took.
PreambleReadBack ==
  cpc = "preamble" /\ ~cut =>
    /\ Len(events) = IF begun THEN 3 ELSE 2
    /\ events[1] = [type |-> "EndianMarker", contents |-> Contents("EndianMarker", 1)]
    /\ events[2] = [type |-> "MVLCCrateConfig",
                    contents |-> Contents("MVLCCrateConfig", words)]
    /\ begun => /\ events[3].contents = Contents("BeginRun", 2)
                /\ at = Len(stored) - (IF Last(stored) = Frame THEN 1 ELSE 0)
=============================================================================
