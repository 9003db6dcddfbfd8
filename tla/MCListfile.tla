----------------------------- MODULE MCListfile -----------------------------
(***************************************************************************)
(* Small instances of the listfile layer: a behaviour is one of a listfile *)
(* being written and read back, of a replay, of an archive update, of a    *)
(* crate configuration that is saved and loaded again, or of events that   *)
(* are written as readout data.                                            *)
(***************************************************************************)
EXTENDS SplitZip

CONSTANTS FrameSizes, SystemFrames, Truncations, Capacity, Buffers, MaxCalls,
          Archive, OpLists,
          Crates, DocWords, LengthMask, PreambleReadMax,
          GenModules, MaxPart, FrameLimits, LengthMod

VARIABLES
    part,               \* what this behaviour is about
    file, format, state, desiredState, wpc, state_, target, then,
    pos, previousData, hasBuffer, eof, emptyBuffers, filled, parsing, parsed,
    upc, started, calls, overwritten,
    ops, input, temp, tempComplete, step, index, result,
    crate, words, stored, cpc, cut, begun, at, events, open, total, loaded,
    genJob, gs, genLeft

RW == INSTANCE ReplayWorker
ZU == INSTANCE ZipUpdate
CF == INSTANCE CrateFile
LG == INSTANCE ListfileGen

\* A snoop buffer has room for every frame, which the length fields of the frames
\* guarantee; an ETH packet is at least its two header words, and the same frames are
\* replayed in each format.
ASSUME ReplayAssumption ==
    /\ FrameSizes \in Seq(Nat \ {0}) /\ Capacity \in Nat /\ Buffers \in Nat
    /\ \A f \in DOMAIN FrameSizes :
         FrameSizes[f] <= Capacity /\ (f \notin SystemFrames => FrameSizes[f] >= 2)
    /\ Truncations \subseteq 0..Len(RW!Words)

Modes == {[mode |-> m, type |-> t, overwrite |-> o, splitSize |-> 3] :
            m \in {"DontSplit", "SplitBySize", "SplitByTime"},
            t \in {"ZIP", "LZ4"}, o \in BOOLEAN}
Leftovers == {{}, {2}, {1, 2, 3}}

Frames == <<1, 3, 2, 4, 2>>

\* Two files; lists of up to two operations on them and on a third one.
Two == <<[name |-> "listfile", data |-> 1], [name |-> "analysis", data |-> 2]>>
Operations == {[op |-> o, name |-> n, data |-> d] :
    o \in {"add", "update", "delete"}, n \in {"listfile", "analysis", "notes"}, d \in {3, 4}}
Lists == {<<a>> : a \in Operations} \cup {<<a, b>> : a, b \in Operations}

\* Stacks with one, two and no modules, repeated and unordered init registers,
\* metadata, comments and command lists of several groups.
Group(n, cmds) == [name |-> n, meta |-> "m", commands |-> [c \in DOMAIN cmds |->
                     [text |-> cmds[c], comment |-> "c"]]]
Stack(n, list) == [name |-> n, groups |-> list, yamlMeta |-> {"trigger_io_meta"}]
EventA == Stack("event0", <<Group("m0", <<1, 2>>), Group("reset", <<3>>)>>)
EventB == Stack("event1", <<Group("m0", <<>>)>>)
Lists2 == Stack("init", <<Group("a", <<4>>), Group("b", <<5>>)>>)
SavedCrates == {[crateId |-> id, connection |-> "usb", stacks |-> s, triggers |-> <<1, 2>>,
    initRegisters |-> r, initTriggerIO |-> Lists2, initCommands |-> Lists2,
    stopCommands |-> Lists2, mcstDaqStart |-> Lists2, mcstDaqStop |-> m] :
      id \in {0, 1}, s \in {<<EventA, EventB>>, <<EventB>>, <<>>},
      r \in {<<>>, <<<<2, 5>>, <<1, 6>>>>, <<<<2, 5>>, <<1, 6>>, <<2, 7>>>>},
      m \in {Lists2, Stack("", <<>>)}}

-----------------------------------------------------------------------------
replayVars == <<file, format, state, desiredState, wpc, state_, target, then,
                pos, previousData, hasBuffer, eof, emptyBuffers, filled, parsing,
                parsed, upc, started, calls, overwritten>>
updateVars == <<ops, input, temp, tempComplete, step, index, result>>
crateVars == <<crate, words, stored, cpc, cut, begun, at, events, open, total, loaded>>
genVars == <<genJob, gs, genLeft>>
listfileVars == <<part, vars, replayVars, updateVars, crateVars, genVars>>

\* The parts a behaviour is not about have one initial state.
PlainSetup == setup = CHOOSE s \in Setups : TRUE
PlainReplay == file = RW!Words /\ format = "ETH"
PlainUpdate == ops = CHOOSE l \in OpLists : TRUE
PlainCrate == crate = (CHOOSE c \in Crates : TRUE) /\ words = (CHOOSE n \in DocWords : TRUE)

PlainEvent == genJob = [kind |-> "system", size |-> 0, max |-> CHOOSE m \in FrameLimits : TRUE]

ListfileInit ==
    /\ \/ part = "zip" /\ PlainReplay /\ PlainUpdate /\ PlainCrate /\ PlainEvent
       \/ part = "replay" /\ PlainSetup /\ PlainUpdate /\ PlainCrate /\ PlainEvent
       \/ part = "update" /\ PlainSetup /\ PlainReplay /\ PlainCrate /\ PlainEvent
       \/ part = "crate" /\ PlainSetup /\ PlainReplay /\ PlainUpdate /\ PlainEvent
       \/ part = "events" /\ PlainSetup /\ PlainReplay /\ PlainUpdate /\ PlainCrate
    /\ Init /\ RW!Init /\ ZU!Init /\ CF!Init /\ LG!GenInit
    /\ part = "zip" \/ \A f \in Files : ~files[f].exists

ListfileNext ==
    /\ \/ part = "zip" /\ Next /\ UNCHANGED <<replayVars, updateVars, crateVars, genVars>>
       \/ part = "replay" /\ RW!Next /\ UNCHANGED <<vars, updateVars, crateVars, genVars>>
       \/ part = "update" /\ ZU!Next /\ UNCHANGED <<vars, replayVars, crateVars, genVars>>
       \/ part = "crate" /\ CF!Next /\ UNCHANGED <<vars, replayVars, updateVars, genVars>>
       \/ part = "events" /\ LG!GenNext /\ UNCHANGED <<vars, replayVars, updateVars, crateVars>>
    /\ UNCHANGED part

\* The fairness of the instances, in the behaviours that are about them.
Replay(A) == part = "replay" /\ A /\ UNCHANGED <<part, vars, updateVars, crateVars, genVars>>
Update(A) == part = "update" /\ A /\ UNCHANGED <<part, vars, replayVars, crateVars, genVars>>

ListfileSpec ==
    /\ ListfileInit /\ [][ListfileNext]_listfileVars
    /\ WF_listfileVars(Replay(RW!Worker)) /\ WF_listfileVars(Replay(RW!Parser))
    /\ WF_listfileVars(Replay(RW!StopRequest)) /\ WF_listfileVars(Replay(RW!StopReturns))
    /\ WF_listfileVars(Update(ZU!Next))

\* What was written is in the archives once and can be read back: in parts within their
\* limit that each can be replayed (SplitZipCreator, SplitZipReader), except what the
\* compressor held when a write or a close failed, and what a reader misses or mixes
\* that follows a recording under way; and after update_zip in the old or in the new
\* form, with every name once.
ArchivesWhole ==
    /\ RecordedOnce /\ PartsReplayable /\ PartBounded /\ ReadBack
    /\ ZU!AllOrNothing /\ ZU!NamesUnique

\* A replay hands on whole frames in the order of the listfile, all of them when it
\* ends by itself, and no snoop buffer is lost (ReplayWorker::Private::loop).
ReplayFaithful ==
    RW!WholeFramesInOrder /\ RW!ReplayComplete /\ RW!SnoopBuffersConserved

\* A listfile is read as it was written: the crate configuration, but for the crate id,
\* and the preamble, also of a recording that was cut off, and frames made by the
\* generator, none above the limit unless raw data is given to it that is.
FilesReadBack ==
    /\ CF!ConfigSurvives /\ CF!CutRecordingSafe /\ CF!PreambleReadBack
    /\ LG!FramesWithinLimit /\ LG!GeneratedReadBack

\* stop() ends a replay, and update_zip ends without a temporary archive left behind.
FilesCallsEnd == RW!StopEnds /\ (part = "update" => ZU!EndsClean)
=============================================================================
