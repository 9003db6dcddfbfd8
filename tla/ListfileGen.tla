----------------------------- MODULE ListfileGen -----------------------------
(***************************************************************************)
(* Writing events back as MVLC readout data (mvlc_listfile_gen.cc): the    *)
(* parts of an event's modules go into a stack frame, the dynamic ones     *)
(* into block frames inside it.  When a frame is full both are closed with *)
(* their continue flags and opened again in a stack continuation; the      *)
(* length of a frame is only known, and written into its header, when it   *)
(* is closed.  System events are split the same way.                       *)
(***************************************************************************)
EXTENDS Integers, Sequences, SequencesExt

CONSTANTS GenModules,    \* modules of an event
          MaxPart,       \* words of a part of a module's data
          FrameLimits,   \* values of frameMaxWords
          LengthMod      \* 2^13: range of the length field of a header

VARIABLES
    genJob,     \* the arguments: modules, or size of the raw data or of a system
                \* event, and frameMaxWords
    gs,         \* GenState: the buffer and the open frames
    genLeft     \* what is still to be written

genVars == <<genJob, gs, genLeft>>

NoDynamic == -1
Modules == [prefix : 0 .. 1, dynamic : {NoDynamic} \cup 0 .. MaxPart, suffix : 0 .. 1]

\* The work of write_module_data(): the words of a module, in order, and where
\* its block frame is opened and closed.
Word(part, m, i) == [what |-> part, m |-> m, i |-> i]
Work(m, module) ==
    [i \in 1 .. module.prefix |-> Word("prefix", m, i)]
    \o (IF module.dynamic = NoDynamic THEN <<>>
        ELSE <<Word("open", m, 0)>> \o [i \in 1 .. module.dynamic |-> Word("dynamic", m, i)]
             \o <<Word("close", m, 0)>>)
    \o [i \in 1 .. module.suffix |-> Word("suffix", m, i)]

Closed == [at |-> 0, n |-> 0]
is_frame_open(frame) == frame.at # 0

push_frame_header(g, f, type) ==
    LET dest == Append(g.dest, [what |-> type, len |-> 0, continue |-> FALSE])
    IN  [g EXCEPT !.dest = dest, ![f] = [at |-> Len(dest), n |-> 0]]

close_frame(g, f) ==
    [g EXCEPT !.dest[g[f].at].len = g[f].n % LengthMod, ![f] = Closed]

\* The frame is closed, to be continued in another one.
MarkContinued(g, f) == [g EXCEPT !.dest[g[f].at].continue = TRUE]

OpenBlockFrame(g) ==
    [push_frame_header(g, "block", "block") EXCEPT !.stack.n = @ + 1]

\* Mutant: the block that is interrupted does not say that it goes on.
Mutcontinue_stack_frame(g) ==
    LET reopen == is_frame_open(g.block)
        g1 == IF reopen THEN close_frame(g, "block") ELSE g
        g2 == push_frame_header(close_frame(MarkContinued(g1, "stack"), "stack"),
                                "stack", "continuation")
    IN  IF reopen THEN OpenBlockFrame(g2) ELSE g2

\* The new frame is empty and frameMaxWords at least 2, so that the block frame
\* opened in it is not continued at once.
continue_stack_frame(g) ==
    LET reopen == is_frame_open(g.block)
        g1 == IF reopen THEN close_frame(MarkContinued(g, "block"), "block") ELSE g
        g2 == push_frame_header(close_frame(MarkContinued(g1, "stack"), "stack"),
                                "stack", "continuation")
    IN  IF reopen THEN OpenBlockFrame(g2) ELSE g2

\* Mutant: the block header is put into a stack frame that is full.
Mutstart_new_block_frame(g, max) == OpenBlockFrame(g)

\* A block frame is not opened in the last word of a stack frame.
start_new_block_frame(g, max) ==
    OpenBlockFrame(IF g.stack.n >= max - 1 THEN continue_stack_frame(g) ELSE g)

continue_block_frame(g) ==
    OpenBlockFrame(close_frame(MarkContinued(g, "block"), "block"))

push_data_word(g, w) ==
    [g EXCEPT !.dest = Append(@, w), !.stack.n = @ + 1,
              !.block.n = IF is_frame_open(g.block) THEN @ + 1 ELSE @]

write_non_block_word(g, w, max) ==
    push_data_word(IF g.stack.n >= max THEN continue_stack_frame(g) ELSE g, w)

write_block_word(g, w, max) ==
    LET g1 == IF g.stack.n >= max THEN continue_stack_frame(g) ELSE g
        g2 == IF ~is_frame_open(g1.block) THEN start_new_block_frame(g1, max)
              ELSE IF g1.block.n >= max THEN continue_block_frame(g1) ELSE g1
    IN  push_data_word(g2, w)

Empty == [dest |-> <<>>, stack |-> Closed, block |-> Closed]

GenInit ==
    /\ genJob \in [kind : {"event"}, modules : [1 .. GenModules -> Modules], max : FrameLimits]
                  \cup [kind : {"raw", "system"}, size : 0 .. 2 * MaxPart, max : FrameLimits]
    /\ gs = push_frame_header(Empty, "stack", IF genJob.kind = "system" THEN "system" ELSE "stack")
    /\ genLeft = IF genJob.kind = "event"
                 THEN FlattenSeq([m \in 1 .. GenModules |-> Work(m, genJob.modules[m])])
                 ELSE [i \in 1 .. genJob.size |-> Word("data", 0, i)]

\* One step of write_module_data(), in the loop of write_event_data().
write_module_data ==
    /\ genJob.kind = "event" /\ genLeft # <<>>
    /\ LET w == Head(genLeft)
       IN  gs' = CASE w.what = "open" -> start_new_block_frame(gs, genJob.max)
                   [] w.what = "close" -> close_frame(gs, "block")
                   [] w.what = "dynamic" -> write_block_word(gs, w, genJob.max)
                   [] OTHER -> write_non_block_word(gs, w, genJob.max)
    /\ genLeft' = Tail(genLeft)
    /\ UNCHANGED genJob

\* The loop of the write_event_data() that takes raw data: nothing looks at the
\* limit but an assertion.
write_raw_word ==
    /\ genJob.kind = "raw" /\ genLeft # <<>>
    /\ gs' = push_data_word(gs, Head(genLeft))
    /\ genLeft' = Tail(genLeft)
    /\ UNCHANGED genJob

write_system_event ==
    /\ genJob.kind = "system" /\ genLeft # <<>>
    /\ LET g == IF gs.stack.n < genJob.max THEN gs
                ELSE push_frame_header(close_frame(MarkContinued(gs, "stack"), "stack"),
                                       "stack", "system")
       IN  gs' = push_data_word(g, Head(genLeft))
    /\ genLeft' = Tail(genLeft)
    /\ UNCHANGED genJob

\* The end of both write_event_data() and of write_system_event().
write_event_data ==
    /\ genLeft = <<>> /\ is_frame_open(gs.stack)
    /\ gs' = close_frame(gs, "stack")
    /\ UNCHANGED <<genJob, genLeft>>

GenNext == write_module_data \/ write_raw_word \/ write_system_event \/ write_event_data

-----------------------------------------------------------------------------
(* Reading back                                                            *)

IsHeader(w) == w.what \in {"stack", "continuation", "block", "system"}

\* The contents of a chain of frames that starts at at; Bad is in it when the
\* chain is broken.
Bad == Word("bad", 0, 0)
Unframed(words, first, kind) ==
    LET from[at \in 1..Len(words), expect \in {"system", "stack", "continuation"}] ==
            LET h == words[at]
                end == at + h.len
            IN  IF h.what # expect \/ end > Len(words) THEN <<Bad>>
                ELSE SubSeq(words, at + 1, end) \o
                     (IF h.continue
                      THEN IF end = Len(words) THEN <<Bad>>
                           ELSE from[end + 1, IF expect = "stack" THEN "continuation" ELSE expect]
                      ELSE IF end < Len(words) THEN <<Bad>> ELSE <<>>)
    IN  from[first, kind]

\* The words of a stack as the parser takes them: blocks that are continued are
\* joined, a block that ends counts as its end.
Joined(words) ==
    LET from[at \in 1..(Len(words) + 1)] ==
            IF at > Len(words) THEN <<>>
            ELSE IF ~IsHeader(words[at]) THEN <<words[at]>> \o from[at + 1]
            ELSE LET h == words[at]
                     end == at + h.len
                 IN  IF end > Len(words) THEN <<Bad>>
                     ELSE SubSeq(words, at + 1, end)
                          \o (IF h.continue
                              THEN IF end < Len(words) /\ words[end + 1].what = "block" THEN <<>>
                                   ELSE <<Bad>>
                              ELSE <<Word("close", 0, 0)>>)
                          \o from[end + 1]
    IN  from[1]

-----------------------------------------------------------------------------
(* Properties                                                              *)

\* Raw data goes into one frame: the caller has to keep it within the limit, as
\* the assertion in push_data_word() says.
RawTooLong == genJob.kind = "raw" /\ genJob.size > genJob.max

\* No frame that is open or closed has more words than frameMaxWords, and a
\* block frame is inside one stack frame: what the assertions of
\* push_data_word() and the length field of a header rely on.  Raw data longer than
\* frameMaxWords is the exception.
FramesWithinLimit ==
    ~RawTooLong =>
        /\ gs.stack.n <= genJob.max /\ gs.block.n < genJob.max
        /\ is_frame_open(gs.block) => gs.stack.at < gs.block.at /\ gs.block.n < gs.stack.n
        /\ \A k \in 1 .. Len(gs.dest) : IsHeader(gs.dest[k]) => gs.dest[k].len <= genJob.max

\* What is written is read back: the frames form one chain without a gap, and
\* the words, with the ends of the dynamic parts, are those of the modules;
\* wherever a frame limit interrupts a part.  Raw data is read back as long as its
\* size fits the length field.
GeneratedReadBack ==
    ~is_frame_open(gs.stack) =>
        IF genJob.kind = "event"
        THEN LET work == FlattenSeq([m \in 1 .. GenModules |-> Work(m, genJob.modules[m])])
                 Unopened(w) == w.what # "open"
             IN  Joined(Unframed(gs.dest, 1, "stack"))
                   = [k \in 1 .. Len(SelectSeq(work, Unopened)) |->
                        LET w == SelectSeq(work, Unopened)[k]
                        IN  IF w.what = "close" THEN Word("close", 0, 0) ELSE w]
        ELSE (genJob.kind = "raw" => genJob.size < LengthMod) =>
             Unframed(gs.dest, 1, IF genJob.kind = "raw" THEN "stack" ELSE "system")
               = [i \in 1 .. genJob.size |-> Word("data", 0, i)]
=============================================================================
