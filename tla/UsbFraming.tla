------------------------------ MODULE UsbFraming ------------------------------
(***************************************************************************)
(* Cutting the byte stream of the USB data pipe into readout buffers       *)
(* (mvlc_readout_worker.cc).  A transfer may end anywhere; a buffer that   *)
(* is handed on has to end with a whole frame, and the start of the next   *)
(* frame waits in previousData for the next call.  There are two such      *)
(* loops, the one of the readout worker and the free function readout()    *)
(* for programs with a loop of their own.                                  *)
(*                                                                         *)
(* A word of the stream is the header of a frame with the words that       *)
(* follow it, a word of a payload or a word that belongs to no frame.      *)
(***************************************************************************)
EXTENDS Integers, Sequences, SequencesExt

CONSTANTS
  Streams,            \* what the MVLC may send: sequences of words
  ReadSize,           \* USBStreamPipeReadSize, in words
  DestSize            \* size of an output buffer, in words

VARIABLES
  stream,             \* what the MVLC sends
  loop,               \* "worker" or "free": whose loop this is
  fpc,                \* "call", "read" or "fixup"
  taken,              \* words taken from the device
  buffer,             \* the destination buffer
  capacity,           \* and its size
  transferred,        \* totalBytesTransferred of this call, in words
  previousData,       \* tmpBuffer: the start of a frame, for the next call
  carried,            \* some call has started with words of the one before
  handedOn            \* words of the buffers that went on to the listfile

framingVars == <<stream, loop, fpc, taken, buffer, capacity, transferred,
                 previousData, carried, handedOn>>

is_valid_readout_frame(w) == w.type \in {"StackFrame", "StackContinuation", "SystemEvent"}

\* The words fixup_usb_buffer() walks over: whole frames, and words that are
\* not the header of a frame, one by one.
MutCompleteWords(ws) ==
  LET n == Len(ws)
      walk[i \in 0..n] ==
        CASE i = n -> n
          [] i < n /\ ~is_valid_readout_frame(ws[i + 1]) -> walk[i + 1]
          [] OTHER -> IF i + ws[i + 1].len > n THEN i
                      ELSE IF i + ws[i + 1].len + 1 > n THEN n
                      ELSE walk[i + ws[i + 1].len + 1]
  IN walk[0]

CompleteWords(ws) ==
  LET n == Len(ws)
      walk[i \in 0..n] ==
        CASE i = n -> n
          [] i < n /\ ~is_valid_readout_frame(ws[i + 1]) -> walk[i + 1]
          [] OTHER -> IF i + ws[i + 1].len + 1 > n THEN i
                      ELSE walk[i + ws[i + 1].len + 1]
  IN walk[0]

Init ==
  /\ stream \in Streams /\ loop \in {"worker", "free"} /\ fpc = "call"
  /\ taken = 0 /\ buffer = <<>> /\ capacity = DestSize /\ transferred = 0
  /\ previousData = <<>> /\ carried = FALSE /\ handedOn = <<>>

\* What the previous call left over starts the new buffer.  The worker makes
\* room for it and for one transfer, the free function takes what it is given.
BeginReadout ==
  /\ fpc = "call" /\ taken < Len(stream)
  /\ IF loop = "worker" \/ DestSize >= Len(previousData)
     THEN buffer' = previousData /\ previousData' = <<>>
     ELSE buffer' = <<>> /\ UNCHANGED previousData
  /\ carried' = (carried \/ previousData # <<>>)
  /\ capacity' = IF loop = "free" \/ DestSize >= Len(previousData) + ReadSize
                 THEN DestSize ELSE Len(previousData) + ReadSize
  /\ transferred' = 0 /\ fpc' = "read"
  /\ UNCHANGED <<stream, loop, taken, handedOn>>

\* read_unbuffered(): up to ReadSize words, fewer or none with a timeout.
ReadUnbuffered ==
  /\ fpc = "read" /\ capacity - Len(buffer) >= ReadSize
  /\ \E n \in 1..ReadSize :
       /\ taken + n <= Len(stream)
       /\ buffer' = buffer \o SubSeq(stream, taken + 1, taken + n)
       /\ taken' = taken + n /\ transferred' = transferred + n
  /\ UNCHANGED <<stream, loop, fpc, capacity, previousData, carried, handedOn>>

\* The buffer is full, the flush timeout has passed or the connection is gone.
ReadLoopEnds ==
  /\ fpc = "read" /\ fpc' = "fixup"
  /\ UNCHANGED <<stream, loop, taken, buffer, capacity, transferred, previousData,
                 carried, handedOn>>

\* fixup_usb_buffer() of the worker, and the buffer goes on.
FixupWorker ==
  LET whole == SubSeq(buffer, 1, CompleteWords(buffer))
  IN /\ fpc = "fixup" /\ loop = "worker"
     /\ handedOn' = handedOn \o whole
     /\ previousData' = SubSeq(buffer, Len(whole) + 1, Len(buffer))
     /\ fpc' = "call"
     /\ UNCHANGED <<stream, loop, taken, buffer, capacity, transferred, carried>>

\* The free function looks at as many words as this call transferred, from the
\* start of the buffer, where the words of the previous call are too.
FixupFree ==
  LET seen == SubSeq(buffer, 1, transferred)
      rest == SubSeq(seen, CompleteWords(seen) + 1, transferred)
  IN /\ fpc = "fixup" /\ loop = "free"
     /\ handedOn' = handedOn \o SubSeq(buffer, 1, Len(buffer) - Len(rest))
     /\ previousData' = rest /\ fpc' = "call"
     /\ UNCHANGED <<stream, loop, taken, buffer, capacity, transferred, carried>>

Next == BeginReadout \/ ReadUnbuffered \/ ReadLoopEnds \/ FixupWorker \/ FixupFree

Spec == Init /\ [][Next]_framingVars

(***************************************************************************)
(* Properties                                                              *)
(***************************************************************************)
\* Between two calls every word taken from the device has gone on exactly once
\* or waits in previousData, and what went on ends with a whole frame
\* (readout_usb, fixup_usb_buffer).  Of the free function this holds as long as
\* no call left anything over.
StreamIntact ==
  fpc = "call" /\ (loop = "worker" \/ ~carried) =>
    /\ handedOn \o previousData = SubSeq(stream, 1, taken)
    /\ CompleteWords(stream) >= Len(handedOn)
    /\ Len(handedOn) = Len(stream) \/ stream[Len(handedOn) + 1].type # "payload"
=============================================================================
