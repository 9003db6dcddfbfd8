# A TLA+ development of mesytec-mvlc

mesytec-mvlc is the C++ driver library for the MVLC VME controller: it sends
command stacks to the controller over USB or UDP, runs the data acquisition
(DAQ) readout, writes listfiles, parses the data stream into events, builds
events across modules and crates, and hands the data to the user.  This
directory holds TLA+ models of it, the TLC configurations that check them on
small instances, and TLAPS proofs of what holds for every value of the
parameters.  Paths below are relative to `src/src/mesytec-mvlc/` unless they start
with `extras/`, which is `src/extras/`.

## 1. Inventory

| Component | State | Operations | Talks to |
|---|---|---|---|
| Command pipe, `mvlc.cc` | pending super and stack response, reference counters, reader thread and its buffer, `isConnected_` | `connect`, `disconnect`, register and VME accesses, `superTransaction`, `stackTransaction`, `uploadStack`, `cmd_pipe_reader` | transports, every caller of `MVLC` |
| Readout worker, `mvlc_readout_worker.cc` | `state`, `desiredState`, `outputBuffer_`, listfile queues, `eptr` | `start`, `stop`, `pause`, `resume`, `loop`, `startReadout`, `terminateReadout`, `listfile_buffer_writer` | MVLC commands, snoop queues, listfile handle, plugins |
| `MVLCReadout`, `mvlc_readout.cc` | worker, parser thread, listfile handle | `start`, `stop`, `pause`, `resume`, destructor | readout worker, parser thread |
| Blocking data API, `mvlc_blocking_data_api.cc` | `BlockingContext`, monitor thread | `next_event`, `start`, parser callbacks, `monitor`, destructor | parser thread, worker state, user thread |
| Readout parser, `mvlc_readout_parser.cc`, `_util.cc` | parse state, work buffer, packet numbers | `parse_readout_buffer`, `run_readout_parser` | snoop queues, callbacks |
| Event builders, `event_builder.cc`, `event_builder2.cc`, `util/data_filter.cc` | per module queues, stamps, counters | record, match by time stamp, flush | parser callbacks |
| Replay, `mvlc_replay_worker.cc`, `mvlc_replay.cc` | `state`, `desiredState`, output buffer | as the readout worker, reading a file | snoop queues, listfile |
| Listfiles, `mvlc_listfile*.cc` | archives, LZ4 frames, parts | `write`, `close`, split, read, update, generate | readout and replay worker |
| Configuration, `mvlc_readout_config.cc` | crate configuration | to and from YAML and JSON | listfile preamble |
| ETH transport, `mvlc_impl_eth.cc` | sockets, receive buffers, packet counters, throttle thread | `connect`, `disconnect`, `read`, `read_packet` | OS sockets |
| USB transport, `mvlc_impl_usb_*.cc` | FTDI handle, read buffers, clean up threads | the same | FTDI driver |
| Dialog, `mvlc_dialog.cc` | one conversation on the command pipe | mirror, super and stack transactions | transports |
| Bus scan, `scanbus_support.cc` | none | scan, identify | VME accesses |
| Command builders, `mvlc_command_builders.cc` | lists and groups of commands | build, encode, decode, print, parse | init sequence, configuration |
| Init sequence, `init_readout()`, `mvlc_dialog_util.h` | stack memory and trigger registers of the MVLC | run stacks, upload, set triggers | command pipe |
| Trigger I/O, `mvlc_trigger_io_*.cc` | units and their settings | save, load | scripts |
| Locks and queues, `mvlc_threading.h`, `util/ticketmutex.h`, `util/protected.h`, `util/threadsafequeue.h` | ticket counters, queues, condition variables | lock, wait, enqueue, dequeue | all threads |
| Stack error monitor, `mvlc_stack_errors.h` | counters | count, record, decode | command pipe reader, worker plugin |
| Stream server, `stream_server_asio.cc` | clients, acceptors, writes under way | `listen`, `stop`, accept, broadcast | listfile writer |
| FRIB DAQ readout, `extras/fribdaq` | run state, ring items, slow controls modules | run commands, Set, Get, Update, mon, lists | MVLCReadout, VME bus, Tcl clients |
| Tools | | option parsing and calls in sequence | not modelled |

What is hard is threefold.  *Threads*: condition variables shared by several
waiters, a worker steered by two atomics that nobody locks together, an output
buffer that two threads use in turn without a lock, threads that are stopped by
sentinels, flags and joins.  *Failure*: requests and answers over a link that
loses, delays and repeats, connections and archives that fail in the middle,
retries of what was already done.  *Translations*: stacks, preambles,
configurations, frames and time stamps that are written in one place and read
back in another.  PROJECT.json lists each such place as a hazard, at its line.

What makes the parts correct:

* command pipe: an answer reaches the caller it belongs to and nobody else; no
  response vector is written after its owner has returned; every call returns;
* readout worker: no buffer is lost or shared; the listfile holds what was
  produced, in order and complete; after pause and stop the controller is quiet
  and drained; start and stop return;
* blocking API: no lost wake-up, no event replaced under its reader, order,
  completeness, and an end that is always seen;
* readout parser: only complete and unmixed events, in order and once; a loss
  costs the events it hit and no other; every buffer is parsed to its end;
* event builders: data leaves once and in order, with what it belongs to;
* listfiles and replay: what was written can be read back, also after a crash;
* transports: nothing that was received is lost or returned twice, and no socket
  or handle outlives its owner;
* translations: the way there and back is the identity, or the loss is known;
* locks and queues: one owner, first come first served, no wake-up lost;
* outputs: what is reported of a run or of a module is true.

## 2. Structure

Every component has a module.  A `.cfg` gives the small instance, with an `MC`
module where its constants need definitions; proofs are in a `_proofs` module.  `MCEventBuilders`, `MCListfile`,
`MCTransport`, `MCCodec`, `MCServices` and `MCOutputs` put several components into
one run: a behaviour is about one of them, which a selector variable (`part`,
`builder`, `subject`) chooses in the initial state, and the others keep their
initial state.  Their properties are conjunctions of the properties of the parts,
which are defined and explained in the modules of the parts.  Definitions whose
name starts with `Mut` are variants of the definition after them, with a bug the
code could plausibly have; they show that a property can fail.

Components that interact are composed in one module where the interaction is what
matters: facade, worker, asynchronous reader and listfile writer in
`ReadoutWorker`; worker, parser, monitor and caller in `BlockingApi`; API thread,
reader thread, link and controller in `CmdPipe`; run commands, worker, parser and
ring in `FribdaqRun`.  `FairLock` is an abstract specification that `TicketMutex`
is shown to implement.

In all modules `assert()` is compiled out, as in a release build; what the
asserts claim is stated as properties.  A step is one access to shared state: a
critical section, a load or store of an atomic, an operation on a thread safe
queue, a notification.  Program counters (`pc`, `lpc`, `upc`, `rpc`, `wpc`, ...)
name the place between two such accesses.

## 3. The modules and the code

### BlockingApi

`ready`, `processed`, `event` are the fields of `BlockingContext`; `waiting` is
the set of threads inside `cv_.wait()`.  `NotifyOne` wakes one of them, chosen
arbitrarily; a woken thread evaluates its predicate again.  Spurious wake-ups
add nothing: they only lead to another evaluation.  The parser thread
(`ParserCheckQuit` ... `ParserNotify`) is `run_readout_parser()` with
`event_data_blocking()` and `system_event_blocking()`; the monitor actions follow
`monitor()` statement by statement; `NextEvent*` are the four parts of
`next_event()`.  Event data is a stamp of the memory area it lives in: the
parser's one work buffer for readout events, the snoop buffer for system events.

### CmdPipe

`pc` is the place of the thread holding the command lock, inside
`superTransactionImpl()` (`super*`), `stackTransactionImpl()` (`exec*`), the retry
loops around them, or `connect()`/`disconnect()`.  `pendingSuper`, `pendingStack`
are the two `WaitableProtected<PendingResponse>`, `superFuture`, `stackFuture`
the values of their promises.  `CompleteFrame` is `contains_complete_frame()`.  The
controller (`DeviceAnswer`), the loss of packets and unsolicited packets are
external.  `TimeOut` lets a call give up when nothing can arrive any more, and
`MaxRaces` times although its answer is still under way.

Words are abstracted to what the reader distinguishes: header type, length and
Continue flag, a reference, a value, other data.  A data word never looks like a
header; in the code a payload word may, which makes its resynchronisation after a
loss worse than the model's.  Left out: `AlwaysCheckStackExecStatus`,
transactions called directly with references of the user's choice, span
destinations, duplicated or reordered packets, the counters.

### ReadoutWorker, UsbFraming

`state` and `desiredState` are written separately by `setState()`, as in the code
(`SetState`, `SetDesired`).  `LoopCheck` reads `desiredState` once per condition
of the loop.  `outputBuffer`, `out` are the output buffer and its sections,
numbered in the order they are produced; `lfEmpty`, `lfFilled` the listfile
queues, `snEmpty`, `snFilled` the snoop queues.  `flushCurrentOutputBuffer`
is disabled while the code blocks in `dequeue_blocking()`.  The asynchronous
reader (`rpc`) runs beside the commands of `startReadout()` and
`terminateReadout()`.  `WriterNext` is `listfile_buffer_writer()`.  The record
`options`, chosen in the initial state from the constant `Options`, says how the
readout is used: by `MVLCReadout` (`Facade`) or directly, with a listfile, with
multicast commands, and what may fail.  Three such uses are named at its end,
`Direct`, `Failing` and `Serving`.
The cutting of the USB stream into whole frames, by the worker and by the free
function `readout()`, is `UsbFraming`.

`WriterStartsFirst` is an assumption about scheduling: the writer thread has
marked itself running before the worker enters the run.  Nothing in the code
enforces it, which is observation 8 below; the failing instance of
`readout_safety` does without it.

### ReadoutParser

A word is what `extract_frame_info()` reads from it, plus ghost fields that say
which event, module and part it belongs to; the parser does not look at these,
the properties do.  A data word may look like a header.  `st` is
`ReadoutParserState` without the counters.  `pc` is the section of the loops:
`item` the loop over the packets and system frames of a buffer, `frame`, `part`
and `tail` the three sections of the loop in `parse_readout_contents()`.  The
error returns are collected in `FrameError` and `PartError`, in the order of the
code, and `Fails` is what both callers do with one.  `Structure` is computed from
the commands of the readout stacks by `parse_module_readout_commands()`.

The stream is fixed in the initial state; external actions cut it into packets
(anywhere) or USB buffers (between frames), lose packets, and drop buffers as the
snoop queue does.  `Expected` is the reference: the words of an event selected by
module and part.  Left out: counters, exceptions from truncated packets and
buffers, duplicated or reordered packets, `detect_buffer_type()`.

### EventBuilder2, EventBuilder, Timestamps

Every method holds a mutex from start to end, so a call is a step, and the loops
of `flush()` and `buildEvents()` are one step per round.  Module data is its
number, its stamp and whether it is empty or how large it is.  Stamps wrap at
`TimestampMax`.  `built` is the history of what the callback got.  `Timestamps` is
the way from a filter string to the stamp of a word.

### SplitZip, ReplayWorker, ZipUpdate, CrateFile, ListfileGen

`SplitZip` writes units through `ZipCreator` and `SplitZipCreator`, with a
compressor that holds some back, and reads the parts with `SplitZipReader`, also
while they are written: the change to the next part is a sequence of steps (close
the entry, close the archive, count, create, open the entry, preamble, write), each
of which may fail, and the reader may go on between any two of them.  A write that
fails loses what the compressor had taken.  `ReplayWorker` has the worker's two states, the file cut
into buffers of whole frames (`fixup_buffer`) and the parser that empties the
queue.  `ZipUpdate` is `update_zip_archive()`, with a failure, a cancellation or a
crash between any two of its calls.  `CrateFile` is the configuration as YAML and
JSON document and as sections of a preamble that may be cut off.  `ListfileGen`
writes events back as frames.

### EthConnection, EthPackets, UsbTransport, Dialog, VmeAccess

`EthConnection` is `connect()` and `disconnect()` call by call, descriptors being
the lowest unused numbers, and the throttle thread.  `EthPackets` is `read()` and
`read_packet()` over a network that loses, repeats and reorders.  `UsbTransport` is
`connect()` with its two clean up threads and the buffered read of Windows.
`Dialog` is the legacy command interface over a pipe with late answers.
`VmeAccess` has the single accesses, the block reads and the bus scan, on top of a
`stackTransaction()` that is one step.

### CommandBuilders, InitReadout, TriggerIO

`CommandBuilders` builds, encodes, decodes, prints and parses commands; a word is
a record of the three fields that the code cuts out.  `InitReadout` is
`init_readout()` stage by stage, with the callbacks in between, whose errors the next
stage may overwrite, and with the stack memory in which other threads run immediate
stacks meanwhile, also ones longer than the memory reserved for them (`overrun`).
`TriggerIO` saves and loads the units, whose registers are told apart by the last
unit selected, as VME script and as MVLC script; `LostOnLoad` names the settings that
loading does not read.

### TicketMutex, FairLock, WaitQueues, StackErrors

`TicketMutex` has two mutexes and threads that take one or both; the notification
of `unlock()` is a step of its own.  `FairLock` says what such a mutex promises.
`WaitQueues` has the pair of buffer queues and a waitable state, with callers that
wait with and without a time limit.  `StackErrors` counts notifications and records
what changed; the reset of the counters at the start of a run and the plugin's copy
of them are two steps.

### StreamServer, FribdaqRun, SlowControls, HighVoltage, TclDrivers, VmeList

`StreamServer` runs the handlers of the io thread in the order they were queued,
beside the owner that calls `listen()` and `stop()` and a sender.  `FribdaqRun` is
run control with the ring items.  The four others are the slow controls: compiled
drivers, the high voltage supply, scripted drivers, and lists sent by other
programs; every VME access may fail.

## 4. Runs

| Run | Properties | Shows |
|---|---|---|
| `blocking` | `NoLostWakeup`, `NextEventAssert`, `EventStable`, `EventsDelivered`, `WaitsEnd` | No lost wake-up on the shared condition variable; the asserts of `next_event()`; the event is never replaced while it is copied or used; events in order, None last, buffers conserved; a blocked `next_event()` and the destructor return. |
| `cmd_safety` | `PendingOwned`, `ReaderLifetime`, `AnswersAreOwn`, `StackAnswerIsPure` | Pending responses have living owners; there is no reader while disconnected and idle; register and stack answers are the caller's own, and a stack that succeeds returns nothing of another transaction. |
| `cmd_live` | `CommandsServed` | Calls return; the reader serves the pipe while no packet is lost. |
| `readout_safety` | `OneReader`, `BuffersConserved`, `RunsRecorded` | Single use of the output buffer; no buffer lost, whatever fails; the listfile is a gapless prefix of what was produced; without failures it is complete, all buffers return and the controller is drained. |
| `readout_live` | `CallsReturn` | `MVLCReadout::start()` and `stop()` return. |
| `parser` | `EventsParsed`, `LossContained`, `ParseTerminates` | Only complete events are delivered, in order and once; a loss costs no other event, errors have a cause; parsing ends. |
| `builders` | `EventsBuilt`, `EventsMatched`, `FlushDone` | Both builders put out data once, in order and with what it belongs to (a module without data may show its last part again); a late module is waited for; memory accounting; stamps as the filter describes; flushing ends and empties. |
| `listfile` | `ArchivesWhole`, `ReplayFaithful`, `FilesReadBack`, `FilesCallsEnd` | Split archives (less what a failing call loses), archive updates, replay, preambles and generated frames can be read back; the configuration survives but for the crate id, comments and meta data; `stop()` and the update end. |
| `transport` | `LinksSound`, `AccessesTrue`, `TransportsSettle` | Sockets, handles, packets and transfers; the dialog with late answers; VME accesses and scan; the throttler follows, disconnecting and cleaning up end. |
| `codec` | `CommandsTranslated`, `ReadoutInitialized`, `SettingsSurvive` | Commands survive their translations; `init_readout()` succeeds only with whole stacks and triggers, though it may hide errors of registers, modules and callbacks; trigger I/O settings survive saving and loading in the form that loading reads, except those it is known not to read. |
| `services` | `MutualExclusion`, `LockImplemented`, `LockReturns`, `NoLostWakeup`, `WaitTruth`, `SharedStateTrue` | The ticket mutexes implement a fair lock; queues and waitable states; stack errors are recorded, those from before the plugin's start with the next one. |
| `outputs` | `StreamsServed`, `RunsReported`, `SlowControlsTrue`, `ListsTrue` | Stream clients miss nothing; ring items describe the runs; what an OK of the slow controls says, and what it does not. |

Bounds.  Every counter that would grow without limit has a bound named in the
module's CONSTANTS.

* *blocking*: two buffers of up to two events, three events, two runs: an event can
  wait in the context while the next is parsed and its buffer reused.
* *cmd_…*: three calls with one fault, one late answer and one unsolicited packet,
  two attempts instead of three: late answers can reach the next attempt and the
  next transaction, and a retry can be the last one.
* *readout_…*: three calls, one or two listfile buffers instead of ten, up to two
  data sections: the queues run empty and full, and each request can meet each
  phase of another.
* *parser*: ten streams of two events, with continued frames and blocks, an empty
  module, a stack without modules, fill words and four kinds of malformed events,
  in packets of 1, 3 and 7 words, with one lost packet, one dropped buffer and one
  system frame.  Packet and buffer numbers are modulo 2, so that they wrap.
* *builders*: stamps up to 63 that start at 60, so that they wrap, in steps of 1 and
  5 around windows of a few units; three records of two or three modules; a memory
  limit that is reached.
* *listfile*: up to four parts and five units, one fault, compressors that hold back
  two; replay buffers of five words and frames of up to four; frame limits of 2, 3
  and 4 words, so that every frame is split somewhere.
* *transport*: four calls of connect and disconnect with any step failing; four
  packets numbered modulo 3 with two network faults; three dialog calls with two
  pipe faults; scan stacks that hold one, two or all reads.
* *codec*: two commands of every kind and operands that look like other commands;
  16 words of stack memory, two inits, two faults; two edits and two saves.
* *services*: three threads and four tickets, the smallest number that exceeds
  theirs; three callers of the queues with one buffer.
* *outputs*: two clients, two broadcasts, two listens; three run commands and two
  triggers; three bus faults, two channels, two clients with lists of two.

The proofs below do not depend on these bounds.

Deadlock checking is off: all these systems end (calls used up, object
destroyed, stream parsed), and an abandoned blocking stream really does block its
destructor.  Blocking that must not happen is covered by the liveness properties.

Fairness.  Weak fairness of each thread as a whole (`Parser`, `Monitor`, `User`;
`Api`, `Reader`; `LoopNext`, `ReaderNext`, `WriterNext`; the parser; the replay
worker; the throttler; the USB threads; each locking thread's `Step`): the
operating system schedules every runnable thread, and each has at most one
program counter.  The waits with timeouts in the code make every one of them
runnable again.  For users only steps inside a call are fair.  `WorkerDone` is
fair: runs are finite.  `Device` is fair: a controller that is sent a request
answers it or the packet is lost.  `FlushStep` is the loop of a running call.  The
USB clean up needs strong fairness of the controller's `Answer`: commands that are
repeated are not lost for ever.  Nothing is assumed of faults, triggers, clients or
the snoop consumer.

## 5. Proofs

The theorems hold for any values of the constants within the named assumptions of
the modules, so for any numbers of buffers, calls, threads, faults and errors.
No safety invariant proved here is inductive as it stands.

**`BlockingApi_proofs`.**  `NoLostWakeup`, `NextEventAssert` and `EventStable`
follow from `HandshakeInv`: parser and monitor are never both producing (the
monitor publishes only after joining the parser), `ready` and `processed`
alternate, and each program counter goes with certain values of them.  Then at
most one thread sleeps, and the one `notify_one()` cannot go astray.
`EventsDelivered` needs in addition where every event is: `CurInv` (the buffer
being parsed), `ChainInv` (queued buffers continue each other), `MonitorInv` (once
the monitor has seen the worker idle and the queue empty, they stay so),
`EventInv` (the event in the context is the one published last), `FirstInv` (the
parser is at most one event ahead, plus the one the first `next_event()` drops)
and `LastInv` (what is in the context follows what was delivered last).

**`CmdPipe_proofs`.**  `PendingOwned` and `ReaderLifetime`: `PendingInv` records,
for every place in the transaction code, which of the two responses may still be
pending and with which reference; `superFuture` and `stackFuture` are set exactly
when the response is no longer pending, so that the path that sees the future
ready may skip the clean-up.  `AnswersAreOwn` from `AnswerInv`: a stack frame under
way carries the reference of a stack that was executed (`WireInv`), both response
vectors begin with the reference of the transaction they are for, which
transactions belong to which call (`KindInv`), and a register access that succeeds
has a response of the right size (`SizeInv`).  The last is needed because a
response that was filled between timeout and clean-up is not emptied before the
retry: only the check of the size refuses it.  `StackAnswerIsPure` is *not* a
theorem for every `SuperRefMod`: with `SuperRefMod = 2` and `MaxRaces = 2` TLC finds
a late answer whose reference has come round again.  It is checked with 65536, the
code's value, with which no behaviour within the bounds wraps.

**`ReadoutWorker_proofs`.**  `OneReader` from `ThreadInv` (the asynchronous reader
and the worker's place); `BuffersConserved` from `BufferInv`, the types and the fact
that only a snoop buffer in use is off both queues; `RunsRecorded` from `ReadoutInv`:
the writer's place and error (`WriterInv`); while the worker holds the listfile
nothing of an earlier run is left (`FreshInv`); a writer that has met no error ends
on the sentinel only, which is the last buffer queued (`ReturnInv`); what is dropped
at the end of a run has been flushed (`OutInv`).  `FileInv` says that listfile,
the buffer being written, the queued buffers and the output buffer are consecutive
pieces of what was produced, by a function that gives the last section of each
queued buffer.  `DrainInv` follows the asynchronous reader of
`terminateReadout()`: it reads until DAQ mode is off, and a later read finds nothing.

**`Services_proofs`.**  `MutualExclusion` and, by refinement, `LockImplemented`:
with the threads that hold or await a mutex as the owners and the line of
`FairLock`, every step is a step of it or a stutter.  The inductive invariant says
that the tickets from `m_queue_head` to `m_queue_tail` belong, in order, to the
threads in line, and that only the first of them may have passed.  It needs
`TicketAssumption`: fewer threads than tickets, of which the code has 65536.
`NoLostWakeup` and `WaitTruth` of `WaitQueues` from `WaitInv`:
who owns the mutex of an object, that sleepers are listed, and that what a `wait()`
returned for stays true while its access is held.  `SharedStateTrue` for the
composition: its three parts are the types of the ticket mutexes (their
invariant), one place per buffer (`PlaceInv`) and the recorded stack
errors (`ErrorInv`: the last section lists each error of `prevCounters` once, in any
order).  That decoding gives the counters back needs that lines are natural numbers
and only claims it for lines a word has room for, see observation 31.

**`InitReadout_proofs`.**  `ReadoutInitialized` from `SetupInv`: the stacks before
the current one stand whole in the memory and below it (`Layout`), the uploaded parts
of the current one are there (`Partly`), no trigger is set meanwhile (`Quiet`), and
afterwards only whole stacks are triggered (`Live`).  These hold until an immediate
stack of another thread was longer than the memory reserved for it.  The code does not
refuse one (observation 25): `run_commands()` and the VME accesses send one command at
a time and the scan keeps below the limit, but `stackTransaction()` takes any stack.
There is no assumption on their size; `overrun` remembers that it happened, and the
theorem claims whole stacks only while it has not.

**`Transport_proofs`.**  `LinksSound` has five parts.  `ConnectionInv`: which sockets
are open at which place of `connect()`, `disconnect()` and the throttler, so that
every way out leaves none behind.  `UsbInv` and `WordsInv`: what was returned, the
read buffer and what the device or the packet still holds are consecutive pieces of
what was sent.  `LossInv`: the numbers of the packets under way lie between the last
one seen and the next one sent, less than one modulus apart, so that the difference
the code computes is the number that is missing.  `FramingInv`: what went on ends at a
place the walk over the frames comes to.  The assumptions are `ThrottleAssumption`,
`PacketAssumption`, `UsbAssumption` and `FramingAssumption` (the MVLC sends whole
frames; where a transfer cuts them is open).  The walk of `fixup_usb_buffer()` is a
recursive function; that it exists and where it ends is shown by least
counterexample (`LeastElement`, `SetInduction`, from `WFMin`), and the places it comes
to are the least set closed under its hops (`Reach`).

**`Outputs_proofs`.**  `SlowControlsTrue` from one invariant per driver.  `RegInv`: a
register holds one of the values the acknowledged and the failed writes allow, and
what the driver remembers is among them; `RcInv` adds the device the RC bus was
switched to; `HvInv` follows a command of the supply through its reads, each of which
is of this command; `TclInv`: the shared list holds what was left in it and nothing
of a monitoring that went well, and a register holds one of its possible values.  The assumptions are `SupplyAssumption`, `WordAssumption` and
`EnsembleAssumption`.  `ListsTrue` from `VmeInv`: a client's index counts the reads
before the operation, and a request that is still whole, partly with the server and
partly under way, has had no effect.  `RunsReported` from `RunInv`.  `StatsInv`: the
counters are those of the ring (`Counts`, `Tiles`).  `FlowInv`: sections and items move
a run between the classes halted, running and paused; the items in the ring, the
parser's buffer, each snoop buffer and the worker's buffer are walks that follow each
other, and the last ends where the worker stands.  So the next state change the
parser meets fits the ring (`OrderInv`), and a begin that finds all buffers empty
finds the ring between two runs, which is why its number cannot label an earlier one.

`StreamsServed` (the stream server, in the same module) comes from `StreamInv`: the accept loop is in
one place, waiting, queued or being run (`LoopInv`); the handlers `stop()` waits for
are queued once, and the one that closes the clients comes after every accept that
could still add one, which is why nobody stays connected (`StopInv`); the clients in
the list are the open ones and nobody reads before it is in it (`SockInv`); a write
is under way or its handler is queued, never both (`WriteInv`); and how far each
client has read depends on the place of the sender, unless its write has failed
(`ReadInv`).  `ClientsAssumption`: finitely many clients, none of them the value that
stands for no client.

**`Listfile_proofs`.**  `ReplayFaithful` from `ReplayInv`: the buffers the parser is done
with, the one it has and those in the queue are pieces of the file that follow each
other, each from the end of a frame to the end of a frame (`Chain`, `FramePieces`),
and what `fixup_buffer()` cut off continues them up to the place the file was read to
and holds no whole frame (`Placed`, `Cut`).  The last part is what makes the invariant
inductive: a frame held back fits into a buffer, so a read that gives nothing is at
the end of the file (`ReadGives`), and what is dropped there is an incomplete frame.
`FixupCuts` says what the walk of `fixup_buffer()` computes, `WordsWhole` that the words
of the file are in frames, and `ChainFlat` what `FlattenSeq` makes of a chain; all three by
induction over the natural numbers (`AllNumbers`, from `WFMin`).  After the end of
the file the worker does not read again (`EofEnds`).  `ReplayAssumption`: every frame
fits into a snoop buffer (a frame is at most 2^13 words by its length field, a buffer
1 MB), and a frame that is not a system event has at least the two header words of an
ETH packet, in every format.

**Only model-checked.**  Liveness (`WaitsEnd`, `CommandsServed`, `CallsReturn`,
`ParseTerminates`, `FlushDone`, `FilesCallsEnd`, `TransportsSettle`, `LockReturns`)
and what is said with ENABLED is out of the prover's reach.  Two invariants are
not true for every value of the bounds.  `StackAnswerIsPure`, see above.
`AccessesTrue`: the dialog takes a mirror with the reference it expects for its own;
with as many lost and late answers as there are references, a late one is
taken for the answer of another call.  `EventsBuilt` and `EventsMatched` hold for the
chosen streams; for arbitrary ones they do not: a stamp that lies half a period
from a stamp that was left over, as after a forced flush, may be too old for one
module and not for another, and the event is then not kept together.  The condition
on streams under which they would be theorems is not stated by the code.
`EventsParsed` and `LossContained` relate what is delivered to a whole stream cut at
any places; their invariant would have to describe every parse state by the prefix
read so far, and none is stated.  `CommandsTranslated`, `FilesReadBack` and the
archives of `ArchivesWhole` are about what recursive definitions compute from nested
records; each would need an induction of its own, by hand as for the walk above.
`SettingsSurvive` has no theorem yet.

## 6. Observations

Places where a comment, an assertion, a document or a plain reading of an
interface disagrees with what the code does, as the models show.  Where a name is
given it is defined in the module and can be checked by naming it in a
configuration.

Command pipe, readout, parser:

1. `FirstEventDelivered`, `MainLoopQuits` (BlockingApi): the first `next_event()`
   marks the pending event processed without handing it out; if that was None the
   caller waits for ever (`mvlc_blocking_data_api.cc:298`).  `EventDataIntact`: the
   parser overwrites the work buffer while the caller reads (line 44, against the
   comment at 294).
2. `StatusResponseSize` (CmdPipe): an answer between timeout and clean-up is
   appended to the response vector and the retry appends another one
   (`mvlc.cc:782`).  `ExecutedOnce`: a stack is executed twice after one late answer
   (`mvlc.cc:822`, against `mvlc_constants.h:565`).  `StackSuccessHasResponse`: a
   lost stack is reported as success (`mvlc.cc:875`).
3. `NoBadHeaderWord` (CmdPipe): after a lost packet the reader meets a data word
   where it asserts a header (`mvlc.cc:285`).
4. `AllBuffersReturned` (ReadoutWorker) is stated for `~WriteMayFail`: after a write
   error buffers stay queued (`mvlc_readout_worker.cc:1146`).
5. `NoInvalidPath`: `stop()` then `pause()` between two conditions of the loop
   reach `assert(!"invalid code path")` (`mvlc_readout_worker.cc:1063`).
   `StopReturns` with pause: `setState(Paused)` overwrites an accepted stop (745).
6. `McstStopRun`, `McstStartInDaqMode`: `terminateReadout()` runs the start
   commands (`mvlc_readout_worker.cc:1316`), and `startReadout()` runs them before
   enabling DAQ mode, where the header says after.
7. `EndOfFileWritten`: a run that ends by itself leaves no EndOfFile
   (`mvlc_readout.cc:97`).  A second run is not recorded although preamble and
   EndOfFile are written (`mvlc_readout_worker.cc:1150`).
8. With `WriterStartsFirst = FALSE`, if the run fails before the writer thread has
   marked itself running no sentinel is sent and the join never returns
   (`mvlc_readout_worker.cc:1123`).
9. `WriterErrorEndsRun` with `WriteMayFail`: once the writer thread has died of an
   exception nobody returns listfile buffers, and `flushCurrentOutputBuffer()`
   may block for ever (`mvlc_readout_worker.cc:782`), although the handler logs
   "Terminating readout."
10. `PartsIntact` (ReadoutParser) with `EsstStacks` and `EsstStreams`: cutting the
    fill words of a 2eSST read shifts the suffix (`mvlc_readout_parser.cc:876`).
11. An empty StackContinuation ends an event with an empty eventData() call
    (`mvlc_readout_parser.cc:670`), where the comment at 597 expects it only to end
    the current block frame.
12. An event that ended early makes the parser drop the rest of the packet, on USB
    the rest of the buffer, with the complete events in it
    (`mvlc_readout_parser.cc:581`, 1465).
13. The free function `readout_usb` passes only the bytes of this call to the fix up
    although the buffer starts with leftovers (`mvlc_readout_worker.cc:572`);
    `calculate_complete_frames_bytes` multiplies byte counts by 4 again
    (`mvlc_util.cc:444`).

Event builders:

14. `event_builder2.cc`: after an event without any stamp is discarded the offset is
    applied again to older data (472); `currentEvents` and `currentMem` are
    incremented where they should be decremented (434); modules without data show
    what they showed the last time, from storage that was freed (741-760, where the
    comment at 743 describes zeros: they are filled into the storage, but what is handed
    out is not updated); overflow is
    corrected by the maximum and not by one more (53); ignored modules contribute
    reference stamps (against `event_builder2.hpp:123`).
15. `event_builder.cc`: a main event without stamp makes stamped data of others too
    old (730); `waitForData` ignores events that are passed through (393).

Listfiles, replay, configuration:

16. `mvlc_listfile_zip.cc`: the reader continues into parts left by an earlier run
    (1055), also while the writer is between closing a part and creating the next (519);
    a write or close that fails loses up to a block of earlier data, which the
    compressor had taken (308, 315); seeking past the first part lands in the first part again (1119); a
    failed `createNextArchive` skips a number.
17. `fixup_buffer` (`mvlc_util.cc:307`) loops for ever with one to three bytes left.
    A replay of an unknown format leaves the state Starting, so that `stop()` does
    not return; `setState()` can overwrite a stop there as well.
18. The crate id is written into the crate node (`mvlc_readout_config.cc:190`), looked
    up in the document (262) and so always lost on load, although `operator==` compares
    it (48); the test (`mvlc_readout_config.test.cc:97`) has the default id.  Comments and stack meta data are not read back;
    JSON sorts and merges the init registers.
19. `continue_block_frame` cannot be reached, and one overload of `write_event_data`
    does not check the frame limit (`mvlc_listfile_gen.cc:321`); only the assert at 205
    catches longer data.

Transports, dialog, scan:

20. `mvlc_impl_eth.cc`: setting a socket option may fail and leave sockets open; the
    receive buffer survives `disconnect()`; a lost delay command is not repeated;
    duplicated packets count as nearly a full round of lost ones.
21. USB: `connect()` does not close the handle when its clean up fails, and a timeout
    hides a connection error of the other thread (`mvlc_impl_usb_common.cc:241`).
22. Dialog: after one late answer every later call reads the answer of the call
    before it, and fails.
23. Scan: the header says `[begin, end)`, the code includes `end`; a stack limit of 5
    or less never ends; a module whose probe register reads `0xffffffxx` is missed.

Command builders, init, trigger I/O:

24. A custom command decodes to one custom command per word and counts as one word;
    swapped single reads print as plain ones.
25. `setup_readout_stacks` does not count stack start and end in its last check; an
    empty stack keeps what was there before; `init_readout` overwrites earlier errors:
   those of registers, modules and the callbacks at 177 and 194 at 200, those of the
   callbacks at 207 and, over ETH, 220 by the stage after them
   (`mvlc_readout_worker.cc:211`, 226); exceptions stay visible in `ret.ex` only.
   `uploadStack()` does not check the size of an immediate stack (`mvlc.cc:983`), and
   nothing uses `ImmediateStackReservedMemoryExceeded` (`mvlc_error.h:46`).
26. Trigger I/O: activation of ECL and LVDS outputs is lost on load
    (`mvlc_trigger_io_deserialize.cc:50`); the forms made by the command builder carry
    addresses that loading does not recognise (25, against
    `mvlc_trigger_io_deserialize.h:13` and `mvlc_trigger_io_serialize.test.cc:138-156`): all registers are
    taken for those of the first unit and the settings are lost; a strobe width of 0 comes back as 8 (108).

Outputs:

27. Stream server: a client that is being accepted may miss a new preamble or get it
    twice; a broadcast under way when `stop()` stops the io thread waits until the
    next `listen()`; a client that does not read blocks sender and `stop()`.
28. FRIB DAQ: lock guards that are temporaries (`parser_callbacks.cc:80`, 126, 184);
    a run that ended by itself leaves the run state active; a quick begin relabels
    the end item; the variable dump may precede the begin item.
29. Slow controls: a refused option leaves those before it set; RC bus addresses and
    data are written without looking at the status; the high voltage driver scales
    actual currents by 0.1 in Get (`CV6533.cc:828`) and by 0.05 in mon (400), where
    currents are set by 0.05 (527), answers OK for failed writes
    and loops to 16 over arrays of 6.
30. Tcl drivers and lists: the list is known under two spellings; a failed monitoring
    leaves its reads in the shared list, and the next script gets their data first,
    where `SlowControlsTclDriver.cc:190` says that the list is reset; widths of writes are written in hexadecimal
    and refused; long reads keep their lower half only.
31. Stack errors: line numbers above 255 collide in the listfile, and errors after the
    last check of a run are not recorded.  Errors counted between the reset
    (`mvlc_readout_worker.cc:944`) and the plugin's copy of the counters (459) are taken
    as its baseline: they reach the listfile with the next error of the run or not at
    all.

## 7. Not modelled

* Command line tools, `mini-daq`, `mvlc-cli`, development tools: they parse options,
  call one operation after the other and print.
* `util/string_view.hpp`, `util/span.hpp` and other code taken over from elsewhere;
  `mvlc_listfile_zmq_ganil.cc`, a writer for one experiment's format;
  `mvlc_factory.cc`, which chooses a transport.
* Counters, histograms and statistics that no decision depends on, logging, text.
* `AlwaysCheckStackExecStatus` and transactions with references of the user's choice;
  `detect_buffer_type()` and exceptions from malformed packets; the statistics and
  run variable commands and timestamps from user libraries of the FRIB DAQ readout.
* Drivers, sockets, minizip, LZ4, Tcl and the controller itself are external: they do
  what the code expects of them, or fail.
