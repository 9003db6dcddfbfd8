--------------------------- MODULE EthConnection ---------------------------
(***************************************************************************)
(* eth::Impl (mvlc_impl_eth.cc): connect() and disconnect() with every     *)
(* call that may fail, and the throttle thread they start and join.  The   *)
(* thread watches the fill level of the data socket's receive buffer and   *)
(* tells the MVLC through the delay socket to slow down.  File descriptors *)
(* are the lowest unused numbers, so that a closed one comes back as       *)
(* something else.                                                         *)
(***************************************************************************)
EXTENDS Integers, FiniteSets, FiniteSetsExt

CONSTANTS
    Threshold, ThrottleRange,   \* EthThrottleContext, in units of the fill level
    MaxLevel,           \* the receive buffer is full
    MaxEthCalls,        \* bound: calls of connect() and disconnect()
    MaxLevelChanges     \* bound

\* The threshold and the range are fractions of the size of the receive buffer.
ASSUME ThrottleAssumption ==
    /\ Threshold \in Nat /\ ThrottleRange \in Nat \ {0}
    /\ MaxLevel \in Nat /\ MaxEthCalls \in Nat /\ MaxLevelChanges \in Nat

VARIABLES
    sock,               \* m_cmdSock, m_dataSock, m_delaySock; NoSock: -1
    fds,                \* descriptors the process has open
    cpc,                \* where the caller is in connect() or disconnect()
    ec,                 \* result of the last call
    ethCalls,
    thread,             \* m_throttleThread: "none" (not joinable), "loop",
                        \* "send" or "done"
    quit, delaySocket,  \* m_throttleContext
    lastSentDelay, delay,   \* locals of the thread; -1: nothing sent
    level, levelChanges,
    mvlcDelay,          \* the delay the MVLC observes
    lost                \* the last delay command did not arrive

ethVars == <<sock, fds, cpc, ec, ethCalls, thread, quit, delaySocket,
             lastSentDelay, delay, level, levelChanges, mvlcDelay, lost>>
threadVars == <<thread, quit, delaySocket, lastSentDelay, delay, mvlcDelay, lost>>

Pipes == <<"cmd", "data", "delay">>
NoSock == 0
MaxDelay == 65535       \* the delay is a u16
NoSockets == [p \in {"cmd", "data", "delay"} |-> NoSock]

isConnected == \A p \in DOMAIN sock : sock[p] # NoSock
NewFd == CHOOSE n \in 1..(Cardinality(fds) + 1) :
            n \notin fds /\ \A m \in 1..(n - 1) : m \in fds

-----------------------------------------------------------------------------
\* Mutant: the step count is capped, the power of two is not, and as a u16
\* it is 0 again.
MutThrottle(used) ==
    IF used < Threshold THEN 0
    ELSE 2 ^ Min({(16 * (used - Threshold)) \div ThrottleRange, 16}) % 65536

\* Mutant: the power of two is not capped.
MutThrottleWide(used) ==
    IF used < Threshold THEN 0
    ELSE 2 ^ Min({(16 * (used - Threshold)) \div ThrottleRange, 16})

\* Powers of two, in 16 steps over the range.
throttle_exponential(used) ==
    IF used < Threshold THEN 0
    ELSE Min({2 ^ Min({(16 * (used - Threshold)) \div ThrottleRange, 16}), MaxDelay})

Init ==
    /\ sock = NoSockets /\ fds = {} /\ cpc = "idle" /\ ec = "none" /\ ethCalls = 0
    /\ thread = "none" /\ quit = FALSE /\ delaySocket = NoSock
    /\ lastSentDelay = -1 /\ delay = -1 /\ mvlcDelay = 0 /\ lost = FALSE
    /\ level = 0 /\ levelChanges = 0

Return(result) == cpc' = "idle" /\ ec' = result

\* Mutant: what was opened before the failure stays open.
Mutclose_sockets == UNCHANGED <<sock, fds>>

close_sockets == sock' = NoSockets /\ fds' = fds \ {sock[p] : p \in DOMAIN sock}

Connect ==
    /\ cpc = "idle" /\ ethCalls < MaxEthCalls
    /\ ethCalls' = ethCalls + 1
    /\ \/ isConnected /\ Return("IsConnected") /\ UNCHANGED sock
       \/ ~isConnected /\ cpc' = "lookup" /\ sock' = NoSockets /\ UNCHANGED ec
    /\ UNCHANGED <<fds, threadVars, level, levelChanges>>

Lookup ==
    /\ cpc = "lookup"
    /\ \/ cpc' = "cmd" /\ UNCHANGED ec
       \/ Return("lookup")
    /\ UNCHANGED <<sock, fds, ethCalls, threadVars, level, levelChanges>>

\* socket() for the command, the data and the delay pipe, in this order.
Socket(i) ==
    /\ cpc = Pipes[i]
    /\ \/ /\ sock' = [sock EXCEPT ![Pipes[i]] = NewFd]
          /\ fds' = fds \cup {NewFd}
          /\ cpc' = IF i < 3 THEN Pipes[i + 1] ELSE "bind"
          /\ UNCHANGED ec
       \/ Return("socket") /\ (IF i = 1 THEN UNCHANGED <<sock, fds>> ELSE close_sockets)
    /\ UNCHANGED <<ethCalls, threadVars, level, levelChanges>>

\* bind() and connect() of the three sockets.
BindAndConnect ==
    /\ cpc = "bind"
    /\ \/ cpc' = "options" /\ UNCHANGED <<sock, fds, ec>>
       \/ Return("bind") /\ close_sockets
    /\ UNCHANGED <<ethCalls, threadVars, level, levelChanges>>

\* Timeouts and receive buffer sizes: a failure leaves the sockets open.
SetOptions ==
    /\ cpc = "options"
    /\ \/ cpc' = "registers" /\ UNCHANGED ec
       \/ Return("options")
    /\ UNCHANGED <<sock, fds, ethCalls, threadVars, level, levelChanges>>

\* The firmware revision and the DAQ mode are read; the MVLC may be in use.
ReadRegisters ==
    /\ cpc = "registers"
    /\ \/ cpc' = "thread" /\ UNCHANGED <<sock, fds, ec>>
       \/ \E e \in {"registers", "InUse"} : Return(e) /\ close_sockets
    /\ UNCHANGED <<ethCalls, threadVars, level, levelChanges>>

StartThrottler ==
    /\ cpc = "thread"
    /\ delaySocket' = sock["delay"] /\ quit' = FALSE
    /\ lastSentDelay' = -1
    /\ thread' \in {"loop", "done"}         \* done: there is no netlink socket
    /\ Return("ok")
    /\ UNCHANGED <<sock, fds, ethCalls, delay, mvlcDelay, lost, level, levelChanges>>

\* Mutant: the sockets are closed while the thread may still be running.
MutDisconnect ==
    /\ cpc = "idle" /\ ethCalls < MaxEthCalls
    /\ ethCalls' = ethCalls + 1
    /\ IF isConnected THEN cpc' = "join" /\ quit' = TRUE /\ close_sockets /\ UNCHANGED ec
       ELSE Return("IsDisconnected") /\ UNCHANGED <<quit, sock, fds>>
    /\ UNCHANGED <<thread, delaySocket, lastSentDelay, delay, mvlcDelay, lost,
                   level, levelChanges>>

Disconnect ==
    /\ cpc = "idle" /\ ethCalls < MaxEthCalls
    /\ ethCalls' = ethCalls + 1
    /\ IF isConnected THEN cpc' = "join" /\ quit' = TRUE /\ UNCHANGED ec
       ELSE Return("IsDisconnected") /\ UNCHANGED quit
    /\ UNCHANGED <<sock, fds, thread, delaySocket, lastSentDelay, delay,
                   mvlcDelay, lost, level, levelChanges>>

JoinAndClose ==
    /\ cpc = "join" /\ thread \in {"none", "done"}
    /\ thread' = "none" /\ close_sockets /\ Return("ok")
    /\ UNCHANGED <<ethCalls, quit, delaySocket, lastSentDelay, delay, mvlcDelay,
                   lost, level, levelChanges>>

-----------------------------------------------------------------------------
\* Mutant: the loop looks at quit only when it has a delay to send.
MutThrottlerQuits ==
    /\ thread = "loop" /\ quit /\ throttle_exponential(level) # lastSentDelay
    /\ thread' = "done"
    /\ UNCHANGED <<sock, fds, cpc, ec, ethCalls, quit, delaySocket, lastSentDelay,
                   delay, mvlcDelay, lost, level, levelChanges>>

ThrottlerQuits ==
    /\ thread = "loop" /\ quit
    /\ thread' = "done"
    /\ UNCHANGED <<sock, fds, cpc, ec, ethCalls, quit, delaySocket, lastSentDelay,
                   delay, mvlcDelay, lost, level, levelChanges>>

\* What the kernel reports for the data socket.
Snapshot == level

\* A query that succeeds; one that fails changes nothing.
Query ==
    /\ thread = "loop" /\ ~quit
    /\ delay' = throttle_exponential(Snapshot)
    /\ thread' = IF delay' # lastSentDelay THEN "send" ELSE "loop"
    /\ UNCHANGED <<sock, fds, cpc, ec, ethCalls, quit, delaySocket, lastSentDelay,
                   mvlcDelay, lost, level, levelChanges>>

\* The thread does not look at the result of send(), nor is there an answer.
send_delay_command ==
    /\ thread = "send"
    /\ thread' = "loop" /\ lastSentDelay' = delay
    /\ \/ mvlcDelay' = delay /\ lost' = FALSE
       \/ lost' = TRUE /\ UNCHANGED mvlcDelay
    /\ UNCHANGED <<sock, fds, cpc, ec, ethCalls, quit, delaySocket, delay, level,
                   levelChanges>>

\* External: data arrives and is read.
LevelChanges ==
    /\ levelChanges < MaxLevelChanges
    /\ levelChanges' = levelChanges + 1
    /\ level' \in (0..MaxLevel) \ {level}
    /\ UNCHANGED <<sock, fds, cpc, ec, ethCalls, threadVars>>

Throttler == ThrottlerQuits \/ Query \/ send_delay_command
Caller == Lookup \/ (\E i \in 1..3 : Socket(i)) \/ BindAndConnect \/ SetOptions
          \/ ReadRegisters \/ StartThrottler \/ JoinAndClose
Next == Connect \/ Disconnect \/ Caller \/ Throttler \/ LevelChanges

Spec == Init /\ [][Next]_ethVars /\ WF_ethVars(Throttler) /\ WF_ethVars(Caller)

-----------------------------------------------------------------------------
TypeOK ==
    /\ sock \in [{"cmd", "data", "delay"} -> 0..3] /\ fds \subseteq 1..3
    /\ thread \in {"none", "loop", "send", "done"}
    /\ quit \in BOOLEAN /\ lost \in BOOLEAN
    /\ level \in 0..MaxLevel /\ levelChanges \in 0..MaxLevelChanges
    /\ mvlcDelay \in 0..MaxDelay /\ lastSentDelay \in -1..MaxDelay

\* Whatever fails in connect(), every descriptor the process holds is known
\* to the object, so that a later connect() or disconnect() does not lose it
\* (close_sockets and the reset of the members at the start of connect()).
NoDescriptorLost == fds = {sock[p] : p \in DOMAIN sock} \ {NoSock}

\* While the throttle thread runs, the descriptor it writes to is the open
\* delay socket of this connection, never a closed or reused one; and no
\* thread is started while another has not been joined, which would end the
\* program.
ThrottlerOwnsSocket ==
    /\ thread \in {"loop", "send"} => delaySocket \in fds /\ delaySocket = sock["delay"]
    /\ cpc = "thread" => thread = "none"

\* The delay the comments of throttle_exponential promise: none below the
\* threshold, and at the end of the range the value that stops the MVLC.
Promised(used, d) ==
    /\ used < Threshold => d = 0
    /\ used >= Threshold => d > 0
    /\ used >= Threshold + ThrottleRange => d = MaxDelay

\* When the fill level stays where it is, the MVLC ends up with the delay for
\* it, unless the last delay command was lost: then nothing repeats it.
ThrottleTracks ==
    <>[](thread \in {"loop", "send"} /\ ~quit /\ ~lost) => <>[]Promised(level, mvlcDelay)

\* disconnect() always gets past the join of the throttle thread.
DisconnectReturns == (cpc = "join") ~> (cpc = "idle")
=============================================================================
