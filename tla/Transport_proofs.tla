-------------------------- MODULE Transport_proofs --------------------------
(***************************************************************************)
(* Proofs about the transports: whatever the sizes, the number of packets  *)
(* and calls and the faults, nothing that passes through the connection,   *)
(* the packets, the USB device and the framing of its data is lost,        *)
(* doubled or used after it was closed.                                    *)
(***************************************************************************)
EXTENDS MCTransport, FiniteSetTheorems, WellFoundedInduction, TLAPS

-----------------------------------------------------------------------------
(***************************************************************************)
(* Numbers                                                                 *)
(***************************************************************************)
\* Min of two numbers, as the code's std::min.
LEMMA MinOfTwo ==
    ASSUME NEW x \in Int, NEW y \in Int
    PROVE  Min({x, y}) = IF x <= y THEN x ELSE y
BY DEF Min

\* Every non-empty set of natural numbers has a least element.
LEMMA LeastElement ==
    ASSUME NEW T, T \subseteq Nat, T # {}
    PROVE  \E x \in T : \A y \in T : ~(y < x)
<1>1. PICK x \in T : \A y \in T : <<y, x>> \notin OpToRel(<, Nat)
  BY NatLessThanWellFounded, WFMin
<1>2. \A y \in T : y < x => <<y, x>> \in OpToRel(<, Nat)
  BY DEF OpToRel
<1> QED BY <1>1, <1>2

\* A set that holds 0 and the successor of each of its numbers holds all numbers.
LEMMA SetInduction ==
    ASSUME NEW S, 0 \in S, \A n \in Nat : n \in S => n + 1 \in S
    PROVE  \A n \in Nat : n \in S
<1> SUFFICES ASSUME NEW m \in Nat, m \notin S PROVE FALSE
  OBVIOUS
<1> DEFINE T == {n \in Nat : n \notin S}
<1>2. T \subseteq Nat /\ T # {}
  OBVIOUS
<1> HIDE DEF T
<1>3. PICK x \in T : \A y \in T : ~(y < x)
  BY <1>2, LeastElement
<1>4. x \in Nat /\ x \notin S
  BY <1>3 DEF T
<1>5. x - 1 \in Nat /\ (x - 1) + 1 = x
  BY <1>4
<1>6. x - 1 \notin T
  BY <1>3, <1>4
<1>7. x - 1 \in S
  BY <1>5, <1>6 DEF T
<1> QED BY <1>4, <1>5, <1>7

\* The powers of two that throttle_exponential() uses are numbers.
LEMMA Powers == ASSUME NEW k \in 0..16 PROVE 2 ^ k \in Nat
<1>1. k \in 0..5 => 2 ^ k \in Nat
  <2>1. 2^0 \in Nat /\ 2^1 \in Nat /\ 2^2 \in Nat /\ 2^3 \in Nat /\ 2^4 \in Nat /\ 2^5 \in Nat
    OBVIOUS
  <2>2. k \in 0..5 => k = 0 \/ k = 1 \/ k = 2 \/ k = 3 \/ k = 4 \/ k = 5
    OBVIOUS
  <2> QED BY <2>1, <2>2, Zenon
<1>2. k \in 6..11 => 2 ^ k \in Nat
  <2>1. 2^6 \in Nat /\ 2^7 \in Nat /\ 2^8 \in Nat /\ 2^9 \in Nat /\ 2^10 \in Nat /\ 2^11 \in Nat
    OBVIOUS
  <2>2. k \in 6..11 => k = 6 \/ k = 7 \/ k = 8 \/ k = 9 \/ k = 10 \/ k = 11
    OBVIOUS
  <2> QED BY <2>1, <2>2, Zenon
<1>3. k \in 12..16 => 2 ^ k \in Nat
  <2>1. 2^12 \in Nat /\ 2^13 \in Nat /\ 2^14 \in Nat /\ 2^15 \in Nat /\ 2^16 \in Nat
    OBVIOUS
  <2>2. k \in 12..16 => k = 12 \/ k = 13 \/ k = 14 \/ k = 15 \/ k = 16
    OBVIOUS
  <2> QED BY <2>1, <2>2, Zenon
<1>4. k \in 0..5 \/ k \in 6..11 \/ k \in 12..16
  OBVIOUS
<1> QED BY <1>1, <1>2, <1>3, <1>4, Zenon

-----------------------------------------------------------------------------
(***************************************************************************)
(* The connection and its throttle thread                                  *)
(***************************************************************************)
\* The delay is a u16, whatever the fill level.
LEMMA ThrottleRangeLemma ==
    ASSUME NEW used \in Nat
    PROVE  throttle_exponential(used) \in 0..MaxDelay
<1> USE ThrottleAssumption
<1>1. CASE used < Threshold
  BY <1>1 DEF throttle_exponential, MaxDelay
<1>2. CASE ~(used < Threshold)
  <2> DEFINE step == (16 * (used - Threshold)) \div ThrottleRange
             k == Min({step, 16})
  <2>1. used - Threshold \in Nat
    BY <1>2
  <2>2. 16 * (used - Threshold) \in Nat
    BY <2>1
  <2>3. step \in Nat
    BY <2>2
  <2> HIDE DEF step
  <2>4. k \in 0..16
    BY <2>3, MinOfTwo
  <2> HIDE DEF k
  <2>5. 2 ^ k \in Nat
    BY <2>4, Powers
  <2> DEFINE power == 2 ^ k
  <2>6. power \in Nat
    BY <2>5, Zenon
  <2>7. MaxDelay \in Nat
    BY DEF MaxDelay
  <2> HIDE DEF power
  <2>8. Min({power, MaxDelay}) = IF power <= MaxDelay THEN power ELSE MaxDelay
    BY <2>6, <2>7, MinOfTwo
  <2>9. Min({power, MaxDelay}) \in 0..MaxDelay
    BY <2>6, <2>7, <2>8
  <2>10. throttle_exponential(used) = Min({power, MaxDelay})
    BY <1>2, Zenon DEF throttle_exponential, power, k, step
  <2> QED BY <2>9, <2>10
<1> QED BY <1>1, <1>2

Open(a, b, c) == [p \in {"cmd", "data", "delay"} |->
                    CASE p = "cmd" -> a [] p = "data" -> b [] p = "delay" -> c]

\* Which sockets are open at each step of connect() and disconnect(), and when
\* there may be a thread.
SocketsByStep ==
    /\ sock \in {Open(0, 0, 0), Open(1, 0, 0), Open(1, 2, 0), Open(1, 2, 3)}
    /\ cpc \in {"idle", "lookup", "cmd", "data", "delay", "bind", "options", "registers",
                "thread", "join"}
    /\ cpc \in {"lookup", "cmd"} => sock = Open(0, 0, 0)
    /\ cpc = "data" => sock = Open(1, 0, 0)
    /\ cpc = "delay" => sock = Open(1, 2, 0)
    /\ cpc \in {"bind", "options", "registers", "thread", "join"} => sock = Open(1, 2, 3)
    /\ cpc = "idle" => sock \in {Open(0, 0, 0), Open(1, 2, 3)}
    /\ thread # "none" => cpc \in {"idle", "join"} /\ sock = Open(1, 2, 3)
    /\ thread \in {"loop", "send"} => delaySocket = 3
    /\ thread = "send" => delay \in 0..MaxDelay

SocketTypes == sock \in [{"cmd", "data", "delay"} -> 0..3] /\ fds \subseteq 1..3

ConnectionInv == TypeOK /\ NoDescriptorLost /\ SocketsByStep

LEMMA OpenValues ==
    ASSUME NEW a, NEW b, NEW c
    PROVE  /\ DOMAIN Open(a, b, c) = {"cmd", "data", "delay"}
           /\ Open(a, b, c)["cmd"] = a /\ Open(a, b, c)["data"] = b
           /\ Open(a, b, c)["delay"] = c
           /\ {Open(a, b, c)[p] : p \in DOMAIN Open(a, b, c)} = {a, b, c}
<1>1. DOMAIN Open(a, b, c) = {"cmd", "data", "delay"}
  BY DEF Open
<1>2. Open(a, b, c)["cmd"] = a /\ Open(a, b, c)["data"] = b
      /\ Open(a, b, c)["delay"] = c
  BY DEF Open
<1>3. \A v : v \in {Open(a, b, c)[p] : p \in {"cmd", "data", "delay"}}
              <=> v = Open(a, b, c)["cmd"] \/ v = Open(a, b, c)["data"]
                  \/ v = Open(a, b, c)["delay"]
  OBVIOUS
<1>4. {Open(a, b, c)[p] : p \in {"cmd", "data", "delay"}} = {a, b, c}
  BY <1>2, <1>3
<1> QED BY <1>1, <1>2, <1>4

LEMMA SocketsOwned == ConnectionInv => ThrottlerOwnsSocket
<1> SUFFICES ASSUME ConnectionInv PROVE ThrottlerOwnsSocket
  OBVIOUS
<1>1. ASSUME thread \in {"loop", "send"} PROVE delaySocket \in fds /\ delaySocket = sock["delay"]
  <2>1. sock = Open(1, 2, 3) /\ delaySocket = 3
    BY <1>1 DEF ConnectionInv, SocketsByStep
  <2>2. fds = {1, 2, 3} \ {0}
    BY <2>1, OpenValues DEF ConnectionInv, NoDescriptorLost, NoSock
  <2> QED BY <2>1, <2>2, OpenValues
<1>2. cpc = "thread" => thread = "none"
  BY DEF ConnectionInv, SocketsByStep
<1> QED BY <1>1, <1>2 DEF ThrottlerOwnsSocket

\* The numbers the kernel hands out.
LEMMA FirstFd == fds = {} => NewFd = 1
<1> SUFFICES ASSUME fds = {} PROVE NewFd = 1
  OBVIOUS
<1>1. Cardinality(fds) = 0
  BY FS_EmptySet
<1>2. \A n \in 1..1 : n = 1
  OBVIOUS
<1> QED BY <1>1, <1>2 DEF NewFd

LEMMA SecondFd == fds = {1} => NewFd = 2
<1> SUFFICES ASSUME fds = {1} PROVE NewFd = 2
  OBVIOUS
<1>1. Cardinality(fds) = 1
  BY FS_Singleton
<1> QED BY <1>1 DEF NewFd

LEMMA ThirdFd == fds = {1, 2} => NewFd = 3
<1> SUFFICES ASSUME fds = {1, 2} PROVE NewFd = 3
  OBVIOUS
<1>1. Cardinality({1}) = 1 /\ IsFiniteSet({1})
  BY FS_Singleton
<1>2. Cardinality({1} \cup {2}) = 2
  BY <1>1, FS_AddElement
<1>3. fds = {1} \cup {2}
  OBVIOUS
<1>4. Cardinality(fds) + 1 = 3
  BY <1>2, <1>3
<1> QED BY <1>4 DEF NewFd

LEMMA ConnectionInit == Init => ConnectionInv
<1> SUFFICES ASSUME Init PROVE ConnectionInv
  OBVIOUS
<1>1. sock = Open(0, 0, 0)
  BY DEF Init, NoSockets, NoSock, Open
<1>2. TypeOK
  <2>1. sock \in [{"cmd", "data", "delay"} -> 0..3]
    BY DEF Init, NoSockets, NoSock
  <2>2. 0 \in 0..MaxDelay /\ -1 \in -1..MaxDelay
    BY DEF MaxDelay
  <2>3. level \in 0..MaxLevel /\ levelChanges \in 0..MaxLevelChanges
    BY ThrottleAssumption DEF Init
  <2>4. mvlcDelay \in 0..MaxDelay /\ lastSentDelay \in -1..MaxDelay
    BY <2>2 DEF Init
  <2>5. fds \subseteq 1..3 /\ thread \in {"none", "loop", "send", "done"}
        /\ quit \in BOOLEAN /\ lost \in BOOLEAN
    BY DEF Init
  <2> QED BY <2>1, <2>3, <2>4, <2>5 DEF TypeOK
<1>3. NoDescriptorLost
  BY <1>1, OpenValues DEF Init, NoDescriptorLost, NoSock
<1>4. SocketsByStep
  BY <1>1 DEF Init, SocketsByStep
<1> QED BY <1>2, <1>3, <1>4 DEF ConnectionInv

LEMMA OpenSockets ==
    ASSUME ConnectionInv
    PROVE  /\ NoSockets = Open(0, 0, 0)
           /\ isConnected <=> sock = Open(1, 2, 3)
           /\ sock = Open(0, 0, 0) => fds = {}
           /\ sock = Open(1, 0, 0) => fds = {1}
           /\ sock = Open(1, 2, 0) => fds = {1, 2}
           /\ sock = Open(1, 2, 3) => fds = {1, 2, 3}
<1>1. NoSockets = Open(0, 0, 0)
  BY DEF NoSockets, NoSock, Open
<1>2. isConnected <=> sock["cmd"] # 0 /\ sock["data"] # 0 /\ sock["delay"] # 0
  BY DEF isConnected, NoSock, ConnectionInv, TypeOK
<1>3. sock \in {Open(0, 0, 0), Open(1, 0, 0), Open(1, 2, 0), Open(1, 2, 3)}
  BY DEF ConnectionInv, SocketsByStep
<1>4. isConnected <=> sock = Open(1, 2, 3)
  <2>1. Open(0, 0, 0)["cmd"] = 0 /\ Open(1, 0, 0)["data"] = 0 /\ Open(1, 2, 0)["delay"] = 0
    BY OpenValues
  <2>2. Open(1, 2, 3)["cmd"] = 1 /\ Open(1, 2, 3)["data"] = 2 /\ Open(1, 2, 3)["delay"] = 3
    BY OpenValues
  <2> QED BY <1>2, <1>3, <2>1, <2>2
<1>5. fds = {sock[p] : p \in DOMAIN sock} \ {0}
  BY DEF ConnectionInv, NoDescriptorLost, NoSock
<1>6. ASSUME NEW a, NEW b, NEW c, sock = Open(a, b, c) PROVE fds = {a, b, c} \ {0}
  BY <1>5, <1>6, OpenValues
<1>7. sock = Open(0, 0, 0) => fds = {}
  BY <1>6
<1>8. sock = Open(1, 0, 0) => fds = {1}
  BY <1>6
<1>9. sock = Open(1, 2, 0) => fds = {1, 2}
  BY <1>6
<1>10. sock = Open(1, 2, 3) => fds = {1, 2, 3}
  BY <1>6
<1> QED BY <1>1, <1>4, <1>7, <1>8, <1>9, <1>10

\* What a step has to show of the sockets and the descriptors.
LEMMA SocketsKnown ==
    ASSUME \/ sock' = Open(0, 0, 0) /\ fds' = {}
           \/ sock' = Open(1, 0, 0) /\ fds' = {1}
           \/ sock' = Open(1, 2, 0) /\ fds' = {1, 2}
           \/ sock' = Open(1, 2, 3) /\ fds' = {1, 2, 3}
    PROVE  NoDescriptorLost' /\ SocketTypes'
<1>1. ASSUME NEW a \in 0..3, NEW b \in 0..3, NEW c \in 0..3,
             sock' = Open(a, b, c), fds' = {a, b, c} \ {0}
      PROVE  NoDescriptorLost' /\ SocketTypes'
  <2>1. NoDescriptorLost'
    BY <1>1, OpenValues DEF NoDescriptorLost, NoSock
  <2>2. Open(a, b, c) \in [{"cmd", "data", "delay"} -> 0..3]
    BY DEF Open
  <2> QED BY <2>1, <2>2, <1>1 DEF SocketTypes
<1>2. 0 \in 0..3 /\ 1 \in 0..3 /\ 2 \in 0..3 /\ 3 \in 0..3
  OBVIOUS
<1>3. {0, 0, 0} \ {0} = {} /\ {1, 0, 0} \ {0} = {1} /\ {1, 2, 0} \ {0} = {1, 2}
      /\ {1, 2, 3} \ {0} = {1, 2, 3}
  OBVIOUS
<1>4. CASE sock' = Open(0, 0, 0) /\ fds' = {}
  BY <1>1, <1>2, <1>3, <1>4
<1>5. CASE sock' = Open(1, 0, 0) /\ fds' = {1}
  BY <1>1, <1>2, <1>3, <1>5
<1>6. CASE sock' = Open(1, 2, 0) /\ fds' = {1, 2}
  BY <1>1, <1>2, <1>3, <1>6
<1>7. CASE sock' = Open(1, 2, 3) /\ fds' = {1, 2, 3}
  BY <1>1, <1>2, <1>3, <1>7
<1> QED BY <1>4, <1>5, <1>6, <1>7

LEMMA ConnectionStep == ConnectionInv /\ [Next]_ethVars => ConnectionInv'
<1> SUFFICES ASSUME ConnectionInv, [Next]_ethVars PROVE ConnectionInv'
  OBVIOUS
<1> USE DEF Return
<1>t. TypeOK /\ SocketsByStep
  BY DEF ConnectionInv
<1>s. /\ NoSockets = Open(0, 0, 0)
      /\ isConnected <=> sock = Open(1, 2, 3)
      /\ sock = Open(0, 0, 0) => fds = {}
      /\ sock = Open(1, 0, 0) => fds = {1}
      /\ sock = Open(1, 2, 0) => fds = {1, 2}
      /\ sock = Open(1, 2, 3) => fds = {1, 2, 3}
  BY OpenSockets
<1>m. MaxDelay \in Nat
  BY DEF MaxDelay
<1>u. ASSUME UNCHANGED <<sock, fds>>
      PROVE  NoDescriptorLost' /\ SocketTypes'
  BY <1>u, <1>t DEF ConnectionInv, NoDescriptorLost, TypeOK, SocketTypes
<1>c. ASSUME close_sockets
      PROVE  sock' = Open(0, 0, 0) /\ NoDescriptorLost' /\ SocketTypes'
  <2>1. fds \ {sock[p] : p \in DOMAIN sock} = {}
    BY DEF ConnectionInv, NoDescriptorLost
  <2>2. sock' = Open(0, 0, 0) /\ fds' = {}
    BY <1>c, <1>s, <2>1 DEF close_sockets
  <2> QED BY <2>2, SocketsKnown
<1>d. Open(0, 0, 0) # Open(1, 2, 3) /\ Open(1, 0, 0) # Open(1, 2, 3)
      /\ Open(1, 2, 0) # Open(1, 2, 3)
  <2>1. Open(0, 0, 0)["delay"] = 0 /\ Open(1, 0, 0)["delay"] = 0 /\ Open(1, 2, 0)["delay"] = 0
        /\ Open(1, 2, 3)["delay"] = 3
    BY OpenValues
  <2> QED BY <2>1
<1>1. CASE Connect
  <2>1. CASE isConnected /\ cpc' = "idle" /\ UNCHANGED sock
    <3>1. UNCHANGED <<sock, fds>>
      BY <1>1, <2>1 DEF Connect
    <3>2. TypeOK'
      BY <1>1, <1>t, <1>u, <3>1 DEF Connect, TypeOK, SocketTypes, threadVars
    <3>3. SocketsByStep'
      BY <1>1, <2>1, <1>t, <1>s, <3>1 DEF Connect, SocketsByStep, threadVars
    <3> QED BY <1>u, <3>1, <3>2, <3>3 DEF ConnectionInv
  <2>2. CASE ~isConnected /\ cpc' = "lookup" /\ sock' = NoSockets
    <3>1. cpc = "idle" /\ sock # Open(1, 2, 3)
      BY <1>1, <2>2, <1>s DEF Connect
    <3>2. sock = Open(0, 0, 0) /\ thread = "none"
      BY <3>1, <1>t DEF SocketsByStep
    <3>3. UNCHANGED <<sock, fds>>
      BY <1>1, <2>2, <3>2, <1>s DEF Connect
    <3>4. TypeOK'
      BY <1>1, <1>t, <1>u, <3>3 DEF Connect, TypeOK, SocketTypes, threadVars
    <3>5. SocketsByStep'
      BY <1>1, <2>2, <1>t, <3>2, <3>3 DEF Connect, SocketsByStep, threadVars
    <3> QED BY <1>u, <3>3, <3>4, <3>5 DEF ConnectionInv
  <2> QED BY <1>1, <2>1, <2>2 DEF Connect
<1>2. CASE Lookup
  <2>1. UNCHANGED <<sock, fds>>
    BY <1>2 DEF Lookup
  <2>2. TypeOK'
    BY <1>2, <1>t, <1>u, <2>1 DEF Lookup, TypeOK, SocketTypes, threadVars
  <2>3. SocketsByStep'
    BY <1>2, <1>t, <2>1, <1>d DEF Lookup, SocketsByStep, threadVars
  <2> QED BY <1>u, <2>1, <2>2, <2>3 DEF ConnectionInv
<1>3. ASSUME NEW i \in 1..3, Socket(i) PROVE ConnectionInv'
  <2>1. cpc = Pipes[i] /\ UNCHANGED <<threadVars, level, levelChanges>>
    BY <1>3 DEF Socket
  <2>2. cpc \in {"cmd", "data", "delay"}
    BY <2>1 DEF Pipes
  <2>3. thread = "none"
    BY <2>2, <1>t DEF SocketsByStep
  <2>4. CASE Return("socket") /\ (IF i = 1 THEN UNCHANGED <<sock, fds>> ELSE close_sockets)
    <3>1. sock' = Open(0, 0, 0) /\ NoDescriptorLost' /\ SocketTypes'
      <4>1. CASE i = 1
        <5>1. sock = Open(0, 0, 0)
          BY <4>1, <2>1, <1>t DEF Pipes, SocketsByStep
        <5> QED BY <4>1, <2>4, <5>1, <1>u
      <4> QED BY <4>1, <2>4, <1>c
    <3>2. TypeOK'
      BY <3>1, <2>1, <1>t DEF TypeOK, SocketTypes, threadVars
    <3>3. SocketsByStep'
      BY <3>1, <2>1, <2>3, <2>4 DEF SocketsByStep, threadVars
    <3> QED BY <3>1, <3>2, <3>3 DEF ConnectionInv
  <2>5. CASE /\ sock' = [sock EXCEPT ![Pipes[i]] = NewFd]
             /\ fds' = fds \cup {NewFd}
             /\ cpc' = IF i < 3 THEN Pipes[i + 1] ELSE "bind"
    <3>1. \/ i = 1 /\ sock' = Open(1, 0, 0) /\ fds' = {1} /\ cpc' = "data"
          \/ i = 2 /\ sock' = Open(1, 2, 0) /\ fds' = {1, 2} /\ cpc' = "delay"
          \/ i = 3 /\ sock' = Open(1, 2, 3) /\ fds' = {1, 2, 3} /\ cpc' = "bind"
      <4>1. CASE i = 1
        <5>1. sock = Open(0, 0, 0) /\ fds = {} /\ Pipes[1] = "cmd" /\ Pipes[2] = "data"
          BY <4>1, <2>1, <1>t, <1>s DEF Pipes, SocketsByStep
        <5>2. NewFd = 1
          BY <5>1, FirstFd
        <5>3. [Open(0, 0, 0) EXCEPT !["cmd"] = 1] = Open(1, 0, 0)
          BY DEF Open
        <5> QED BY <4>1, <2>5, <5>1, <5>2, <5>3
      <4>2. CASE i = 2
        <5>1. sock = Open(1, 0, 0) /\ fds = {1} /\ Pipes[2] = "data" /\ Pipes[3] = "delay"
          BY <4>2, <2>1, <1>t, <1>s DEF Pipes, SocketsByStep
        <5>2. NewFd = 2
          BY <5>1, SecondFd
        <5>3. [Open(1, 0, 0) EXCEPT !["data"] = 2] = Open(1, 2, 0)
          BY DEF Open
        <5> QED BY <4>2, <2>5, <5>1, <5>2, <5>3
      <4>3. CASE i = 3
        <5>1. sock = Open(1, 2, 0) /\ fds = {1, 2} /\ Pipes[3] = "delay"
          BY <4>3, <2>1, <1>t, <1>s DEF Pipes, SocketsByStep
        <5>2. NewFd = 3
          BY <5>1, ThirdFd
        <5>3. [Open(1, 2, 0) EXCEPT !["delay"] = 3] = Open(1, 2, 3)
          BY DEF Open
        <5> QED BY <4>3, <2>5, <5>1, <5>2, <5>3
      <4> QED BY <4>1, <4>2, <4>3
    <3>2. NoDescriptorLost' /\ SocketTypes'
      BY <3>1, SocketsKnown
    <3>3. TypeOK'
      BY <3>2, <2>1, <1>t DEF TypeOK, SocketTypes, threadVars
    <3>4. SocketsByStep'
      BY <3>1, <2>1, <2>3 DEF SocketsByStep, threadVars
    <3> QED BY <3>2, <3>3, <3>4 DEF ConnectionInv
  <2> QED BY <1>3, <2>4, <2>5 DEF Socket
<1>4. CASE BindAndConnect \/ ReadRegisters
  <2>1. cpc \in {"bind", "registers"} /\ UNCHANGED <<threadVars, level, levelChanges>>
    BY <1>4 DEF BindAndConnect, ReadRegisters
  <2>2. thread = "none" /\ sock = Open(1, 2, 3)
    BY <2>1, <1>t DEF SocketsByStep
  <2>3. CASE UNCHANGED <<sock, fds>> /\ cpc' \in {"options", "thread"}
    <3>1. TypeOK'
      BY <2>1, <2>3, <1>t, <1>u DEF TypeOK, SocketTypes, threadVars
    <3>2. SocketsByStep'
      BY <2>1, <2>2, <2>3 DEF SocketsByStep, threadVars
    <3> QED BY <1>u, <2>3, <3>1, <3>2 DEF ConnectionInv
  <2>4. CASE close_sockets /\ cpc' = "idle"
    <3>1. TypeOK'
      BY <2>1, <2>4, <1>t, <1>c DEF TypeOK, SocketTypes, threadVars
    <3>2. SocketsByStep'
      BY <2>1, <2>2, <2>4, <1>c DEF SocketsByStep, threadVars
    <3> QED BY <1>c, <2>4, <3>1, <3>2 DEF ConnectionInv
  <2> QED BY <1>4, <2>3, <2>4 DEF BindAndConnect, ReadRegisters
<1>5. CASE SetOptions
  <2>1. UNCHANGED <<sock, fds>>
    BY <1>5 DEF SetOptions
  <2>2. TypeOK'
    BY <1>5, <1>t, <1>u, <2>1 DEF SetOptions, TypeOK, SocketTypes, threadVars
  <2>3. SocketsByStep'
    BY <1>5, <1>t, <2>1 DEF SetOptions, SocketsByStep, threadVars
  <2> QED BY <1>u, <2>1, <2>2, <2>3 DEF ConnectionInv
<1>6. CASE StartThrottler
  <2>1. UNCHANGED <<sock, fds>> /\ sock = Open(1, 2, 3)
    BY <1>6, <1>t DEF StartThrottler, SocketsByStep
  <2>2. TypeOK'
    <3>1. SocketTypes' /\ lastSentDelay' \in -1..MaxDelay
      BY <1>6, <1>u, <2>1, <1>m DEF StartThrottler
    <3> QED BY <1>6, <1>t, <3>1 DEF StartThrottler, TypeOK, SocketTypes
  <2>3. sock["delay"] = 3
    BY <2>1, OpenValues
  <2>4. SocketsByStep'
    BY <1>6, <1>t, <2>1, <2>3 DEF StartThrottler, SocketsByStep
  <2> QED BY <1>u, <2>1, <2>2, <2>4 DEF ConnectionInv
<1>7. CASE Disconnect
  <2>1. UNCHANGED <<sock, fds, thread, delaySocket, delay>>
    BY <1>7 DEF Disconnect
  <2>2. TypeOK'
    BY <1>7, <1>t, <1>u, <2>1 DEF Disconnect, TypeOK, SocketTypes
  <2>3. SocketsByStep'
    BY <1>7, <1>t, <1>s, <2>1 DEF Disconnect, SocketsByStep
  <2> QED BY <1>u, <2>1, <2>2, <2>3 DEF ConnectionInv
<1>8. CASE JoinAndClose
  <2>1. close_sockets /\ thread' = "none" /\ cpc' = "idle"
    BY <1>8 DEF JoinAndClose
  <2>2. TypeOK'
    BY <1>8, <1>t, <1>c, <2>1 DEF JoinAndClose, TypeOK, SocketTypes
  <2>3. SocketsByStep'
    BY <1>c, <2>1 DEF SocketsByStep
  <2> QED BY <1>c, <2>1, <2>2, <2>3 DEF ConnectionInv
<1>9. CASE ThrottlerQuits
  <2>1. UNCHANGED <<sock, fds>>
    BY <1>9 DEF ThrottlerQuits
  <2>2. TypeOK'
    BY <1>9, <1>t, <1>u, <2>1 DEF ThrottlerQuits, TypeOK, SocketTypes
  <2>3. SocketsByStep'
    BY <1>9, <1>t, <2>1 DEF ThrottlerQuits, SocketsByStep
  <2> QED BY <1>u, <2>1, <2>2, <2>3 DEF ConnectionInv
<1>10. CASE Query
  <2>1. UNCHANGED <<sock, fds>>
    BY <1>10 DEF Query
  <2>2. level \in Nat
    BY <1>t, ThrottleAssumption DEF TypeOK
  <2>3. delay' \in 0..MaxDelay
    BY <1>10, <2>2, ThrottleRangeLemma DEF Query, Snapshot
  <2>4. TypeOK'
    BY <1>10, <1>t, <1>u, <2>1 DEF Query, TypeOK, SocketTypes
  <2>5. SocketsByStep'
    BY <1>10, <1>t, <2>1, <2>3 DEF Query, SocketsByStep
  <2> QED BY <1>u, <2>1, <2>4, <2>5 DEF ConnectionInv
<1>11. CASE send_delay_command
  <2>1. UNCHANGED <<sock, fds>>
    BY <1>11 DEF send_delay_command
  <2>2. delay \in 0..MaxDelay
    BY <1>11, <1>t DEF send_delay_command, SocketsByStep
  <2>3. TypeOK'
    <3>1. SocketTypes' /\ lastSentDelay' \in -1..MaxDelay
      BY <1>11, <1>u, <1>m, <2>1, <2>2 DEF send_delay_command
    <3>2. mvlcDelay' \in 0..MaxDelay /\ lost' \in BOOLEAN
      BY <1>11, <1>t, <2>2 DEF send_delay_command, TypeOK
    <3> QED BY <1>11, <1>t, <3>1, <3>2 DEF send_delay_command, TypeOK, SocketTypes
  <2>4. SocketsByStep'
    BY <1>11, <1>t, <2>1 DEF send_delay_command, SocketsByStep
  <2> QED BY <1>u, <2>1, <2>3, <2>4 DEF ConnectionInv
<1>12. CASE LevelChanges
  <2>1. UNCHANGED <<sock, fds>>
    BY <1>12 DEF LevelChanges
  <2>2. TypeOK'
    BY <1>12, <1>t, <1>u, <2>1, ThrottleAssumption DEF LevelChanges, TypeOK, SocketTypes, threadVars
  <2>3. SocketsByStep'
    BY <1>12, <1>t, <2>1 DEF LevelChanges, SocketsByStep, threadVars
  <2> QED BY <1>u, <2>1, <2>2, <2>3 DEF ConnectionInv
<1>13. CASE UNCHANGED ethVars
  <2>1. UNCHANGED <<sock, fds>>
    BY <1>13 DEF ethVars
  <2>2. TypeOK'
    BY <1>13, <1>t DEF ethVars, TypeOK, SocketTypes
  <2>3. SocketsByStep'
    BY <1>13, <1>t DEF ethVars, SocketsByStep
  <2> QED BY <1>u, <2>1, <2>2, <2>3 DEF ConnectionInv
<1> QED BY <1>1, <1>2, <1>3, <1>4, <1>5, <1>6, <1>7, <1>8, <1>9, <1>10, <1>11, <1>12, <1>13
        DEF Next, Caller, Throttler

-----------------------------------------------------------------------------
(***************************************************************************)
(* Sequences                                                               *)
(***************************************************************************)
LEMMA SubSeqParts ==
    ASSUME NEW S, NEW s \in Seq(S), NEW m \in Nat, NEW n \in Nat, m <= n, n <= Len(s)
    PROVE  /\ SubSeq(s, m + 1, n) \in Seq(S)
           /\ Len(SubSeq(s, m + 1, n)) = n - m
           /\ \A i \in 1..(n - m) : SubSeq(s, m + 1, n)[i] = s[m + i]
OBVIOUS

LEMMA ConcatParts ==
    ASSUME NEW S, NEW s \in Seq(S), NEW t \in Seq(S)
    PROVE  /\ s \o t \in Seq(S)
           /\ Len(s \o t) = Len(s) + Len(t)
           /\ \A i \in 1..Len(s) : (s \o t)[i] = s[i]
           /\ \A i \in 1..Len(t) : (s \o t)[Len(s) + i] = t[i]
OBVIOUS

LEMMA SeqEqual ==
    ASSUME NEW S, NEW s \in Seq(S), NEW t \in Seq(S), Len(s) = Len(t),
           \A i \in 1..Len(s) : s[i] = t[i]
    PROVE  s = t
OBVIOUS

\* Cutting a sequence and putting the parts together gives the sequence.
LEMMA CutSeq ==
    ASSUME NEW S, NEW s \in Seq(S), NEW n \in Nat, n <= Len(s)
    PROVE  /\ SubSeq(s, 1, n) \in Seq(S) /\ SubSeq(s, n + 1, Len(s)) \in Seq(S)
           /\ SubSeq(s, 1, n) \o SubSeq(s, n + 1, Len(s)) = s
<1> DEFINE a == SubSeq(s, 1, n)
           b == SubSeq(s, n + 1, Len(s))
<1>1. a \in Seq(S) /\ Len(a) = n /\ \A i \in 1..n : a[i] = s[i]
  BY SubSeqParts
<1>2. Len(s) \in Nat
  OBVIOUS
<1>3. b \in Seq(S) /\ Len(b) = Len(s) - n /\ \A i \in 1..(Len(s) - n) : b[i] = s[n + i]
  BY <1>2, SubSeqParts
<1> HIDE DEF a, b
<1>4. /\ a \o b \in Seq(S) /\ Len(a \o b) = Len(s)
      /\ \A i \in 1..n : (a \o b)[i] = a[i]
      /\ \A i \in 1..Len(b) : (a \o b)[n + i] = b[i]
  BY <1>1, <1>2, <1>3, ConcatParts
<1>5. \A i \in 1..Len(a \o b) : (a \o b)[i] = s[i]
  <2> TAKE i \in 1..Len(a \o b)
  <2>1. CASE i <= n
    BY <2>1, <1>1, <1>4
  <2>2. CASE i > n
    <3> DEFINE j == i - n
    <3>1. j \in 1..Len(b) /\ n + j = i
      BY <2>2, <1>2, <1>3, <1>4
    <3> QED BY <3>1, <1>3, <1>4
  <2> QED BY <2>1, <2>2, <1>2, <1>4
<1>6. a \o b = s
  BY <1>4, <1>5, SeqEqual
<1> QED BY <1>1, <1>3, <1>6 DEF a, b

LEMMA ConcatEmpty ==
    ASSUME NEW S, NEW s \in Seq(S)
    PROVE  s \o <<>> = s /\ <<>> \o s = s
OBVIOUS

-----------------------------------------------------------------------------
(***************************************************************************)
(* The USB device: handle and buffered reads                               *)
(***************************************************************************)
LEMMA UsbMin ==
    ASSUME NEW x \in Int, NEW y \in Int
    PROVE  US!Min({x, y}) = IF x <= y THEN x ELSE y
BY DEF US!Min

UsbInv ==
    /\ deviceOpen \in BOOLEAN /\ m_handle \in BOOLEAN /\ US!HandleKnown
    /\ readBuffer \in Seq(Nat) /\ usbArrived \in Seq(Nat) /\ usbDelivered \in Seq(Nat)
    /\ US!TransfersConserved

LEMMA UsbInit == US!Init => UsbInv
<1>1. <<>> \in Seq(Nat) /\ <<>> \o <<>> = <<>>
  OBVIOUS
<1> QED BY <1>1 DEF US!Init, UsbInv, US!HandleKnown, US!TransfersConserved

\* One read() hands out the start of what it has and keeps the rest.
LEMMA UsbReadConserves ==
    ASSUME UsbInv, NEW size \in Nat, NEW n \in Nat, US!UsbRead(size, n)
    PROVE  /\ readBuffer' \in Seq(Nat) /\ usbArrived' \in Seq(Nat) /\ usbDelivered' \in Seq(Nat)
           /\ usbDelivered' \o readBuffer' = usbArrived'
<1> DEFINE fresh == [i \in 1..n |-> Len(usbArrived) + i]
           have == IF Len(readBuffer) >= size THEN readBuffer ELSE readBuffer \o fresh
           k == US!Min({size, Len(have)})
<1>1. /\ usbDelivered' = usbDelivered \o SubSeq(have, 1, k)
      /\ readBuffer' = SubSeq(have, k + 1, Len(have))
      /\ usbArrived' = IF Len(readBuffer) >= size THEN usbArrived ELSE usbArrived \o fresh
  BY DEF US!UsbRead
<1>2. readBuffer \in Seq(Nat) /\ usbArrived \in Seq(Nat) /\ usbDelivered \in Seq(Nat)
      /\ usbDelivered \o readBuffer = usbArrived
  BY DEF UsbInv, US!TransfersConserved
<1>3. Len(usbArrived) \in Nat /\ Len(readBuffer) \in Nat
  BY <1>2
<1>13. usbDelivered \in Seq(Nat) /\ readBuffer \in Seq(Nat)
  BY <1>2
<1>4. fresh \in Seq(Nat)
  BY <1>3
<1> HIDE DEF fresh
<1>5. have \in Seq(Nat) /\ usbArrived' \in Seq(Nat)
  BY <1>1, <1>2, <1>4, ConcatParts
<1>6. usbDelivered \o have = usbArrived'
  <2>1. (usbDelivered \o readBuffer) \o fresh = usbDelivered \o (readBuffer \o fresh)
    BY <1>4, <1>13, SMTT(30)
  <2> QED BY <1>1, <1>2, <2>1, Zenon
<1> HIDE DEF have
<1>7. Len(have) \in Nat
  BY <1>5
<1>8. k \in Nat /\ k <= Len(have)
  BY <1>7, UsbMin
<1> HIDE DEF k
<1> DEFINE a == SubSeq(have, 1, k)
           b == SubSeq(have, k + 1, Len(have))
<1>9. a \in Seq(Nat) /\ b \in Seq(Nat) /\ a \o b = have
  BY <1>5, <1>8, CutSeq
<1>10. usbDelivered' = usbDelivered \o a /\ readBuffer' = b
  BY <1>1
<1> HIDE DEF a, b
<1>11. (usbDelivered \o a) \o b = usbDelivered \o (a \o b)
  <2>1. a \in Seq(Nat) /\ b \in Seq(Nat)
    BY <1>9
  <2> QED BY <1>13, <2>1, SMTT(30)
<1>12. usbDelivered' \in Seq(Nat)
  BY <1>2, <1>9, <1>10, ConcatParts
<1> QED BY <1>5, <1>6, <1>9, <1>10, <1>11, <1>12

LEMMA UsbStep == UsbInv /\ [US!Next]_usbVars => UsbInv'
<1> SUFFICES ASSUME UsbInv, [US!Next]_usbVars PROVE UsbInv'
  OBVIOUS
<1>1. CASE US!Read
  <2>1. PICK size \in UsbReadSizes, n \in TransferSizes : US!UsbRead(size, n)
    BY <1>1 DEF US!Read
  <2>2. size \in Nat /\ n \in Nat
    BY UsbAssumption
  <2>3. UNCHANGED <<deviceOpen, m_handle>>
    BY <1>1 DEF US!Read
  <2> QED BY <2>1, <2>2, <2>3, UsbReadConserves
          DEF UsbInv, US!HandleKnown, US!TransfersConserved
<1>2. CASE ~US!Read
  <2>1. UNCHANGED <<readBuffer, usbArrived, usbDelivered>>
    BY <1>2 DEF US!Next, US!Caller, US!CmdThread, US!Connect, US!Create, US!Configure,
       US!CleanupEnds, US!Produce, US!Answer, US!WriteDisable, US!ReadAnswer, US!DrainCmd,
       US!CmdStep, US!ReadData, US!Disconnect, US!readVars, usbVars
  <2>2. deviceOpen' \in BOOLEAN /\ m_handle' \in BOOLEAN /\ deviceOpen' = m_handle'
    BY <1>2 DEF UsbInv, US!HandleKnown, US!Next, US!Caller, US!CmdThread, US!Connect,
       US!Create, US!Configure, US!CleanupEnds, US!Produce, US!Answer, US!WriteDisable,
       US!ReadAnswer, US!DrainCmd, US!CmdStep, US!ReadData, US!Disconnect, US!closeHandle,
       usbVars
  <2> QED BY <2>1, <2>2 DEF UsbInv, US!HandleKnown, US!TransfersConserved
<1> QED BY <1>1, <1>2

-----------------------------------------------------------------------------
(***************************************************************************)
(* The packets: their words                                                *)
(***************************************************************************)
LEMMA PacketMin ==
    ASSUME NEW x \in Int, NEW y \in Int
    PROVE  EP!Min({x, y}) = IF x <= y THEN x ELSE y
BY DEF EP!Min

\* A packet as the MVLC sends it: its number is its place in the channel, and it
\* declares its words or, with no padding, too many.
Packets ==
    {p \in [channel : EP!AllChannels, seq : Nat, number : Nat, payload : Seq(Nat),
            padding : Nat, declared : Nat] :
       /\ p.number = p.seq % (PacketNumberMask + 1)
       /\ p.declared = Len(p.payload) \/ (p.padding = 0 /\ p.declared > Len(p.payload))}

WordsInv ==
    /\ packets \in Seq(Packets) /\ sentWords \in Nat /\ nextSeq \in [EP!AllChannels -> Nat]
    /\ receiveBuffer \in Seq(Nat) /\ arrived \in Seq(Nat) /\ delivered \in Seq(Nat)
    /\ remaining \in Nat /\ (remaining > 0 => receiveBuffer = <<>>)
    /\ EP!WordsConserved

LEMMA CutConcat ==
    ASSUME NEW S, NEW s \in Seq(S), NEW t \in Seq(S)
    PROVE  SubSeq(s \o t, 1, Len(s)) = s
<1>1. s \o t \in Seq(S) /\ Len(s \o t) = Len(s) + Len(t)
      /\ \A i \in 1..Len(s) : (s \o t)[i] = s[i]
  BY ConcatParts
<1> DEFINE w == s \o t
           n == Len(s)
<1>2. w \in Seq(S) /\ n \in Nat /\ n <= Len(w) /\ 0 \in Nat /\ 0 <= n
      /\ \A i \in 1..n : w[i] = s[i]
  BY <1>1
<1> HIDE DEF w, n
<1> DEFINE c == SubSeq(w, 1, n)
<1>3. c \in Seq(S) /\ Len(c) = n /\ \A i \in 1..n : c[i] = w[i]
  BY <1>2
<1> HIDE DEF c
<1>4. c = s
  BY <1>2, <1>3, SeqEqual DEF n
<1> QED BY <1>4 DEF c, w, n

\* The declared length cuts off the padding and nothing else.
LEMMA PayloadCut == ASSUME NEW p \in Packets PROVE EP!Payload(p) = p.payload
<1> DEFINE pay == p.payload
           pad == EP!Pad(p.padding)
           n == p.declared
<1>1. pay \in Seq(Nat) /\ p.padding \in Nat /\ n \in Nat
      /\ (n = Len(pay) \/ (p.padding = 0 /\ n > Len(pay)))
  BY DEF Packets
<1>2. pad \in Seq(Nat) /\ Len(pad) = p.padding
  BY <1>1 DEF EP!Pad
<1>3. EP!Payload(p) = SubSeq(pay \o pad, 1, EP!Min({Len(pay \o pad), n}))
  BY DEF EP!Payload
<1> HIDE DEF pay, pad, n
<1>4. Len(pay) \in Nat /\ Len(pay \o pad) = Len(pay) + Len(pad)
  <2>1. pay \in Seq(Nat) /\ pad \in Seq(Nat)
    BY <1>1, <1>2
  <2> QED BY <2>1, ConcatParts
<1>5. EP!Min({Len(pay \o pad), n}) = IF Len(pay \o pad) <= n THEN Len(pay \o pad) ELSE n
  <2>1. Len(pay \o pad) \in Nat /\ n \in Nat
    BY <1>1, <1>2, <1>4
  <2> QED BY <2>1, PacketMin
<1>6. EP!Min({Len(pay \o pad), n}) = Len(pay)
  BY <1>1, <1>2, <1>4, <1>5
<1>7. SubSeq(pay \o pad, 1, Len(pay)) = pay
  <2>1. pay \in Seq(Nat) /\ pad \in Seq(Nat)
    BY <1>1, <1>2
  <2> QED BY <2>1, CutConcat
<1> QED BY <1>3, <1>6, <1>7 DEF pay

\* copy_and_update() hands out the start of a buffer and keeps the rest; what is
\* left to read is more than nothing only when the buffer is used up.
LEMMA CopyConserves ==
    ASSUME NEW buf \in Seq(Nat), NEW size \in Nat, delivered \in Seq(Nat),
           EP!copy_and_update(buf, size)
    PROVE  /\ delivered' \in Seq(Nat) /\ receiveBuffer' \in Seq(Nat)
           /\ delivered' \o receiveBuffer' = delivered \o buf
           /\ size - EP!Min({Len(buf), size}) \in Nat
           /\ size - EP!Min({Len(buf), size}) > 0 => receiveBuffer' = <<>>
<1> DEFINE n == EP!Min({Len(buf), size})
           a == SubSeq(buf, 1, n)
           b == SubSeq(buf, n + 1, Len(buf))
<1>1. Len(buf) \in Nat
  OBVIOUS
<1>2. n = IF Len(buf) <= size THEN Len(buf) ELSE size
  BY <1>1, PacketMin
<1>3. delivered' = delivered \o a /\ receiveBuffer' = b
  BY DEF EP!copy_and_update
<1> HIDE DEF n
<1>4. n \in Nat /\ n <= Len(buf) /\ size - n \in Nat /\ (size - n > 0 => n = Len(buf))
  BY <1>1, <1>2
<1>5. a \in Seq(Nat) /\ b \in Seq(Nat) /\ a \o b = buf
  BY <1>4, CutSeq
<1>6. n = Len(buf) => b = <<>>
  BY <1>1
<1> HIDE DEF a, b
<1>7. a \in Seq(Nat) /\ b \in Seq(Nat)
  BY <1>5
<1>8. (delivered \o a) \o b = delivered \o (a \o b)
  BY <1>7, SMTT(30)
<1>9. delivered' \in Seq(Nat)
  BY <1>3, <1>7, ConcatParts
<1>10. size - n > 0 => receiveBuffer' = <<>>
  BY <1>3, <1>4, <1>6
<1>11. delivered' \o receiveBuffer' = delivered \o buf
  BY <1>3, <1>5, <1>8
<1> QED BY <1>3, <1>4, <1>5, <1>9, <1>10, <1>11 DEF n

LEMMA PacketSent ==
    ASSUME WordsInv, NEW c \in EP!AllChannels, NEW size \in Nat, NEW padding \in Nat,
           NEW excess \in Nat, excess = 0 \/ padding = 0
    PROVE  [channel |-> c, seq |-> nextSeq[c], number |-> nextSeq[c] % (PacketNumberMask + 1),
            payload |-> [i \in 1..size |-> sentWords + i],
            padding |-> padding, declared |-> size + excess] \in Packets
<1> DEFINE pay == [i \in 1..size |-> sentWords + i]
           num == nextSeq[c] % (PacketNumberMask + 1)
<1>1. sentWords \in Nat /\ nextSeq[c] \in Nat
  BY DEF WordsInv
<1>2. pay \in Seq(Nat) /\ Len(pay) = size
  BY <1>1
<1>3. num \in Nat
  BY <1>1, PacketAssumption
<1> HIDE DEF pay
<1>4. size + excess \in Nat /\ (size + excess = size \/ (padding = 0 /\ size + excess > size))
  OBVIOUS
<1>5. [channel |-> c, seq |-> nextSeq[c], number |-> num, payload |-> pay,
       padding |-> padding, declared |-> size + excess] \in Packets
  BY <1>1, <1>2, <1>3, <1>4 DEF Packets
<1> QED BY <1>5 DEF pay

LEMMA WordsInit == EP!Init => WordsInv
<1> SUFFICES ASSUME EP!Init PROVE WordsInv
  OBVIOUS
<1>1. <<>> \in Seq(Nat) /\ <<>> \in Seq(Packets) /\ <<>> \o <<>> = <<>>
  OBVIOUS
<1>2. [c \in EP!AllChannels |-> 0] \in [EP!AllChannels -> Nat]
  OBVIOUS
<1> QED BY <1>1, <1>2 DEF EP!Init, WordsInv, EP!WordsConserved

\* The network loses, doubles or swaps packets and makes none up.
LEMMA FaultKeepsPackets ==
    ASSUME packets \in Seq(Packets), EP!Fault
    PROVE  packets' \in Seq(Packets)
<1>1. packets # <<>>
  BY DEF EP!Fault
<1>2. CASE packets' = Tail(packets)
  BY <1>1, <1>2
<1>3. CASE packets' = <<Head(packets)>> \o packets
  <2>1. <<Head(packets)>> \in Seq(Packets)
    BY <1>1
  <2> QED BY <2>1, <1>3, ConcatParts
<1>4. CASE Len(packets) > 1
           /\ packets' = <<packets[2], packets[1]>> \o SubSeq(packets, 3, Len(packets))
  <2>1. <<packets[2], packets[1]>> \in Seq(Packets)
    BY <1>4
  <2>2. SubSeq(packets, 3, Len(packets)) \in Seq(Packets)
    BY <1>4
  <2> QED BY <2>1, <2>2, <1>4, ConcatParts
<1> QED BY <1>2, <1>3, <1>4 DEF EP!Fault

LEMMA WordsStep == WordsInv /\ [EP!Next]_packetVars => WordsInv'
<1> SUFFICES ASSUME WordsInv, [EP!Next]_packetVars PROVE WordsInv'
  OBVIOUS
<1>i. /\ packets \in Seq(Packets) /\ sentWords \in Nat /\ nextSeq \in [EP!AllChannels -> Nat]
      /\ receiveBuffer \in Seq(Nat) /\ arrived \in Seq(Nat) /\ delivered \in Seq(Nat)
      /\ remaining \in Nat /\ (remaining > 0 => receiveBuffer = <<>>)
      /\ delivered \o receiveBuffer = arrived
  BY DEF WordsInv, EP!WordsConserved
<1>1. ASSUME NEW s \in EP!Shapes, NEW n \in PayloadSizes, EP!Send(s[1], n, s[2], s[3])
      PROVE  WordsInv'
  <2>1. s[1] \in EP!AllChannels /\ s[2] \in Nat /\ s[3] \in Nat /\ (s[3] = 0 \/ s[2] = 0)
    BY PacketAssumption DEF EP!Shapes, EP!AllChannels
  <2>2. n \in Nat
    BY PacketAssumption
  <2> DEFINE p == [channel |-> s[1], seq |-> nextSeq[s[1]],
                   number |-> nextSeq[s[1]] % (PacketNumberMask + 1),
                   payload |-> [i \in 1..n |-> sentWords + i],
                   padding |-> s[2], declared |-> n + s[3]]
  <2>3. p \in Packets
    BY <2>1, <2>2, PacketSent
  <2>4. packets' = Append(packets, p)
    BY <1>1 DEF EP!Send
  <2> HIDE DEF p
  <2>5. packets' \in Seq(Packets)
    BY <2>3, <2>4, <1>i
  <2>6. sentWords' \in Nat /\ nextSeq' \in [EP!AllChannels -> Nat]
    <3>1. sentWords' = sentWords + n /\ nextSeq' = [nextSeq EXCEPT ![s[1]] = @ + 1]
      BY <1>1 DEF EP!Send
    <3>2. nextSeq[s[1]] + 1 \in Nat
      BY <1>i, <2>1
    <3> QED BY <3>1, <3>2, <1>i, <2>1, <2>2
  <2>7. UNCHANGED <<receiveBuffer, arrived, delivered, remaining>>
    BY <1>1 DEF EP!Send
  <2> QED BY <2>5, <2>6, <2>7, <1>i DEF WordsInv, EP!WordsConserved
<1>2. CASE EP!Fault
  <2>1. UNCHANGED <<sentWords, nextSeq, receiveBuffer, arrived, delivered, remaining>>
    BY <1>2 DEF EP!Fault
  <2>2. packets' \in Seq(Packets)
    BY <1>2, <1>i, FaultKeepsPackets
  <2> QED BY <2>1, <2>2, <1>i DEF WordsInv, EP!WordsConserved
<1>3. ASSUME NEW size \in RequestSizes, EP!Read(size) PROVE WordsInv'
  <2>1. size \in Nat /\ EP!copy_and_update(receiveBuffer, size)
        /\ remaining' = size - EP!Min({Len(receiveBuffer), size})
    BY <1>3, PacketAssumption DEF EP!Read
  <2>2. UNCHANGED <<packets, sentWords, nextSeq, arrived>>
    BY <1>3 DEF EP!Read, EP!networkVars
  <2>3. /\ delivered' \in Seq(Nat) /\ receiveBuffer' \in Seq(Nat)
        /\ delivered' \o receiveBuffer' = delivered \o receiveBuffer
        /\ remaining' \in Nat /\ (remaining' > 0 => receiveBuffer' = <<>>)
    BY <1>i, <2>1, CopyConserves
  <2> QED BY <1>i, <2>2, <2>3 DEF WordsInv, EP!WordsConserved
<1>4. CASE EP!ReadPacket
  <2> DEFINE p == Head(packets)
  <2>1. packets # <<>> /\ remaining > 0 /\ packets' = Tail(packets)
        /\ arrived' = arrived \o p.payload
        /\ EP!copy_and_update(EP!Payload(p), remaining)
        /\ remaining' \in {0, remaining - EP!Min({Len(EP!Payload(p)), remaining})}
        /\ UNCHANGED <<sentWords, nextSeq>>
    BY <1>4 DEF EP!ReadPacket
  <2>2. p \in Packets /\ packets' \in Seq(Packets)
    BY <2>1, <1>i
  <2>3. p.payload \in Seq(Nat) /\ EP!Payload(p) = p.payload
    BY <2>2, PayloadCut DEF Packets
  <2> DEFINE w == p.payload
  <2> HIDE DEF p
  <2>4. w \in Seq(Nat) /\ EP!copy_and_update(w, remaining)
        /\ arrived' = arrived \o w
        /\ remaining' \in {0, remaining - EP!Min({Len(w), remaining})}
    BY <2>1, <2>3
  <2> HIDE DEF w
  <2>5. /\ delivered' \in Seq(Nat) /\ receiveBuffer' \in Seq(Nat)
        /\ delivered' \o receiveBuffer' = delivered \o w
        /\ remaining - EP!Min({Len(w), remaining}) \in Nat
        /\ (remaining - EP!Min({Len(w), remaining}) > 0 => receiveBuffer' = <<>>)
    BY <1>i, <2>4, CopyConserves
  <2>6. delivered = arrived
    BY <1>i, <2>1, ConcatEmpty
  <2>7. arrived' \in Seq(Nat)
    BY <1>i, <2>4, ConcatParts
  <2>8. remaining' \in Nat /\ (remaining' > 0 => receiveBuffer' = <<>>)
    BY <2>4, <2>5
  <2> QED BY <1>i, <2>1, <2>2, <2>4, <2>5, <2>6, <2>7, <2>8 DEF WordsInv, EP!WordsConserved
<1>5. CASE EP!ReadTimeout
  BY <1>5, <1>i DEF EP!ReadTimeout, EP!networkVars, WordsInv, EP!WordsConserved
<1>6. CASE EP!Reconnect
  <2>1. packets' \in Seq(Packets)
    BY <1>6 DEF EP!Reconnect
  <2> QED BY <1>6, <1>i, <2>1 DEF EP!Reconnect, WordsInv, EP!WordsConserved
<1>7. CASE UNCHANGED packetVars
  BY <1>7, <1>i DEF packetVars, WordsInv, EP!WordsConserved
<1> QED BY <1>1, <1>2, <1>3, <1>4, <1>5, <1>6, <1>7 DEF EP!Next

LEMMA ModGap ==
    ASSUME NEW K \in Nat \ {0}, NEW a \in Nat, NEW b \in Nat, a < b, b - a <= K
    PROVE  (b % K) - (a % K) = b - a \/ (b % K) - (a % K) = (b - a) - K
<1> DEFINE qa == a \div K
           ra == a % K
           qb == b \div K
           rb == b % K
<1>1. qa \in Int /\ ra \in Int /\ 0 <= ra /\ ra < K /\ a = K * qa + ra
  OBVIOUS
<1>2. qb \in Int /\ rb \in Int /\ 0 <= rb /\ rb < K /\ b = K * qb + rb
  OBVIOUS
<1> HIDE DEF qa, ra, qb, rb
<1> DEFINE q == qb - qa
<1>3. q \in Int /\ qb = qa + q
  BY <1>1, <1>2
<1>4. K * qb = K * qa + K * q
  BY <1>1, <1>3
<1> HIDE DEF q
<1>5. rb - ra = (b - a) - K * q
  BY <1>1, <1>2, <1>3, <1>4
<1>6. q = 0 \/ q = 1 \/ K * q <= -K \/ K * q >= 2 * K
  <2>1. CASE q <= -1
    <3>1. K * (q + 1) <= 0
      BY <2>1, <1>3
    <3>2. K * (q + 1) = K * q + K
      BY <1>3
    <3> QED BY <3>1, <3>2, <1>3
  <2>2. CASE q >= 2
    <3>1. K * (q - 2) >= 0
      BY <2>2, <1>3
    <3>2. K * (q - 2) = K * q - 2 * K
      BY <1>3
    <3> QED BY <3>1, <3>2, <1>3
  <2> QED BY <2>1, <2>2, <1>3
<1>7. q = 0 \/ q = 1
  BY <1>1, <1>2, <1>3, <1>5, <1>6
<1>8. rb - ra = b - a \/ rb - ra = (b - a) - K
  BY <1>1, <1>2, <1>5, <1>7
<1> QED BY <1>8 DEF ra, rb

-----------------------------------------------------------------------------
(***************************************************************************)
(* The packets: the loss counters                                          *)
(***************************************************************************)
Modulus == PacketNumberMask + 1

LossTypes ==
    /\ lastSeq \in [EP!Channels -> Int] /\ lastPacketNumbers \in [EP!Channels -> Int]
    /\ trueLoss \in [EP!Channels -> Int] /\ lostPackets \in [EP!Channels -> Int]

\* The last number is the last place in the channel, as far as a packet number
\* can tell.
NumbersFollow ==
    \A c \in EP!Channels :
        /\ lastSeq[c] >= -1
        /\ lastPacketNumbers[c] = IF lastSeq[c] < 0 THEN -1 ELSE lastSeq[c] % Modulus

\* As long as the network keeps the order, what is on the way is in order and
\* newer than what has come.
InOrder(ps, seen, next) ==
    /\ \A i, j \in DOMAIN ps : i < j /\ ps[i].channel = ps[j].channel => ps[i].seq < ps[j].seq
    /\ \A i \in DOMAIN ps : ps[i].seq < next[ps[i].channel]
    /\ \A i \in DOMAIN ps : ps[i].channel \in EP!Channels => ps[i].seq > seen[ps[i].channel]
    /\ \A c \in EP!Channels : seen[c] < next[c]

LossInv ==
    /\ LossTypes /\ NumbersFollow
    /\ ~outOfOrder => InOrder(packets, lastSeq, nextSeq) /\ \A c \in EP!Channels : trueLoss[c] >= 0
    /\ EP!LossExact

\* The numbers of two packets of a channel tell how many are missing between
\* them, if these are fewer than there are numbers.
LEMMA GapFromNumbers ==
    ASSUME NEW a \in Nat, NEW b \in Nat, a < b, b - a - 1 <= PacketNumberMask
    PROVE  EP!calc_packet_loss(a % Modulus, b % Modulus) = b - a - 1
<1> DEFINE ra == a % Modulus
           rb == b % Modulus
<1>1. Modulus \in Nat \ {0} /\ Modulus = PacketNumberMask + 1 /\ PacketNumberMask \in Nat
  BY PacketAssumption DEF Modulus
<1>2. ra \in Nat /\ rb \in Nat /\ ra < Modulus /\ rb < Modulus
  BY <1>1
<1>3. b - a <= Modulus
  BY <1>1
<1>4. rb - ra = b - a \/ rb - ra = (b - a) - Modulus
  BY <1>1, <1>3, ModGap
<1> HIDE DEF ra, rb
<1>5. EP!calc_packet_loss(ra, rb) = b - a - 1
  BY <1>1, <1>2, <1>3, <1>4 DEF EP!calc_packet_loss
<1> QED BY <1>5 DEF ra, rb

LEMMA LossInit == EP!Init => LossInv
<1> SUFFICES ASSUME EP!Init PROVE LossInv
  OBVIOUS
<1>1. EP!PerChannel(0) \in [EP!Channels -> Int] /\ EP!PerChannel(-1) \in [EP!Channels -> Int]
      /\ \A c \in EP!Channels : EP!PerChannel(0)[c] = 0 /\ EP!PerChannel(-1)[c] = -1
  BY DEF EP!PerChannel
<1>2. LossTypes
  BY <1>1 DEF EP!Init, LossTypes
<1>3. NumbersFollow
  BY <1>1 DEF EP!Init, NumbersFollow
<1>4. \A c \in EP!Channels : c \in EP!AllChannels
  BY PacketAssumption DEF EP!Channels, EP!AllChannels
<1>5. InOrder(packets, lastSeq, nextSeq)
  BY <1>1, <1>4 DEF EP!Init, InOrder
<1> QED BY <1>1, <1>2, <1>3, <1>5 DEF EP!Init, LossInv, EP!LossExact

\* A packet that is counted.
LEMMA CountPacket ==
    ASSUME WordsInv, LossInv, packets # <<>>, EP!Account(Head(packets)),
           Head(packets).channel \in EP!Channels,
           ~(Head(packets).declared > Len(Head(packets).payload) + Head(packets).padding),
           packets' = Tail(packets), UNCHANGED <<outOfOrder, nextSeq>>
    PROVE  LossInv'
<1> DEFINE p == Head(packets)
           c == p.channel
           n == p.seq
           loss == EP!calc_packet_loss(lastPacketNumbers[c], p.number)
<1>1. p \in Packets /\ packets[1] = p /\ 1 \in DOMAIN packets
  BY DEF WordsInv
<1>2. n \in Nat /\ p.number = n % Modulus /\ p.number \in Nat /\ n % Modulus \in Nat
  BY <1>1 DEF Packets, Modulus
<1>3. /\ lostPackets' = IF lastPacketNumbers[c] < 0 THEN lostPackets
                        ELSE [lostPackets EXCEPT ![c] = @ + loss]
      /\ lastPacketNumbers' = [lastPacketNumbers EXCEPT ![c] = p.number]
      /\ trueLoss' = IF lastSeq[c] < 0 THEN trueLoss
                     ELSE [trueLoss EXCEPT ![c] = @ + n - lastSeq[c] - 1]
      /\ lastSeq' = [lastSeq EXCEPT ![c] = n]
  BY DEF EP!Account
<1>4. c \in EP!Channels
  OBVIOUS
<1>5. packets \in Seq(Packets) /\ packets' = Tail(packets)
  BY DEF WordsInv
<1>6. ~outOfOrder => (lastSeq[c] < n /\ trueLoss[c] >= 0)
  BY <1>1, <1>4 DEF LossInv, InOrder
<1>7. \A i \in DOMAIN packets' : i + 1 \in DOMAIN packets /\ i \in Nat /\ packets'[i] = packets[i + 1]
  BY <1>5
<1>8. ~outOfOrder => \A i \in DOMAIN packets' : packets'[i].channel = c => packets'[i].seq > n
  <2> SUFFICES ASSUME ~outOfOrder, NEW i \in DOMAIN packets', packets'[i].channel = c
               PROVE  packets'[i].seq > n
    OBVIOUS
  <2>1. i + 1 \in DOMAIN packets /\ i \in Nat /\ packets'[i] = packets[i + 1] /\ i >= 1
    BY <1>5, <1>7
  <2>2. \A k, j \in DOMAIN packets : k < j /\ packets[k].channel = packets[j].channel
                                     => packets[k].seq < packets[j].seq
    BY DEF LossInv, InOrder
  <2>3. packets[1].seq < packets[i + 1].seq
    BY <1>1, <2>1, <2>2
  <2>4. packets[i + 1].seq \in Nat
    BY <2>1, <1>5 DEF Packets
  <2> QED BY <1>1, <1>2, <2>1, <2>3, <2>4
<1> HIDE DEF p, c, n, loss
<1>9. lastSeq[c] \in Int /\ lastSeq[c] >= -1 /\ trueLoss[c] \in Int /\ lostPackets[c] \in Int
      /\ lastPacketNumbers[c] = IF lastSeq[c] < 0 THEN -1 ELSE lastSeq[c] % Modulus
  BY <1>4 DEF LossInv, LossTypes, NumbersFollow
<1>10. lastPacketNumbers[c] \in Int /\ (lastPacketNumbers[c] < 0 <=> lastSeq[c] < 0)
  BY <1>9, PacketAssumption DEF Modulus
<1>11. loss \in Int
  BY <1>2, <1>10, PacketAssumption DEF loss, EP!calc_packet_loss
<1>12. LossTypes'
  <2>2. n \in Int /\ p.number \in Int /\ lostPackets[c] + loss \in Int
        /\ trueLoss[c] + n - lastSeq[c] - 1 \in Int
    BY <1>2, <1>9, <1>11
  <2> QED BY <1>3, <1>4, <2>2 DEF LossInv, LossTypes
<1>13. NumbersFollow'
  BY <1>2, <1>3, <1>4 DEF LossInv, LossTypes, NumbersFollow
<1>14. ~outOfOrder' => InOrder(packets', lastSeq', nextSeq')
         /\ \A d \in EP!Channels : trueLoss'[d] >= 0
  <2> SUFFICES ASSUME ~outOfOrder
               PROVE  InOrder(packets', lastSeq', nextSeq')
                      /\ \A d \in EP!Channels : trueLoss'[d] >= 0
    OBVIOUS
  <2>1. InOrder(packets, lastSeq, nextSeq) /\ \A d \in EP!Channels : trueLoss[d] >= 0
    BY DEF LossInv
  <2>2. \A d \in EP!Channels : lastSeq'[d] = IF d = c THEN n ELSE lastSeq[d]
    BY <1>3, <1>4 DEF LossInv, LossTypes
  <2>3. ASSUME NEW i \in DOMAIN packets', NEW j \in DOMAIN packets', i < j,
               packets'[i].channel = packets'[j].channel
        PROVE  packets'[i].seq < packets'[j].seq
    <3>1. i + 1 < j + 1
      BY <1>7, <2>3
    <3> QED BY <2>1, <2>3, <1>7, <3>1 DEF InOrder
  <2>4. \A i \in DOMAIN packets' : packets'[i].seq < nextSeq'[packets'[i].channel]
    BY <2>1, <1>7 DEF InOrder
  <2>5. \A i \in DOMAIN packets' : packets'[i].channel \in EP!Channels
                                    => packets'[i].seq > lastSeq'[packets'[i].channel]
    BY <2>1, <2>2, <1>7, <1>8 DEF InOrder
  <2>6. \A d \in EP!Channels : lastSeq'[d] < nextSeq'[d]
    <3>1. n < nextSeq[c]
      BY <2>1, <1>1, <1>4 DEF InOrder, n, c
    <3> QED BY <2>1, <2>2, <3>1 DEF InOrder
  <2>7. \A d \in EP!Channels : trueLoss'[d] >= 0
    <3>1. trueLoss[c] + n - lastSeq[c] - 1 >= 0
      BY <1>2, <1>6, <1>9
    <3> QED BY <1>3, <1>4, <2>1, <3>1 DEF LossInv, LossTypes
  <2> QED BY <2>3, <2>4, <2>5, <2>6, <2>7 DEF InOrder
<1>15. EP!LossExact'
  <2> SUFFICES ASSUME ~outOfOrder, NEW d \in EP!Channels, trueLoss'[d] <= PacketNumberMask
               PROVE  lostPackets'[d] = trueLoss'[d]
    BY DEF EP!LossExact
  <2>1. trueLoss[d] <= PacketNumberMask => lostPackets[d] = trueLoss[d]
    BY DEF LossInv, EP!LossExact
  <2>2. CASE d # c
    <3>1. trueLoss'[d] = trueLoss[d] /\ lostPackets'[d] = lostPackets[d]
      BY <1>3, <2>2 DEF LossInv, LossTypes
    <3> QED BY <2>1, <3>1
  <2>3. CASE d = c /\ lastSeq[c] < 0
    <3>1. trueLoss' = trueLoss /\ lostPackets' = lostPackets
      BY <1>3, <1>10, <2>3
    <3> QED BY <2>1, <3>1
  <2>4. CASE d = c /\ ~(lastSeq[c] < 0)
    <3>1. trueLoss'[c] = trueLoss[c] + n - lastSeq[c] - 1 /\ lostPackets'[c] = lostPackets[c] + loss
      BY <1>3, <1>4, <1>10, <2>4 DEF LossInv, LossTypes
    <3>2. lastSeq[c] \in Nat /\ lastSeq[c] < n /\ trueLoss[c] >= 0
      BY <1>6, <1>9, <2>4
    <3>3. n - lastSeq[c] - 1 <= PacketNumberMask /\ trueLoss[c] <= PacketNumberMask
      BY <3>1, <3>2, <2>4, <1>2, <1>9, PacketAssumption
    <3>4. lastPacketNumbers[c] = lastSeq[c] % Modulus
      BY <1>9, <2>4
    <3>5. EP!calc_packet_loss(lastSeq[c] % Modulus, n % Modulus) = n - lastSeq[c] - 1
      BY <3>2, <3>3, <1>2, GapFromNumbers
    <3>6. loss = n - lastSeq[c] - 1
      BY <3>4, <3>5, <1>2 DEF loss
    <3> QED BY <3>1, <3>3, <3>6, <2>1, <2>4, <1>2, <1>9
  <2> QED BY <2>2, <2>3, <2>4
<1> QED BY <1>12, <1>13, <1>14, <1>15 DEF LossInv

\* A packet that is counted nowhere, or lost.
LEMMA DropPacket ==
    ASSUME WordsInv, LossInv, packets # <<>>, packets' = Tail(packets),
           UNCHANGED <<outOfOrder, nextSeq, lastSeq, lastPacketNumbers, trueLoss, lostPackets>>
    PROVE  LossInv'
<1>1. packets \in Seq(Packets)
  BY DEF WordsInv
<1>2. \A i \in DOMAIN packets' : i + 1 \in DOMAIN packets /\ i \in Nat /\ packets'[i] = packets[i + 1]
  BY <1>1
<1>3. ASSUME InOrder(packets, lastSeq, nextSeq) PROVE InOrder(packets', lastSeq', nextSeq')
  <2>1. ASSUME NEW i \in DOMAIN packets', NEW j \in DOMAIN packets', i < j,
               packets'[i].channel = packets'[j].channel
        PROVE  packets'[i].seq < packets'[j].seq
    <3>1. i + 1 < j + 1
      BY <1>2, <2>1
    <3> QED BY <1>3, <2>1, <1>2, <3>1 DEF InOrder
  <2> QED BY <1>2, <1>3, <2>1 DEF InOrder
<1> QED BY <1>3 DEF LossInv, LossTypes, NumbersFollow, EP!LossExact

LEMMA SendKeepsOrder ==
    ASSUME WordsInv, InOrder(packets, lastSeq, nextSeq), LossTypes, NEW p \in Packets,
           p.seq = nextSeq[p.channel],
           packets' = Append(packets, p), lastSeq' = lastSeq,
           nextSeq' = [nextSeq EXCEPT ![p.channel] = @ + 1]
    PROVE  InOrder(packets', lastSeq', nextSeq')
<1>1. packets \in Seq(Packets) /\ nextSeq \in [EP!AllChannels -> Nat]
      /\ p.channel \in EP!AllChannels /\ p.seq \in Nat
  BY DEF WordsInv, Packets
<1> DEFINE m == Len(packets) + 1
<1>2. m \in Nat /\ DOMAIN packets = 1..(m - 1) /\ DOMAIN packets' = 1..m /\ packets'[m] = p
      /\ \A i \in DOMAIN packets : packets'[i] = packets[i]
  <2>1. packets \in Seq(Packets) /\ packets' = Append(packets, p)
    BY <1>1
  <2>2. m \in Nat /\ DOMAIN packets = 1..(m - 1) /\ m - 1 = Len(packets)
    BY <2>1
  <2>3. DOMAIN packets' = 1..m /\ packets'[m] = p
    BY <2>1
  <2>4. \A i \in 1..Len(packets) : packets'[i] = packets[i]
    BY <2>1
  <2> QED BY <2>2, <2>3, <2>4
<1> HIDE DEF m
<1>3. \A c \in EP!AllChannels : nextSeq[c] \in Nat /\ nextSeq'[c] \in Nat /\ nextSeq'[c] >= nextSeq[c]
  BY <1>1, SMTT(30)
<1>4. nextSeq'[p.channel] = p.seq + 1
  BY <1>1
<1>5. \A i \in DOMAIN packets : packets[i].channel \in EP!AllChannels /\ packets[i].seq \in Nat
  <2>1. \A i \in DOMAIN packets : packets[i] \in Packets
    BY <1>1
  <2>2. \A q \in Packets : q.channel \in EP!AllChannels /\ q.seq \in Nat
    BY DEF Packets
  <2> QED BY <2>1, <2>2
<1>6. \A i \in DOMAIN packets' : i = m \/ i \in DOMAIN packets
  BY <1>2
<1>7. ASSUME NEW i \in DOMAIN packets', NEW j \in DOMAIN packets', i < j,
             packets'[i].channel = packets'[j].channel
      PROVE  packets'[i].seq < packets'[j].seq
  <2>1. i \in DOMAIN packets
    BY <1>2, <1>6, <1>7
  <2>2. CASE j = m
    <3>1. packets[i].seq < nextSeq[packets[i].channel]
      BY <2>1 DEF InOrder
    <3> QED BY <3>1, <2>1, <2>2, <1>2, <1>7
  <2>3. CASE j \in DOMAIN packets
    BY <2>1, <2>3, <1>2, <1>7 DEF InOrder
  <2> QED BY <2>2, <2>3, <1>6
<1>8. ASSUME NEW i \in DOMAIN packets' PROVE packets'[i].seq < nextSeq'[packets'[i].channel]
  <2>1. CASE i = m
    BY <2>1, <1>1, <1>2, <1>4
  <2>2. CASE i \in DOMAIN packets
    <3>1. packets[i].seq < nextSeq[packets[i].channel]
      BY <2>2 DEF InOrder
    <3> QED BY <3>1, <2>2, <1>2, <1>3, <1>5
  <2> QED BY <2>1, <2>2, <1>6
<1>9. \A c \in EP!Channels : c \in EP!AllChannels /\ lastSeq[c] \in Int /\ lastSeq[c] < nextSeq[c]
  BY PacketAssumption DEF EP!Channels, EP!AllChannels, InOrder, LossTypes
<1>10. ASSUME NEW i \in DOMAIN packets', packets'[i].channel \in EP!Channels
       PROVE  packets'[i].seq > lastSeq'[packets'[i].channel]
  <2>1. CASE i = m
    BY <2>1, <1>1, <1>2, <1>9, <1>10
  <2>2. CASE i \in DOMAIN packets
    BY <2>2, <1>2, <1>10 DEF InOrder
  <2> QED BY <2>1, <2>2, <1>6
<1>11. \A c \in EP!Channels : lastSeq'[c] < nextSeq'[c]
  BY <1>3, <1>9
<1> QED BY <1>7, <1>8, <1>10, <1>11 DEF InOrder

LEMMA LossStep == WordsInv /\ LossInv /\ [EP!Next]_packetVars => LossInv'
<1> SUFFICES ASSUME WordsInv, LossInv, [EP!Next]_packetVars PROVE LossInv'
  OBVIOUS
<1>1. ASSUME NEW s \in EP!Shapes, NEW n \in PayloadSizes, EP!Send(s[1], n, s[2], s[3])
      PROVE  LossInv'
  <2>1. s[1] \in EP!AllChannels /\ s[2] \in Nat /\ s[3] \in Nat /\ (s[3] = 0 \/ s[2] = 0)
    BY PacketAssumption DEF EP!Shapes, EP!AllChannels
  <2>2. n \in Nat
    BY PacketAssumption
  <2> DEFINE p == [channel |-> s[1], seq |-> nextSeq[s[1]],
                   number |-> nextSeq[s[1]] % (PacketNumberMask + 1),
                   payload |-> [i \in 1..n |-> sentWords + i],
                   padding |-> s[2], declared |-> n + s[3]]
  <2>3. p \in Packets
    BY <2>1, <2>2, PacketSent
  <2>4. packets' = Append(packets, p) /\ nextSeq' = [nextSeq EXCEPT ![s[1]] = @ + 1]
        /\ UNCHANGED <<outOfOrder, lastSeq, lastPacketNumbers, trueLoss, lostPackets>>
    BY <1>1 DEF EP!Send, EP!statsVars
  <2>5. p.channel = s[1] /\ p.seq = nextSeq[s[1]]
    OBVIOUS
  <2> HIDE DEF p
  <2>6. p.seq = nextSeq[p.channel] /\ nextSeq' = [nextSeq EXCEPT ![p.channel] = @ + 1]
    BY <2>4, <2>5
  <2>7. ~outOfOrder => InOrder(packets', lastSeq', nextSeq')
    BY <2>3, <2>4, <2>6, SendKeepsOrder DEF LossInv
  <2> QED BY <2>4, <2>7 DEF LossInv, LossTypes, NumbersFollow, EP!LossExact
<1>2. CASE EP!Fault
  <2>1. packets # <<>> /\ UNCHANGED <<nextSeq, lastSeq, lastPacketNumbers, trueLoss, lostPackets>>
    BY <1>2 DEF EP!Fault, EP!statsVars
  <2>2. CASE packets' = Tail(packets) /\ UNCHANGED outOfOrder
    BY <2>1, <2>2, DropPacket
  <2>3. CASE outOfOrder' = TRUE
    BY <2>1, <2>3 DEF LossInv, LossTypes, NumbersFollow, EP!LossExact
  <2> QED BY <1>2, <2>2, <2>3 DEF EP!Fault
<1>3. CASE (\E size \in RequestSizes : EP!Read(size)) \/ EP!ReadTimeout \/ UNCHANGED packetVars
  <2>1. UNCHANGED <<packets, nextSeq, outOfOrder, lastSeq, lastPacketNumbers, trueLoss, lostPackets>>
    BY <1>3 DEF EP!Read, EP!ReadTimeout, packetVars, EP!networkVars, EP!statsVars
  <2> QED BY <2>1 DEF LossInv, LossTypes, NumbersFollow, EP!LossExact
<1>4. CASE EP!ReadPacket
  <2> DEFINE p == Head(packets)
  <2>1. packets # <<>> /\ packets' = Tail(packets) /\ EP!Account(p) /\ UNCHANGED <<outOfOrder, nextSeq>>
    BY <1>4 DEF EP!ReadPacket
  <2>2. CASE p.channel \in EP!Channels /\ ~(p.declared > Len(p.payload) + p.padding)
    BY <2>1, <2>2, CountPacket
  <2>3. CASE ~(p.channel \in EP!Channels /\ ~(p.declared > Len(p.payload) + p.padding))
    <3>1. UNCHANGED <<lastSeq, lastPacketNumbers, trueLoss, lostPackets>>
      BY <2>1, <2>3 DEF EP!Account, EP!statsVars
    <3> QED BY <2>1, <3>1, DropPacket
  <2> QED BY <2>2, <2>3
<1>5. CASE EP!Reconnect
  <2>1. packets' = <<>> /\ nextSeq' = nextSeq
        /\ lastPacketNumbers' = EP!PerChannel(-1) /\ lastSeq' = EP!PerChannel(-1)
        /\ lostPackets' = EP!PerChannel(0) /\ trueLoss' = EP!PerChannel(0)
    BY <1>5 DEF EP!Reconnect
  <2>2. EP!PerChannel(0) \in [EP!Channels -> Int] /\ EP!PerChannel(-1) \in [EP!Channels -> Int]
        /\ \A c \in EP!Channels : EP!PerChannel(0)[c] = 0 /\ EP!PerChannel(-1)[c] = -1
    BY DEF EP!PerChannel
  <2>3. \A c \in EP!Channels : nextSeq[c] \in Nat
    BY PacketAssumption DEF WordsInv, EP!Channels, EP!AllChannels
  <2>4. LossTypes' /\ NumbersFollow'
    BY <2>1, <2>2 DEF LossTypes, NumbersFollow
  <2>5. InOrder(packets', lastSeq', nextSeq')
    BY <2>1, <2>2, <2>3 DEF InOrder
  <2>6. EP!LossExact'
    BY <2>1, <2>2 DEF EP!LossExact
  <2>7. \A c \in EP!Channels : trueLoss'[c] >= 0
    BY <2>1, <2>2
  <2> QED BY <2>4, <2>5, <2>6, <2>7 DEF LossInv
<1> QED BY <1>1, <1>2, <1>3, <1>4, <1>5 DEF EP!Next

-----------------------------------------------------------------------------
(***************************************************************************)
(* Cutting the USB data into whole frames                                  *)
(***************************************************************************)
\* Where fixup_usb_buffer() looks after position i.
Hop(ws, i) == IF UF!is_valid_readout_frame(ws[i + 1]) THEN i + ws[i + 1].len + 1 ELSE i + 1

WalkBody(ws, f, i) ==
    IF i = Len(ws) THEN i ELSE IF Hop(ws, i) > Len(ws) THEN i ELSE f[Hop(ws, i)]
IsWalk(ws, f) == f = [i \in 0..Len(ws) |-> WalkBody(ws, f, i)]

LEMMA HopForward ==
    ASSUME NEW ws \in Seq(StreamWords), NEW i \in 0..(Len(ws) - 1)
    PROVE  Hop(ws, i) \in Nat /\ Hop(ws, i) > i
<1>1. i + 1 \in 1..Len(ws) /\ i \in Nat
  OBVIOUS
<1>2. ws[i + 1] \in StreamWords
  BY <1>1
<1>3. ws[i + 1].len \in Nat
  BY <1>2 DEF StreamWords
<1> QED BY <1>1, <1>3 DEF Hop

\* The walk of the code is the walk by hops.
LEMMA WalkForm ==
    ASSUME NEW ws \in Seq(StreamWords)
    PROVE  UF!CompleteWords(ws) = (CHOOSE f : IsWalk(ws, f))[0]
<1> DEFINE Code(f, i) ==
             CASE i = Len(ws) -> Len(ws)
               [] i < Len(ws) /\ ~UF!is_valid_readout_frame(ws[i + 1]) -> f[i + 1]
               [] OTHER -> IF i + ws[i + 1].len + 1 > Len(ws) THEN i
                           ELSE f[i + ws[i + 1].len + 1]
<1>1. ASSUME NEW f, NEW i \in 0..Len(ws) PROVE Code(f, i) = WalkBody(ws, f, i)
  <2>1. Len(ws) \in Nat
    OBVIOUS
  <2>2. CASE i = Len(ws)
    BY <2>2, <2>1 DEF WalkBody
  <2>3. CASE i < Len(ws) /\ ~UF!is_valid_readout_frame(ws[i + 1])
    BY <2>3, <2>1 DEF WalkBody, Hop
  <2>4. CASE i < Len(ws) /\ UF!is_valid_readout_frame(ws[i + 1])
    BY <2>4, <2>1 DEF WalkBody, Hop
  <2> QED BY <2>1, <2>2, <2>3, <2>4
<1>2. UF!CompleteWords(ws) = (CHOOSE f : f = [i \in 0..Len(ws) |-> Code(f, i)])[0]
  BY DEF UF!CompleteWords
<1> HIDE DEF Code
<1>3. \A f : f = [i \in 0..Len(ws) |-> Code(f, i)] <=> IsWalk(ws, f)
  BY <1>1 DEF IsWalk
<1>4. (CHOOSE f : f = [i \in 0..Len(ws) |-> Code(f, i)]) = (CHOOSE f : IsWalk(ws, f))
  BY <1>3
<1> QED BY <1>2, <1>4

LEMMA WalkExists ==
    ASSUME NEW ws \in Seq(StreamWords)
    PROVE  \E f : IsWalk(ws, f)
<1> DEFINE n == Len(ws)
           Part(k) == \E f \in [(n - k)..n -> 0..n] :
                        \A i \in (n - k)..n : f[i] = WalkBody(ws, f, i)
           S == {k \in Nat : k <= n => Part(k)}
<1>1. n \in Nat
  OBVIOUS
<1>2. 0 \in S
  <2> DEFINE f == [i \in (n - 0)..n |-> n]
  <2>1. f \in [(n - 0)..n -> 0..n]
    BY <1>1
  <2>2. \A i \in (n - 0)..n : f[i] = WalkBody(ws, f, i)
    BY <1>1 DEF WalkBody
  <2>3. Part(0)
    BY <2>1, <2>2
  <2> QED BY <2>3
<1>3. ASSUME NEW k \in Nat, k \in S PROVE k + 1 \in S
  <2> SUFFICES ASSUME k + 1 <= n PROVE Part(k + 1)
    BY <1>1
  <2>1. PICK f \in [(n - k)..n -> 0..n] : \A i \in (n - k)..n : f[i] = WalkBody(ws, f, i)
    BY <1>1, <1>3
  <2> DEFINE j == n - (k + 1)
             g == [i \in j..n |-> IF i = j THEN WalkBody(ws, f, j) ELSE f[i]]
  <2>2. j \in 0..(n - 1) /\ j \in Int /\ \A i \in j..n : i # j => i \in (n - k)..n
    BY <1>1
  <2>3. Hop(ws, j) \in Nat /\ Hop(ws, j) > j
    BY <2>2, HopForward
  <2> HIDE DEF n, j
  <2>4. WalkBody(ws, f, j) \in 0..n
    <3>1. j # n /\ j \in 0..n
      BY <2>2, <1>1
    <3>2. CASE Hop(ws, j) > n
      BY <3>1, <3>2 DEF WalkBody, n
    <3>3. CASE ~(Hop(ws, j) > n)
      <4>1. Hop(ws, j) \in (n - k)..n
        BY <3>3, <2>2, <2>3, <1>1
      <4> QED BY <3>1, <3>3, <4>1, <2>1 DEF WalkBody, n
    <3> QED BY <3>2, <3>3
  <2>5. g \in [j..n -> 0..n]
    BY <2>1, <2>2, <2>4
  <2>6. ASSUME NEW i \in j..n PROVE g[i] = WalkBody(ws, g, i)
    <3>1. WalkBody(ws, g, i) = WalkBody(ws, f, i)
      <4>1. CASE i = n
        BY <4>1 DEF WalkBody, n
      <4>2. CASE i # n
        <5>1. i \in 0..(n - 1) /\ i >= j
          BY <4>2, <2>2, <1>1
        <5>2. Hop(ws, i) \in Nat /\ Hop(ws, i) > i
          BY <5>1, HopForward DEF n
        <5>3. Hop(ws, i) <= n => g[Hop(ws, i)] = f[Hop(ws, i)]
          BY <5>1, <5>2, <2>2, <1>1
        <5> QED BY <4>2, <5>2, <5>3, <1>1 DEF WalkBody, n
      <4> QED BY <4>1, <4>2
    <3>2. g[i] = WalkBody(ws, f, i)
      BY <2>1, <2>2
    <3> QED BY <3>1, <3>2
  <2> QED BY <2>5, <2>6 DEF j
<1>4. n \in S
  <2> HIDE DEF S
  <2> QED BY <1>1, <1>2, <1>3, SetInduction
<1>5. PICK f \in [(n - n)..n -> 0..n] : \A i \in (n - n)..n : f[i] = WalkBody(ws, f, i)
  BY <1>1, <1>4
<1>6. (n - n)..n = 0..Len(ws)
  BY <1>1
<1>7. f = [i \in 0..Len(ws) |-> WalkBody(ws, f, i)]
  BY <1>5, <1>6
<1> QED BY <1>7 DEF IsWalk

\* The positions the walk comes to: the least set with 0 that is closed under
\* the hops.
Closed(ws, T) ==
    0 \in T /\ \A i \in T : i < Len(ws) /\ Hop(ws, i) <= Len(ws) => Hop(ws, i) \in T
Reach(ws) == {b \in 0..Len(ws) : \A T \in SUBSET (0..Len(ws)) : Closed(ws, T) => b \in T}
Stops(ws, b) == b = Len(ws) \/ Hop(ws, b) > Len(ws)

LEMMA ReachClosed == ASSUME NEW ws \in Seq(StreamWords) PROVE Closed(ws, Reach(ws))
<1>1. Len(ws) \in Nat
  OBVIOUS
<1>2. 0 \in Reach(ws)
  BY <1>1 DEF Reach, Closed
<1>3. ASSUME NEW i \in Reach(ws), i < Len(ws), Hop(ws, i) <= Len(ws)
      PROVE  Hop(ws, i) \in Reach(ws)
  <2>1. i \in 0..(Len(ws) - 1)
    BY <1>1, <1>3 DEF Reach
  <2>2. Hop(ws, i) \in 0..Len(ws)
    BY <2>1, <1>1, <1>3, HopForward
  <2>3. ASSUME NEW T \in SUBSET (0..Len(ws)), Closed(ws, T) PROVE Hop(ws, i) \in T
    BY <1>3, <2>3 DEF Reach, Closed
  <2> QED BY <2>2, <2>3 DEF Reach
<1> QED BY <1>2, <1>3 DEF Closed

\* What holds at the start and after every hop holds wherever the walk comes to.
LEMMA ReachInduction ==
    ASSUME NEW ws \in Seq(StreamWords), NEW T, T \subseteq 0..Len(ws), Closed(ws, T)
    PROVE  Reach(ws) \subseteq T
BY DEF Reach

\* The walk ends at the one position it comes to and does not leave.
LEMMA CompleteIsStop ==
    ASSUME NEW ws \in Seq(StreamWords), NEW b \in Reach(ws), Stops(ws, b)
    PROVE  UF!CompleteWords(ws) = b
<1> DEFINE w == CHOOSE f : IsWalk(ws, f)
<1>1. IsWalk(ws, w)
  BY WalkExists
<1>2. UF!CompleteWords(ws) = w[0]
  BY WalkForm
<1> HIDE DEF w
<1>3. \A i \in 0..Len(ws) : w[i] = WalkBody(ws, w, i)
  BY <1>1 DEF IsWalk
<1> DEFINE T == {i \in 0..Len(ws) : w[i] = w[0]}
<1>4. Len(ws) \in Nat
  OBVIOUS
<1>5. Closed(ws, T)
  <2>1. 0 \in T
    BY <1>4
  <2>2. ASSUME NEW i \in T, i < Len(ws), Hop(ws, i) <= Len(ws) PROVE Hop(ws, i) \in T
    <3>1. i \in 0..(Len(ws) - 1)
      BY <1>4, <2>2
    <3>2. Hop(ws, i) \in 0..Len(ws)
      BY <3>1, <1>4, <2>2, HopForward
    <3>3. w[i] = w[Hop(ws, i)]
      BY <1>3, <1>4, <2>2, <3>1, <3>2 DEF WalkBody
    <3> QED BY <2>2, <3>2, <3>3
  <2> QED BY <2>1, <2>2 DEF Closed
<1>6. b \in T
  <2>1. T \subseteq 0..Len(ws)
    OBVIOUS
  <2> QED BY <1>5, <2>1, ReachInduction
<1>7. w[b] = b
  BY <1>3, <1>6 DEF WalkBody, Stops
<1> QED BY <1>2, <1>6, <1>7

LEMMA CompleteReached ==
    ASSUME NEW ws \in Seq(StreamWords)
    PROVE  UF!CompleteWords(ws) \in Reach(ws) /\ Stops(ws, UF!CompleteWords(ws))
<1> DEFINE n == Len(ws)
           T == {n - b : b \in Reach(ws)}
<1>1. n \in Nat
  OBVIOUS
<1>2. \A b \in Reach(ws) : b \in 0..n /\ n - b \in Nat
  BY <1>1 DEF Reach
<1>3. T \subseteq Nat /\ T # {}
  BY <1>2, ReachClosed DEF Closed
<1> HIDE DEF T
<1>4. PICK x \in T : \A y \in T : ~(y < x)
  BY <1>3, LeastElement
<1>5. PICK b \in Reach(ws) : x = n - b
  BY DEF T
<1>6. Stops(ws, b)
  <2> SUFFICES ASSUME b # n, ~(Hop(ws, b) > n) PROVE FALSE
    BY DEF Stops
  <2>1. b \in 0..(n - 1)
    BY <1>1, <1>2
  <2>2. Hop(ws, b) \in Nat /\ Hop(ws, b) > b
    BY <2>1, HopForward
  <2>3. Hop(ws, b) \in Reach(ws)
    BY <1>1, <2>1, <2>2, ReachClosed DEF Closed
  <2>4. n - Hop(ws, b) \in T
    BY <2>3 DEF T
  <2>5. n - Hop(ws, b) < n - b
    BY <1>1, <2>1, <2>2
  <2> QED BY <1>4, <1>5, <2>4, <2>5
<1> QED BY <1>6, CompleteIsStop

\* The start of a buffer up to where the walk ends is whole frames.
Whole(ws) == UF!CompleteWords(ws) = Len(ws)

LEMMA WholeReached ==
    ASSUME NEW ws \in Seq(StreamWords)
    PROVE  Whole(ws) <=> Len(ws) \in Reach(ws)
<1>1. Whole(ws) => Len(ws) \in Reach(ws)
  BY CompleteReached DEF Whole
<1>2. Len(ws) \in Reach(ws) => Whole(ws)
  BY CompleteIsStop DEF Whole, Stops
<1> QED BY <1>1, <1>2

LEMMA CutWhole ==
    ASSUME NEW ws \in Seq(StreamWords)
    PROVE  /\ UF!CompleteWords(ws) \in 0..Len(ws)
           /\ SubSeq(ws, 1, UF!CompleteWords(ws)) \in Seq(StreamWords)
           /\ Whole(SubSeq(ws, 1, UF!CompleteWords(ws)))
<1> DEFINE m == UF!CompleteWords(ws)
           n == Len(ws)
           u == SubSeq(ws, 1, m)
<1>1. n \in Nat /\ m \in Reach(ws) /\ Stops(ws, m)
  BY CompleteReached
<1>2. m \in 0..n
  BY <1>1 DEF Reach
<1> HIDE DEF m
<1>3. u \in Seq(StreamWords) /\ Len(u) = m /\ \A i \in 1..m : u[i] = ws[i]
  BY <1>1, <1>2
<1> HIDE DEF u
<1>4. \A i \in 0..(m - 1) : Hop(u, i) = Hop(ws, i)
  <2> TAKE i \in 0..(m - 1)
  <2>1. u[i + 1] = ws[i + 1]
    BY <1>2, <1>3
  <2> QED BY <2>1 DEF Hop
<1>5. ASSUME NEW T \in SUBSET (0..m), Closed(u, T) PROVE m \in T
  <2> DEFINE V == T \cup (m + 1)..n
  <2>1. V \subseteq 0..n
    <3>1. 0..m \subseteq 0..n /\ (m + 1)..n \subseteq 0..n
      BY <1>1, <1>2
    <3> QED BY <3>1
  <2>2. 0 \in V
    BY <1>5 DEF Closed
  <2>3. ASSUME NEW i \in V, i < n, Hop(ws, i) <= n PROVE Hop(ws, i) \in V
    <3>1. i \in 0..(n - 1)
      BY <1>1, <2>1, <2>3
    <3>2. Hop(ws, i) \in Nat /\ Hop(ws, i) > i
      BY <3>1, HopForward
    <3>3. CASE i < m
      <4>1. i \in T /\ Hop(u, i) = Hop(ws, i)
        BY <3>1, <3>3, <1>2, <1>4, <2>3
      <4>2. Hop(ws, i) <= m => Hop(ws, i) \in T
        BY <4>1, <3>3, <1>3, <1>5 DEF Closed
      <4> QED BY <4>2, <3>2, <1>1, <1>2, <2>3
    <3>4. CASE i = m
      <4>1. m = n \/ Hop(ws, m) > n
        BY <1>1 DEF Stops
      <4> QED BY <3>1, <3>2, <3>4, <4>1, <2>3, <1>1
    <3>5. CASE i > m
      BY <3>5, <3>1, <3>2, <1>1, <1>2, <2>3
    <3> QED BY <3>1, <3>3, <3>4, <3>5, <1>2
  <2>4. m \in V
    BY <2>1, <2>2, <2>3, <1>1, ReachInduction DEF Closed
  <2> QED BY <2>4, <1>2
<1>6. m \in Reach(u)
  BY <1>2, <1>3, <1>5 DEF Reach
<1>7. Whole(u)
  BY <1>3, <1>6, WholeReached
<1> QED BY <1>2, <1>3, <1>7 DEF m, u

\* Whole frames in front of a buffer do not change where the walk over it ends.
LEMMA HopsAfter ==
    ASSUME NEW p \in Seq(StreamWords), NEW q \in Seq(StreamWords)
    PROVE  /\ \A i \in 0..(Len(p) - 1) : Hop(p \o q, i) = Hop(p, i)
           /\ \A j \in 0..(Len(q) - 1) : Hop(p \o q, Len(p) + j) = Len(p) + Hop(q, j)
<1> DEFINE s == p \o q
           a == Len(p)
<1>1. s \in Seq(StreamWords) /\ Len(s) = a + Len(q) /\ a \in Nat /\ Len(q) \in Nat
      /\ (\A i \in 1..a : s[i] = p[i]) /\ (\A i \in 1..Len(q) : s[a + i] = q[i])
  BY ConcatParts
<1> HIDE DEF s, a
<1>2. ASSUME NEW i \in 0..(a - 1) PROVE Hop(s, i) = Hop(p, i)
  <2>1. s[i + 1] = p[i + 1]
    BY <1>1
  <2> QED BY <2>1 DEF Hop
<1>3. ASSUME NEW j \in 0..(Len(q) - 1) PROVE Hop(s, a + j) = a + Hop(q, j)
  <2>1. j + 1 \in 1..Len(q) /\ a + (j + 1) = (a + j) + 1
    BY <1>1
  <2>2. s[(a + j) + 1] = q[j + 1] /\ q[j + 1] \in StreamWords
    BY <1>1, <2>1
  <2>3. q[j + 1].len \in Nat
    BY <2>2 DEF StreamWords
  <2>4. (a + j) + q[j + 1].len + 1 = a + (j + q[j + 1].len + 1)
    BY <1>1, <2>3
  <2> QED BY <2>1, <2>2, <2>4 DEF Hop
<1> QED BY <1>2, <1>3 DEF s, a

LEMMA ReachAfter ==
    ASSUME NEW p \in Seq(StreamWords), NEW q \in Seq(StreamWords), Whole(p),
           NEW b \in Reach(q)
    PROVE  Len(p) + b \in Reach(p \o q)
<1> DEFINE s == p \o q
           a == Len(p)
<1>1. s \in Seq(StreamWords) /\ Len(s) = a + Len(q) /\ a \in Nat /\ Len(q) \in Nat
  BY ConcatParts
<1>2. /\ \A i \in 0..(a - 1) : Hop(s, i) = Hop(p, i)
      /\ \A j \in 0..(Len(q) - 1) : Hop(s, a + j) = a + Hop(q, j)
  BY HopsAfter
<1>3. a \in Reach(p) /\ b \in 0..Len(q)
  BY WholeReached DEF Reach
<1> HIDE DEF s
<1>4. ASSUME NEW T \in SUBSET (0..Len(s)), Closed(s, T) PROVE a + b \in T
  <2>1. a \in T
    <3> DEFINE U == {i \in 0..a : i \in T}
    <3>1. 0 \in U
      BY <1>1, <1>4 DEF Closed
    <3>2. ASSUME NEW i \in U, i < Len(p), Hop(p, i) <= Len(p) PROVE Hop(p, i) \in U
      <4>1. i \in 0..(a - 1)
        BY <3>2, <1>1
      <4>2. Hop(p, i) \in Nat /\ Hop(s, i) = Hop(p, i)
        BY <4>1, <1>2, HopForward
      <4>3. i < Len(s) /\ Hop(s, i) <= Len(s)
        BY <4>1, <4>2, <3>2, <1>1
      <4>4. Hop(s, i) \in T
        BY <4>3, <3>2, <1>4 DEF Closed
      <4> QED BY <4>2, <4>4, <3>2
    <3>3. Closed(p, U)
      BY <3>1, <3>2 DEF Closed
    <3>4. U \subseteq 0..Len(p)
      OBVIOUS
    <3>5. a \in U
      BY <3>3, <3>4, <1>3, ReachInduction
    <3> QED BY <3>5
  <2> DEFINE V == {j \in 0..Len(q) : a + j \in T}
  <2>2. 0 \in V
    BY <2>1, <1>1
  <2>3. ASSUME NEW j \in V, j < Len(q), Hop(q, j) <= Len(q) PROVE Hop(q, j) \in V
    <3>1. j \in 0..(Len(q) - 1)
      BY <2>3, <1>1
    <3>2. Hop(q, j) \in Nat /\ Hop(s, a + j) = a + Hop(q, j)
      BY <3>1, <1>2, HopForward
    <3>3. a + j < Len(s) /\ Hop(s, a + j) <= Len(s) /\ a + j \in T
      BY <3>1, <3>2, <2>3, <1>1
    <3>4. Hop(s, a + j) \in T
      BY <3>3, <1>4 DEF Closed
    <3> QED BY <3>2, <3>4, <2>3
  <2>4. Closed(q, V)
    BY <2>2, <2>3 DEF Closed
  <2>5. V \subseteq 0..Len(q)
    OBVIOUS
  <2>6. b \in V
    BY <2>4, <2>5, ReachInduction
  <2> QED BY <2>6
<1>5. a + b \in 0..Len(s)
  BY <1>1, <1>3
<1>6. a + b \in Reach(s)
  BY <1>4, <1>5 DEF Reach
<1> QED BY <1>6 DEF s

LEMMA CompleteAfter ==
    ASSUME NEW p \in Seq(StreamWords), NEW q \in Seq(StreamWords), Whole(p)
    PROVE  UF!CompleteWords(p \o q) = Len(p) + UF!CompleteWords(q)
<1> DEFINE s == p \o q
           a == Len(p)
           b == UF!CompleteWords(q)
<1>1. s \in Seq(StreamWords) /\ Len(s) = a + Len(q) /\ a \in Nat /\ Len(q) \in Nat
  BY ConcatParts
<1>2. b \in Reach(q) /\ Stops(q, b)
  BY CompleteReached
<1> HIDE DEF b
<1>3. b \in 0..Len(q)
  BY <1>2 DEF Reach
<1>4. a + b \in Reach(s)
  BY <1>2, ReachAfter
<1>5. \A j \in 0..(Len(q) - 1) : Hop(s, a + j) = a + Hop(q, j)
  BY HopsAfter
<1> HIDE DEF s, a
<1>6. Stops(s, a + b)
  <2>1. CASE b = Len(q)
    BY <2>1, <1>1 DEF Stops
  <2>2. CASE b # Len(q)
    <3>1. b \in 0..(Len(q) - 1) /\ Hop(q, b) > Len(q)
      BY <1>1, <1>2, <1>3, <2>2 DEF Stops
    <3>2. Hop(q, b) \in Nat /\ Hop(s, a + b) = a + Hop(q, b)
      BY <3>1, <1>5, HopForward
    <3> QED BY <3>1, <3>2, <1>1 DEF Stops
  <2> QED BY <2>1, <2>2
<1>7. UF!CompleteWords(s) = a + b
  BY <1>1, <1>4, <1>6, CompleteIsStop
<1> QED BY <1>7 DEF s, a, b

\* In what the MVLC sends no payload word starts where whole frames end.
LEMMA NoPayloadAfterWhole ==
    ASSUME NEW s \in Seq(StreamWords), WellFramed(s), NEW b \in Reach(s), b < Len(s)
    PROVE  s[b + 1].type # "payload"
<1> DEFINE T == {i \in 0..Len(s) : i < Len(s) => s[i + 1].type # "payload"}
<1>1. Len(s) \in Nat /\ DOMAIN s = 1..Len(s)
  OBVIOUS
<1>w. \A i \in 1..Len(s) : s[i] \in StreamWords /\ s[i].len \in Nat
  <2>1. \A i \in 1..Len(s) : s[i] \in StreamWords
    OBVIOUS
  <2> QED BY <2>1 DEF StreamWords
<1>2. \A i \in 1..Len(s) : s[i].type = "payload" =>
        \E j \in 1..Len(s) : j < i /\ i <= j + s[j].len /\ UF!is_valid_readout_frame(s[j])
  BY <1>1 DEF WellFramed, UF!is_valid_readout_frame
<1>3. \A i, j \in 1..Len(s) : j < i /\ i <= j + s[j].len /\ UF!is_valid_readout_frame(s[j])
        => s[i].type = "payload"
  BY <1>1 DEF WellFramed, UF!is_valid_readout_frame
<1>4. \A i \in 1..Len(s) : UF!is_valid_readout_frame(s[i]) => s[i].type # "payload"
  BY DEF UF!is_valid_readout_frame
<1>5. 0 \in T
  BY <1>1, <1>2
<1>6. ASSUME NEW i \in T, i < Len(s), Hop(s, i) <= Len(s) PROVE Hop(s, i) \in T
  <2> DEFINE h == Hop(s, i)
  <2>1. i \in 0..(Len(s) - 1) /\ i + 1 \in 1..Len(s) /\ s[i + 1].type # "payload"
    BY <1>1, <1>6
  <2>2. h \in Nat /\ h > i /\ h <= Len(s)
    BY <2>1, <1>6, HopForward
  <2>3. h = IF UF!is_valid_readout_frame(s[i + 1]) THEN i + s[i + 1].len + 1 ELSE i + 1
    BY DEF Hop
  <2> HIDE DEF h
  <2>4. ASSUME h < Len(s), s[h + 1].type = "payload" PROVE FALSE
    <3>1. h + 1 \in 1..Len(s)
      BY <2>2, <2>4, <1>1
    <3>2. PICK j \in 1..Len(s) : j < h + 1 /\ h + 1 <= j + s[j].len
                                 /\ UF!is_valid_readout_frame(s[j])
      BY <3>1, <2>4, <1>2
    <3>3. CASE j < i + 1
      <4>1. i + 1 <= j + s[j].len
        BY <3>2, <2>1, <2>2, <1>w
      <4> QED BY <4>1, <3>2, <3>3, <2>1, <1>3
    <3>4. CASE j = i + 1
      <4>1. h = i + s[i + 1].len + 1
        BY <3>2, <3>4, <2>3
      <4> QED BY <4>1, <3>2, <3>4, <2>1, <1>w
    <3>5. CASE j > i + 1
      <4>1. UF!is_valid_readout_frame(s[i + 1]) /\ h = i + s[i + 1].len + 1
        BY <3>2, <3>5, <2>1, <2>2, <2>3
      <4>2. j <= (i + 1) + s[i + 1].len
        BY <4>1, <3>2, <2>1, <2>2, <1>w
      <4>3. s[j].type = "payload"
        BY <4>1, <4>2, <3>5, <2>1, <1>3
      <4> QED BY <4>3, <3>2, <1>4
    <3> QED BY <3>3, <3>4, <3>5, <2>1
  <2>5. h \in T
    BY <2>2, <2>4, <1>1
  <2> QED BY <2>5 DEF h
<1>7. T \subseteq 0..Len(s)
  OBVIOUS
<1>8. Closed(s, T)
  BY <1>5, <1>6 DEF Closed
<1>9. b \in T
  BY <1>7, <1>8, ReachInduction
<1> QED BY <1>9

\* Taking further words from the stream.
LEMMA TakeMore ==
    ASSUME NEW S, NEW s \in Seq(S), NEW m \in Nat, NEW k \in Nat, m + k <= Len(s)
    PROVE  SubSeq(s, 1, m) \o SubSeq(s, m + 1, m + k) = SubSeq(s, 1, m + k)
<1> DEFINE a == SubSeq(s, 1, m)
           b == SubSeq(s, m + 1, m + k)
           c == SubSeq(s, 1, m + k)
<1>1. m + k \in Nat /\ m <= m + k /\ Len(s) \in Nat /\ m <= Len(s) /\ (m + k) - m = k
  OBVIOUS
<1>2. a \in Seq(S) /\ Len(a) = m /\ \A i \in 1..m : a[i] = s[i]
  BY <1>1, SubSeqParts
<1>3. b \in Seq(S) /\ Len(b) = (m + k) - m /\ \A i \in 1..((m + k) - m) : b[i] = s[m + i]
  BY <1>1, SubSeqParts
<1>4. c \in Seq(S) /\ Len(c) = m + k /\ \A i \in 1..(m + k) : c[i] = s[i]
  BY <1>1, SubSeqParts
<1> HIDE DEF a, b, c
<1>p. /\ a \o b \in Seq(S) /\ Len(a \o b) = Len(a) + Len(b)
      /\ \A i \in 1..Len(a) : (a \o b)[i] = a[i]
      /\ \A i \in 1..Len(b) : (a \o b)[Len(a) + i] = b[i]
  <2>1. a \in Seq(S) /\ b \in Seq(S)
    BY <1>2, <1>3
  <2> QED BY <2>1, ConcatParts
<1>5. /\ a \o b \in Seq(S) /\ Len(a \o b) = m + k
      /\ \A i \in 1..m : (a \o b)[i] = a[i]
      /\ \A i \in 1..k : (a \o b)[m + i] = b[i]
  BY <1>p, <1>1, <1>2, <1>3
<1>6. ASSUME NEW i \in 1..(m + k) PROVE (a \o b)[i] = c[i]
  <2>1. CASE i <= m
    BY <2>1, <1>2, <1>4, <1>5
  <2>2. CASE ~(i <= m)
    <3>1. i - m \in 1..k /\ m + (i - m) = i
      BY <2>2, <1>1
    <3>2. (a \o b)[m + (i - m)] = b[i - m] /\ b[i - m] = s[m + (i - m)]
      BY <3>1, <1>1, <1>3, <1>5
    <3> QED BY <3>1, <3>2, <1>4
  <2> QED BY <2>1, <2>2
<1>7. a \o b = c
  BY <1>4, <1>5, <1>6, SeqEqual
<1> QED BY <1>7 DEF a, b, c

\* The calls of which the code promises something: those of the readout worker,
\* and those of readout() before anything was left over.
Promising == loop = "worker" \/ ~carried
FramingParts ==
    /\ stream \in Seq(StreamWords) /\ WellFramed(stream) /\ taken \in 0..Len(stream)
    /\ buffer \in Seq(StreamWords) /\ previousData \in Seq(StreamWords)
    /\ handedOn \in Seq(StreamWords) /\ Whole(handedOn)
    /\ fpc = "call" => handedOn \o previousData = SubSeq(stream, 1, taken)
    /\ fpc # "call" => handedOn \o buffer = SubSeq(stream, 1, taken)
    /\ loop = "free" /\ fpc # "call" => transferred = Len(buffer)
FramingInv == Promising => FramingParts

LEMMA WholeEmpty == Whole(<<>>)
<1>1. <<>> \in Seq(StreamWords) /\ Len(<<>>) = 0
  OBVIOUS
<1>2. 0 \in Reach(<<>>)
  BY <1>1, ReachClosed DEF Closed
<1> QED BY <1>1, <1>2, WholeReached

\* Whole frames after whole frames are whole frames.
LEMMA WholeConcat ==
    ASSUME NEW p \in Seq(StreamWords), NEW q \in Seq(StreamWords), Whole(p), Whole(q)
    PROVE  p \o q \in Seq(StreamWords) /\ Whole(p \o q)
<1>1. p \o q \in Seq(StreamWords) /\ Len(p \o q) = Len(p) + Len(q)
  BY ConcatParts
<1>2. UF!CompleteWords(p \o q) = Len(p) + UF!CompleteWords(q)
  BY CompleteAfter
<1> QED BY <1>1, <1>2 DEF Whole

LEMMA FramingInit == UF!Init => FramingInv
<1> SUFFICES ASSUME UF!Init PROVE FramingParts
  BY DEF FramingInv
<1>1. stream \in Seq(StreamWords) /\ WellFramed(stream)
  BY FramingAssumption DEF UF!Init
<1>2. taken = 0 /\ 0 \in 0..Len(stream) /\ SubSeq(stream, 1, 0) = <<>>
  BY <1>1 DEF UF!Init
<1>3. <<>> \in Seq(StreamWords) /\ <<>> \o <<>> = <<>>
  OBVIOUS
<1> QED BY <1>1, <1>2, <1>3, WholeEmpty DEF UF!Init, FramingParts

\* fixup: the whole frames of the buffer go on, the rest waits.
LEMMA FixupCut ==
    ASSUME NEW done \in Seq(StreamWords), Whole(done), NEW b \in Seq(StreamWords)
    PROVE  LET m == UF!CompleteWords(b)
               whole == SubSeq(b, 1, m)
               rest == SubSeq(b, m + 1, Len(b))
           IN /\ m \in Nat /\ m <= Len(b) /\ Len(whole) = m /\ Len(rest) = Len(b) - m
              /\ done \o whole \in Seq(StreamWords) /\ Whole(done \o whole)
              /\ rest \in Seq(StreamWords)
              /\ (done \o whole) \o rest = done \o b
<1> DEFINE m == UF!CompleteWords(b)
           whole == SubSeq(b, 1, m)
           rest == SubSeq(b, m + 1, Len(b))
<1>1. m \in 0..Len(b) /\ whole \in Seq(StreamWords) /\ Whole(whole)
  BY CutWhole
<1>2. m \in Nat /\ m <= Len(b) /\ Len(b) \in Nat
  BY <1>1
<1>3. Len(whole) = m
  BY <1>2, SubSeqParts
<1>4. Len(rest) = Len(b) - m
  BY <1>2, SubSeqParts
<1>5. whole \o rest = b /\ rest \in Seq(StreamWords)
  BY <1>2, CutSeq
<1> HIDE DEF whole, rest, m
<1>6. done \o whole \in Seq(StreamWords) /\ Whole(done \o whole)
  BY <1>1, WholeConcat
<1>7. (done \o whole) \o rest = done \o b
  <2>1. whole \in Seq(StreamWords) /\ rest \in Seq(StreamWords)
    BY <1>1, <1>5
  <2>2. (done \o whole) \o rest = done \o (whole \o rest)
    BY <2>1, SMTT(30)
  <2> QED BY <2>2, <1>5
<1> QED BY <1>2, <1>3, <1>4, <1>5, <1>6, <1>7 DEF whole, rest, m

LEMMA FramingStep == FramingInv /\ [UF!Next]_framingVars => FramingInv'
<1> SUFFICES ASSUME FramingInv, [UF!Next]_framingVars, Promising' PROVE FramingParts'
  BY DEF FramingInv
<1>1. Promising
  BY DEF Promising, UF!Next, UF!BeginReadout, UF!ReadUnbuffered, UF!ReadLoopEnds,
         UF!FixupWorker, UF!FixupFree, framingVars
<1>i. FramingParts
  BY <1>1 DEF FramingInv
<1>2. CASE UF!BeginReadout
  <2>1. UNCHANGED <<stream, loop, taken, handedOn>> /\ fpc = "call" /\ fpc' = "read"
        /\ transferred' = 0 /\ carried' = (carried \/ previousData # <<>>)
    BY <1>2 DEF UF!BeginReadout
  <2>2. loop = "free" => previousData = <<>>
    BY <2>1 DEF Promising
  <2>3. loop = "worker" \/ DestSize >= Len(previousData)
    <3>1. CASE loop = "worker"
      BY <3>1
    <3>2. CASE loop # "worker"
      <4>1. previousData = <<>> /\ Len(<<>>) = 0
        BY <3>2, <2>1 DEF Promising
      <4>2. DestSize >= Len(previousData)
        BY <4>1, FramingAssumption
      <4> QED BY <4>2
    <3> QED BY <3>1, <3>2
  <2>4. buffer' = previousData /\ previousData' = <<>>
    BY <2>3, <1>2 DEF UF!BeginReadout
  <2>5. <<>> \in Seq(StreamWords) /\ Len(<<>>) = 0
    OBVIOUS
  <2> QED BY <2>1, <2>2, <2>4, <2>5, <1>i DEF FramingParts
<1>3. CASE UF!ReadUnbuffered
  <2>1. UNCHANGED <<stream, loop, fpc, previousData, handedOn>> /\ fpc = "read"
    BY <1>3 DEF UF!ReadUnbuffered
  <2>2. PICK n \in 1..ReadSize :
          /\ taken + n <= Len(stream)
          /\ buffer' = buffer \o SubSeq(stream, taken + 1, taken + n)
          /\ taken' = taken + n /\ transferred' = transferred + n
    BY <1>3 DEF UF!ReadUnbuffered
  <2>3. n \in Nat /\ taken \in Nat /\ Len(stream) \in Nat /\ taken <= taken + n
        /\ taken + n \in 0..Len(stream) /\ taken + n \in Nat /\ (taken + n) - taken = n
    BY <2>2, <1>i, FramingAssumption DEF FramingParts
  <2>4. SubSeq(stream, taken + 1, taken + n) \in Seq(StreamWords)
        /\ Len(SubSeq(stream, taken + 1, taken + n)) = n
    BY <2>2, <2>3, <1>i, SubSeqParts DEF FramingParts
  <2>5. buffer' \in Seq(StreamWords) /\ Len(buffer') = Len(buffer) + n
    BY <2>2, <2>4, <1>i, ConcatParts DEF FramingParts
  <2>6. handedOn \o buffer' = (handedOn \o buffer) \o SubSeq(stream, taken + 1, taken + n)
    <3> DEFINE more == SubSeq(stream, taken + 1, taken + n)
    <3>1. handedOn \in Seq(StreamWords) /\ buffer \in Seq(StreamWords)
          /\ more \in Seq(StreamWords)
      BY <2>4, <1>i DEF FramingParts
    <3> HIDE DEF more
    <3>2. (handedOn \o buffer) \o more = handedOn \o (buffer \o more)
      BY <3>1, SMTT(30)
    <3> QED BY <3>2, <2>2 DEF more
  <2>7. handedOn \o buffer' = SubSeq(stream, 1, taken + n)
    <3>1. handedOn \o buffer = SubSeq(stream, 1, taken)
      BY <2>1, <1>i DEF FramingParts
    <3> QED BY <3>1, <2>2, <2>3, <2>6, <1>i, TakeMore DEF FramingParts
  <2>8. loop = "free" => transferred' = Len(buffer')
    BY <2>1, <2>2, <2>5, <1>i DEF FramingParts
  <2> QED BY <2>1, <2>2, <2>3, <2>5, <2>7, <2>8, <1>i DEF FramingParts
<1>4. CASE UF!ReadLoopEnds
  BY <1>4, <1>i DEF UF!ReadLoopEnds, FramingParts
<1>5. CASE UF!FixupWorker
  <2> DEFINE m == UF!CompleteWords(buffer)
             whole == SubSeq(buffer, 1, m)
             rest == SubSeq(buffer, m + 1, Len(buffer))
  <2>1. /\ Len(whole) = m /\ handedOn \o whole \in Seq(StreamWords)
        /\ Whole(handedOn \o whole) /\ rest \in Seq(StreamWords)
        /\ (handedOn \o whole) \o rest = handedOn \o buffer
    BY <1>i, FixupCut DEF FramingParts
  <2>2. UNCHANGED <<stream, loop, taken, buffer>> /\ fpc = "fixup" /\ fpc' = "call"
        /\ handedOn' = handedOn \o whole
        /\ previousData' = SubSeq(buffer, Len(whole) + 1, Len(buffer))
    BY <1>5 DEF UF!FixupWorker
  <2>3. previousData' = rest
    BY <2>1, <2>2
  <2> HIDE DEF whole, rest, m
  <2> QED BY <2>1, <2>2, <2>3, <1>i DEF FramingParts
<1>6. CASE UF!FixupFree
  <2> DEFINE m == UF!CompleteWords(buffer)
             whole == SubSeq(buffer, 1, m)
             rest == SubSeq(buffer, m + 1, Len(buffer))
  <2>1. /\ m \in Nat /\ m <= Len(buffer) /\ Len(rest) = Len(buffer) - m
        /\ handedOn \o whole \in Seq(StreamWords)
        /\ Whole(handedOn \o whole) /\ rest \in Seq(StreamWords)
        /\ (handedOn \o whole) \o rest = handedOn \o buffer
    BY <1>i, FixupCut DEF FramingParts
  <2>2. transferred = Len(buffer) /\ Len(buffer) \in Nat /\ SubSeq(buffer, 1, Len(buffer)) = buffer
    BY <1>6, <1>i DEF UF!FixupFree, FramingParts
  <2>3. UNCHANGED <<stream, loop, taken, buffer>> /\ fpc = "fixup" /\ fpc' = "call"
        /\ handedOn' = handedOn \o SubSeq(buffer, 1, Len(buffer) - Len(rest))
        /\ previousData' = rest
    BY <1>6, <2>2 DEF UF!FixupFree
  <2>4. Len(buffer) - Len(rest) = m
    BY <2>1, <2>2
  <2>5. handedOn' = handedOn \o whole
    BY <2>3, <2>4
  <2> HIDE DEF whole, rest, m
  <2> QED BY <2>1, <2>3, <2>5, <1>i DEF FramingParts
<1>7. CASE UNCHANGED framingVars
  BY <1>7, <1>i DEF framingVars, FramingParts
<1> QED BY <1>2, <1>3, <1>4, <1>5, <1>6, <1>7 DEF UF!Next

LEMMA StreamKept == FramingInv => UF!StreamIntact
<1> SUFFICES ASSUME FramingInv, fpc = "call", Promising
             PROVE  /\ handedOn \o previousData = SubSeq(stream, 1, taken)
                    /\ UF!CompleteWords(stream) >= Len(handedOn)
                    /\ Len(handedOn) = Len(stream)
                       \/ stream[Len(handedOn) + 1].type # "payload"
  BY DEF UF!StreamIntact, Promising
<1>i. FramingParts
  BY DEF FramingInv
<1> DEFINE later == SubSeq(stream, taken + 1, Len(stream))
           rest == previousData \o later
<1>t. stream \in Seq(StreamWords) /\ taken \in Nat /\ taken <= Len(stream)
      /\ handedOn \in Seq(StreamWords) /\ previousData \in Seq(StreamWords)
  BY <1>i DEF FramingParts
<1>1. later \in Seq(StreamWords) /\ SubSeq(stream, 1, taken) \o later = stream
  BY <1>t, CutSeq
<1>2. rest \in Seq(StreamWords)
  BY <1>1, <1>i, ConcatParts DEF FramingParts
<1>3. handedOn \o previousData = SubSeq(stream, 1, taken)
  BY <1>i DEF FramingParts
<1>4. stream = handedOn \o rest
  <2>1. later \in Seq(StreamWords)
    BY <1>1
  <2> HIDE DEF later
  <2>2. (handedOn \o previousData) \o later = handedOn \o (previousData \o later)
    BY <2>1, <1>t, SMTT(30)
  <2> QED BY <2>2, <1>1, <1>3
<1> HIDE DEF rest, later
<1>5. Len(handedOn) \in Nat /\ Len(stream) = Len(handedOn) + Len(rest) /\ Len(rest) \in Nat
  BY <1>2, <1>4, <1>i, ConcatParts DEF FramingParts
<1>6. UF!CompleteWords(stream) = Len(handedOn) + UF!CompleteWords(rest)
  BY <1>2, <1>4, <1>i, CompleteAfter DEF FramingParts
<1>7. UF!CompleteWords(rest) \in Nat
  BY <1>2, CutWhole
<1>8. 0 \in Reach(rest)
  BY <1>2, ReachClosed DEF Closed
<1>9. Len(handedOn) + 0 \in Reach(stream)
  BY <1>2, <1>4, <1>8, <1>i, ReachAfter DEF FramingParts
<1>10. Len(handedOn) \in Reach(stream)
  BY <1>9, <1>5
<1>11. Len(handedOn) = Len(stream) \/ Len(handedOn) < Len(stream)
  BY <1>5
<1>12. Len(handedOn) < Len(stream) => stream[Len(handedOn) + 1].type # "payload"
  BY <1>10, <1>i, NoPayloadAfterWhole DEF FramingParts
<1> QED BY <1>3, <1>5, <1>6, <1>7, <1>11, <1>12

-----------------------------------------------------------------------------
(***************************************************************************)
(* All of them                                                             *)
(***************************************************************************)
TransportInv == ConnectionInv /\ UsbInv /\ WordsInv /\ LossInv /\ FramingInv

LEMMA TransportStart == TransportInit => TransportInv
BY ConnectionInit, UsbInit, WordsInit, LossInit, FramingInit DEF TransportInit, TransportInv

\* A step of one part leaves the others alone.
LEMMA TransportStep == TransportInv /\ [TransportNext]_transportVars => TransportInv'
<1> SUFFICES ASSUME TransportInv, [TransportNext]_transportVars PROVE TransportInv'
  OBVIOUS
<1>1. [Next]_ethVars
  BY DEF TransportNext, transportVars, OnlyPackets, OnlyUsb, OnlyDialog, OnlyFraming, OnlyVme
<1>2. [US!Next]_usbVars
  BY DEF TransportNext, transportVars, OnlyConnection, OnlyPackets, OnlyDialog, OnlyFraming,
         OnlyVme
<1>3. [EP!Next]_packetVars
  BY DEF TransportNext, transportVars, OnlyConnection, OnlyUsb, OnlyDialog, OnlyFraming, OnlyVme
<1>4. [UF!Next]_framingVars
  BY DEF TransportNext, transportVars, OnlyConnection, OnlyPackets, OnlyUsb, OnlyDialog, OnlyVme
<1> QED BY <1>1, <1>2, <1>3, <1>4, ConnectionStep, UsbStep, WordsStep, LossStep, FramingStep
        DEF TransportInv

LEMMA LinksFromInv == TransportInv => LinksSound
BY SocketsOwned, StreamKept
   DEF TransportInv, LinksSound, ConnectionInv, UsbInv, WordsInv, LossInv

\* The transports keep what passes through them, for every receive buffer, packet size,
\* read size and stream of frames: connect() loses no descriptor and the throttler uses only
\* the open delay socket, every payload word of a packet or a transfer is returned once and
\* in order, the packets counted as lost are those that are missing, and readout_usb() hands
\* on whole frames (read_packet, read_unbuffered, fixup_usb_buffer).
THEOREM LinksTheorem == TransportSpec => []LinksSound
<1>1. TransportInit => TransportInv
  BY TransportStart
<1>2. TransportInv /\ [TransportNext]_transportVars => TransportInv'
  BY TransportStep
<1>3. TransportInv => LinksSound
  BY LinksFromInv
<1> QED BY <1>1, <1>2, <1>3, PTL DEF TransportSpec
=============================================================================
