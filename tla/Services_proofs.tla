-------------------------- MODULE Services_proofs --------------------------
(***************************************************************************)
(* Proofs about what the threads of a readout share, for any number of     *)
(* threads, buffers, values and errors.                                    *)
(*                                                                         *)
(* TicketMutex: the mutexes exclude each other's threads and implement     *)
(* FairLock, for any set of fewer threads than there are tickets.  The     *)
(* invariant says who is in line: the tickets from m_queue_head to         *)
(* m_queue_tail belong, in order, to the threads of line[m], of which only *)
(* the first may have passed.  That a ticket identifies its owner needs    *)
(* the line to be shorter than TicketMod, which follows from the number of *)
(* threads because nobody is in it twice.                                  *)
(*                                                                         *)
(* WaitQueues: the inductive invariant WaitInv says which threads a        *)
(* condition variable lists and who owns a mutex; that a thread sleeps on  *)
(* the object of its call, and only while its condition is false or a      *)
(* notification is still to come, and that nobody else changes what a      *)
(* wait() found true.  PlaceInv says where the buffers are.                *)
(*                                                                         *)
(* StackErrors: the inductive invariant ErrorInv says that the last        *)
(* section lists what the plugin last compared the counters with.          *)
(***************************************************************************)
EXTENDS MCServices, FiniteSetTheorems, TLAPS

-----------------------------------------------------------------------------
(* The ticket mutexes                                                      *)

\* The ticket n places behind ticket x.
Behind(x, n) == IF x + n < TicketMod THEN x + n ELSE x + n - TicketMod

AwaitsTurn(t) == at[t] \in {"waiting", "woken"}

\* The owner of a mutex is first in its line.
OwnerFirst ==
    \A m \in Mutexes, t \in Threads :
        m \in held[t] => Len(line[m]) > 0 /\ line[m][1] = t

\* Nobody is twice in a line.
LineDistinct ==
    \A m \in Mutexes : \A i, j \in 1 .. Len(line[m]) :
        line[m][i] = line[m][j] => i = j

\* Everybody in a line waits with the ticket of that place, or is the owner.
LineTickets ==
    \A m \in Mutexes : \A i \in 1 .. Len(line[m]) :
        \/ i = 1 /\ m \in held[line[m][1]]
        \/ /\ AwaitsTurn(line[m][i])
           /\ trying[line[m][i]] = m
           /\ my_ticket_number[line[m][i]] = Behind(m_queue_head[m], i - 1)

\* Whoever waits is in line.
WaitersInLine ==
    \A t \in Threads : AwaitsTurn(t) =>
        /\ trying[t] \in Mutexes
        /\ trying[t] \in want[t]
        /\ \E i \in 1 .. Len(line[trying[t]]) : line[trying[t]][i] = t

\* The tail counter is as many tickets ahead as there are threads in line.
TailAhead ==
    \A m \in Mutexes : m_queue_tail[m] = Behind(m_queue_head[m], Len(line[m]))

WantNotHeld ==
    \A t \in Threads : /\ want[t] \cap held[t] = {}
                       /\ at[t] = "idle" => held[t] = {}

IInv ==
    /\ TypeOK
    /\ OwnerFirst
    /\ LineDistinct
    /\ LineTickets
    /\ WaitersInLine
    /\ TailAhead
    /\ WantNotHeld

-----------------------------------------------------------------------------

\* The assumption on the constants in the form the steps below use: a ticket
\* mutex has at least one ticket.
LEMMA TicketType ==
    /\ TicketMod \in Nat
    /\ Cardinality(Threads) \in Nat
    /\ TicketMod > 0
    /\ \A x \in 0 .. TicketMod - 1 : Increment(x) \in 0 .. TicketMod - 1
  BY TicketAssumption, FS_CardinalityType DEF Increment

\* Tickets are counted in a circle.
LEMMA BehindFacts ==
    ASSUME NEW x \in 0 .. TicketMod - 1, NEW n \in Nat, n < TicketMod
    PROVE  /\ Behind(x, n) \in 0 .. TicketMod - 1
           /\ Behind(x, n) = x <=> n = 0
           /\ Increment(Behind(x, n)) = Behind(x, n + 1)
           /\ n > 0 => Behind(Increment(x), n - 1) = Behind(x, n)
  BY TicketAssumption DEF Behind, Increment

\* A line is never as long as the range of the tickets.
LEMMA LineShort ==
    ASSUME TypeOK, LineDistinct, NEW m \in Mutexes
    PROVE  Len(line[m]) < TicketMod
<1> DEFINE n == Len(line[m])
<1>1. line[m] \in Seq(Threads) /\ n \in Nat
  BY DEF TypeOK
<1>2. line[m] \in Injection(1 .. n, Threads)
  BY <1>1 DEF LineDistinct, Injection, IsInjective
<1>3. Cardinality(1 .. n) <= Cardinality(Threads)
  BY <1>2, TicketAssumption, FS_Injection
<1>4. Cardinality(1 .. n) = n
  BY <1>1, FS_Interval
<1> QED
  BY <1>1, <1>3, <1>4, TicketAssumption, TicketType

\* Only the first in line has the ticket that may pass.
LEMMA OnlyFirstPasses ==
    ASSUME TypeOK, LineDistinct, NEW m \in Mutexes, NEW i \in 1 .. Len(line[m]),
           Behind(m_queue_head[m], i - 1) = m_queue_head[m]
    PROVE  i = 1
<1>1. Len(line[m]) < TicketMod
  BY LineShort
<1>2. m_queue_head[m] \in 0 .. TicketMod - 1 /\ Len(line[m]) \in Nat
  BY DEF TypeOK
<1>3. i - 1 \in Nat /\ i - 1 < TicketMod
  BY <1>1, <1>2, TicketAssumption
<1> QED
  BY <1>2, <1>3, BehindFacts

\* The counters are equal exactly when nobody is in line.
LEMMA EqualMeansFree ==
    ASSUME TypeOK, LineDistinct, TailAhead, NEW m \in Mutexes
    PROVE  m_queue_tail[m] = m_queue_head[m] <=> Len(line[m]) = 0
<1>1. Len(line[m]) < TicketMod
  BY LineShort
<1>2. m_queue_head[m] \in 0 .. TicketMod - 1 /\ Len(line[m]) \in Nat
  BY DEF TypeOK
<1> QED
  BY <1>1, <1>2, BehindFacts DEF TailAhead

\* Whoever runs has no place in a line other than that of a mutex it owns.
LEMMA RunnerNotInLine ==
    ASSUME TypeOK, LineTickets, NEW t \in Threads, at[t] = "running",
           NEW m \in Mutexes, m \notin held[t]
    PROVE  \A i \in 1 .. Len(line[m]) : line[m][i] # t
  BY DEF LineTickets, AwaitsTurn

-----------------------------------------------------------------------------

\* A thread joins the end of a line, as owner of a free mutex or with the ticket
\* that m_queue_tail shows.
LEMMA JoinLine ==
    ASSUME IInv, NEW t \in Threads, NEW m \in Mutexes, at[t] = "running",
           m \notin held[t],
           line' = [line EXCEPT ![m] = Append(@, t)],
           m_queue_tail' = [m_queue_tail EXCEPT ![m] = Increment(@)],
           m_queue_head' = m_queue_head
    PROVE  /\ line' \in [Mutexes -> Seq(Threads)]
           /\ m_queue_tail' \in [Mutexes -> 0 .. TicketMod - 1]
           /\ LineDistinct'
           /\ TailAhead'
           /\ \A k \in Mutexes \ {m} : line'[k] = line[k]
           /\ Len(line'[m]) = Len(line[m]) + 1
           /\ \A i \in 1 .. Len(line[m]) : line'[m][i] = line[m][i]
           /\ line'[m][Len(line[m]) + 1] = t
<1>1. line \in [Mutexes -> Seq(Threads)] /\ Len(line[m]) \in Nat
  BY DEF IInv, TypeOK
<1>2. line' \in [Mutexes -> Seq(Threads)]
  BY <1>1
<1>3. \A k \in Mutexes \ {m} : line'[k] = line[k]
  BY <1>1
<1>4. /\ Len(line'[m]) = Len(line[m]) + 1
      /\ \A i \in 1 .. Len(line[m]) : line'[m][i] = line[m][i]
      /\ line'[m][Len(line[m]) + 1] = t
  BY <1>1
<1>5. m_queue_tail' \in [Mutexes -> 0 .. TicketMod - 1]
  BY TicketType DEF IInv, TypeOK
<1>6. \A i \in 1 .. Len(line[m]) : line[m][i] # t
  BY RunnerNotInLine DEF IInv
<1>7. LineDistinct'
  <2> SUFFICES ASSUME NEW k \in Mutexes, NEW i \in 1 .. Len(line'[k]),
                      NEW j \in 1 .. Len(line'[k]), line'[k][i] = line'[k][j]
               PROVE  i = j
    BY DEF LineDistinct
  <2>1. CASE k # m
    BY <2>1, <1>3 DEF IInv, LineDistinct
  <2>2. CASE k = m
    BY <2>2, <1>1, <1>4, <1>6 DEF IInv, LineDistinct
  <2> QED BY <2>1, <2>2
<1>8. TailAhead'
  <2> SUFFICES ASSUME NEW k \in Mutexes
               PROVE  m_queue_tail'[k] = Behind(m_queue_head[k], Len(line'[k]))
    BY DEF TailAhead, Behind
  <2>1. CASE k # m
    BY <2>1, <1>3 DEF IInv, TailAhead, TypeOK
  <2>2. CASE k = m
    <3>1. Len(line[m]) < TicketMod
      BY LineShort DEF IInv
    <3>2. m_queue_head[m] \in 0 .. TicketMod - 1
      BY DEF IInv, TypeOK
    <3>3. m_queue_tail'[m] = Increment(Behind(m_queue_head[m], Len(line[m])))
      BY DEF IInv, TypeOK, TailAhead
    <3> QED BY <2>2, <3>1, <3>2, <3>3, <1>1, <1>4, BehindFacts
  <2> QED BY <2>1, <2>2
<1> QED
  BY <1>2, <1>3, <1>4, <1>5, <1>7, <1>8

\* Initially nobody is in line.
LEMMA InitInv == Init => IInv
<1> SUFFICES ASSUME Init PROVE IInv
  OBVIOUS
<1>1. TypeOK
  BY TicketType DEF Init, TypeOK, Places, Mutexes
<1>2. \A m \in Mutexes : line[m] = <<>> /\ Len(line[m]) = 0
  BY DEF Init
<1>3. OwnerFirst /\ LineDistinct /\ LineTickets
  BY <1>2 DEF OwnerFirst, LineDistinct, LineTickets, Init
<1>4. WaitersInLine /\ WantNotHeld
  BY DEF WaitersInLine, WantNotHeld, AwaitsTurn, Init
<1>5. TailAhead
  BY <1>2, TicketType DEF TailAhead, Behind, Init
<1> QED
  BY <1>1, <1>3, <1>4, <1>5 DEF IInv

\* A call begins: no mutex is touched.
LEMMA BeginInv ==
    ASSUME IInv, NEW t \in Threads, Begin(t)
    PROVE  IInv'
<1>1. PICK s \in SUBSET Mutexes : want' = [want EXCEPT ![t] = s]
  BY DEF Begin, Mutexes
<1>2. /\ at[t] = "idle" /\ at' = [at EXCEPT ![t] = "running"]
      /\ UNCHANGED <<m_queue_head, m_queue_tail, my_ticket_number, trying, held, line>>
  BY DEF Begin
<1>3. TypeOK'
  BY <1>1, <1>2 DEF IInv, TypeOK, Places
<1>4. \A u \in Threads : /\ AwaitsTurn(u)' <=> AwaitsTurn(u)
                         /\ AwaitsTurn(u) => want'[u] = want[u]
  BY <1>1, <1>2 DEF IInv, TypeOK, AwaitsTurn
<1>5. OwnerFirst' /\ LineDistinct'
  BY <1>2 DEF IInv, OwnerFirst, LineDistinct
<1>6. \A m \in Mutexes : \A i \in 1 .. Len(line[m]) : line[m][i] \in Threads
  BY DEF IInv, TypeOK
<1>7. LineTickets'
  BY <1>2, <1>4, <1>6 DEF IInv, LineTickets, Behind
<1>8. WaitersInLine'
  BY <1>2, <1>4 DEF IInv, WaitersInLine
<1>9. TailAhead'
  BY <1>2 DEF IInv, TailAhead, Behind
<1>10. WantNotHeld'
  BY <1>1, <1>2 DEF IInv, WantNotHeld, TypeOK
<1> QED
  BY <1>3, <1>5, <1>7, <1>8, <1>9, <1>10 DEF IInv

\* A thread takes a free mutex: lock() that need not wait, and try_lock().
LEMMA TakeInv ==
    ASSUME IInv, NEW t \in Threads, NEW m \in Mutexes, at[t] = "running",
           m \in want[t], Pass(t, m),
           m_queue_tail[m] = m_queue_head[m],
           line' = [line EXCEPT ![m] = Append(@, t)],
           m_queue_tail' = [m_queue_tail EXCEPT ![m] = Increment(@)],
           m_queue_head' = m_queue_head
    PROVE  IInv' /\ line[m] = <<>>
<1>1. m \notin held[t]
  BY DEF IInv, WantNotHeld
<1>2. Len(line[m]) = 0 /\ line[m] = <<>>
  BY EqualMeansFree DEF IInv, TypeOK
<1>3. /\ line' \in [Mutexes -> Seq(Threads)]
      /\ m_queue_tail' \in [Mutexes -> 0 .. TicketMod - 1]
      /\ LineDistinct' /\ TailAhead'
      /\ \A k \in Mutexes \ {m} : line'[k] = line[k]
      /\ Len(line'[m]) = 1 /\ line'[m][1] = t
  <2>1. /\ line' \in [Mutexes -> Seq(Threads)]
        /\ m_queue_tail' \in [Mutexes -> 0 .. TicketMod - 1]
        /\ LineDistinct' /\ TailAhead'
        /\ \A k \in Mutexes \ {m} : line'[k] = line[k]
        /\ Len(line'[m]) = Len(line[m]) + 1
        /\ line'[m][Len(line[m]) + 1] = t
    BY <1>1, JoinLine
  <2> QED BY <2>1, <1>2
<1>4. TypeOK'
  <2>1. my_ticket_number' \in [Threads -> 0 .. TicketMod - 1]
    BY TicketType DEF IInv, TypeOK, Pass
  <2>2. /\ at' \in [Threads -> Places]
        /\ trying' \in [Threads -> Mutexes \cup {NoMutex}]
        /\ want' \in [Threads -> SUBSET Mutexes]
        /\ held' \in [Threads -> SUBSET Mutexes]
    BY DEF IInv, TypeOK, Pass, Places
  <2> QED BY <2>1, <2>2, <1>3 DEF IInv, TypeOK
<1>5. \A u \in Threads \ {t} : /\ AwaitsTurn(u)' <=> AwaitsTurn(u)
                               /\ trying'[u] = trying[u] /\ want'[u] = want[u]
                               /\ my_ticket_number'[u] = my_ticket_number[u]
                               /\ held'[u] = held[u]
  BY DEF IInv, TypeOK, Pass, AwaitsTurn
<1>6. ~ AwaitsTurn(t) /\ ~ AwaitsTurn(t)'
  BY DEF IInv, TypeOK, Pass, AwaitsTurn
<1>7. held'[t] = held[t] \cup {m} /\ want'[t] = want[t] \ {m} /\ at'[t] = "running"
  BY DEF IInv, TypeOK, Pass
<1>8. OwnerFirst'
  BY <1>2, <1>3, <1>5, <1>7 DEF IInv, OwnerFirst
<1>9. LineTickets'
  <2> SUFFICES ASSUME NEW k \in Mutexes, NEW i \in 1 .. Len(line'[k])
               PROVE  \/ i = 1 /\ k \in held'[line'[k][1]]
                      \/ /\ at'[line'[k][i]] \in {"waiting", "woken"}
                         /\ trying'[line'[k][i]] = k
                         /\ my_ticket_number'[line'[k][i]] = Behind(m_queue_head[k], i - 1)
    BY DEF LineTickets, AwaitsTurn, Behind
  <2>1. CASE k = m
    BY <2>1, <1>3, <1>7
  <2>2. CASE k # m
    <3>1. line'[k] = line[k] /\ line[k] \in Seq(Threads) /\ line[k][i] \in Threads
      BY <2>2, <1>3 DEF IInv, TypeOK
    <3>2. \/ i = 1 /\ k \in held[line[k][1]]
          \/ /\ AwaitsTurn(line[k][i]) /\ trying[line[k][i]] = k
             /\ my_ticket_number[line[k][i]] = Behind(m_queue_head[k], i - 1)
      BY <3>1 DEF IInv, LineTickets
    <3> QED BY <3>1, <3>2, <1>5, <1>6, <1>7, ZenonT(30) DEF AwaitsTurn
  <2> QED BY <2>1, <2>2
<1>10. WaitersInLine'
  BY <1>2, <1>3, <1>5, <1>6 DEF IInv, WaitersInLine
<1>11. WantNotHeld'
  BY <1>5, <1>7 DEF IInv, WantNotHeld, TypeOK, Pass
<1> QED
  BY <1>2, <1>3, <1>4, <1>8, <1>9, <1>10, <1>11 DEF IInv

\* The mutex that lock() is called for is one of those wanted.
LEMMA FirstToLockType ==
    ASSUME NEW s \in SUBSET Mutexes, s # {}
    PROVE  FirstToLock(s) \in s /\ FirstToUnlock(s) \in s
  BY DEF FirstToLock, FirstToUnlock, Mutexes

\* lock() of a mutex that is not free: the thread waits at the end of the line.
LEMMA QueueInv ==
    ASSUME IInv, NEW t \in Threads, NEW m \in Mutexes, at[t] = "running",
           m \in want[t],
           line' = [line EXCEPT ![m] = Append(@, t)],
           m_queue_tail' = [m_queue_tail EXCEPT ![m] = Increment(@)],
           m_queue_head' = m_queue_head,
           my_ticket_number' = [my_ticket_number EXCEPT ![t] = m_queue_tail[m]],
           at' = [at EXCEPT ![t] = "waiting"],
           trying' = [trying EXCEPT ![t] = m],
           want' = want, held' = held
    PROVE  IInv' /\ \A i \in 1 .. Len(line[m]) : line[m][i] # t
<1>1. m \notin held[t]
  BY DEF IInv, WantNotHeld
<1>2. \A i \in 1 .. Len(line[m]) : line[m][i] # t
  BY <1>1, RunnerNotInLine DEF IInv
<1>3. /\ line' \in [Mutexes -> Seq(Threads)]
      /\ m_queue_tail' \in [Mutexes -> 0 .. TicketMod - 1]
      /\ LineDistinct' /\ TailAhead'
      /\ \A k \in Mutexes \ {m} : line'[k] = line[k]
      /\ Len(line'[m]) = Len(line[m]) + 1
      /\ \A i \in 1 .. Len(line[m]) : line'[m][i] = line[m][i]
      /\ line'[m][Len(line[m]) + 1] = t
  BY <1>1, JoinLine
<1>4. TypeOK'
  <2>1. my_ticket_number' \in [Threads -> 0 .. TicketMod - 1]
    BY DEF IInv, TypeOK
  <2>2. /\ at' \in [Threads -> Places]
        /\ trying' \in [Threads -> Mutexes \cup {NoMutex}]
    BY DEF IInv, TypeOK, Places
  <2> QED BY <2>1, <2>2, <1>3 DEF IInv, TypeOK
<1>5. \A u \in Threads \ {t} : /\ at'[u] = at[u] /\ trying'[u] = trying[u]
                               /\ my_ticket_number'[u] = my_ticket_number[u]
  BY DEF IInv, TypeOK
<1>6. /\ at'[t] = "waiting" /\ trying'[t] = m
      /\ my_ticket_number'[t] = Behind(m_queue_head[m], Len(line[m]))
  BY DEF IInv, TypeOK, TailAhead
<1>7. line \in [Mutexes -> Seq(Threads)] /\ Len(line[m]) \in Nat
  BY DEF IInv, TypeOK
<1>8. OwnerFirst'
  BY <1>1, <1>3, <1>7 DEF IInv, OwnerFirst
<1>9. LineTickets'
  <2> SUFFICES ASSUME NEW k \in Mutexes, NEW i \in 1 .. Len(line'[k])
               PROVE  \/ i = 1 /\ k \in held[line'[k][1]]
                      \/ /\ at'[line'[k][i]] \in {"waiting", "woken"}
                         /\ trying'[line'[k][i]] = k
                         /\ my_ticket_number'[line'[k][i]] = Behind(m_queue_head[k], i - 1)
    BY DEF LineTickets, AwaitsTurn, Behind
  <2>1. CASE k = m /\ i = Len(line[m]) + 1
    BY <2>1, <1>3, <1>6, <1>7
  <2>2. CASE k # m \/ i # Len(line[m]) + 1
    <3>1. i \in 1 .. Len(line[k]) /\ line'[k][i] = line[k][i]
      BY <2>2, <1>3, <1>7
    <3>2. line[k][i] \in Threads
      BY <3>1, <1>7
    <3>3. \/ i = 1 /\ k \in held[line[k][1]]
          \/ /\ AwaitsTurn(line[k][i]) /\ trying[line[k][i]] = k
             /\ my_ticket_number[line[k][i]] = Behind(m_queue_head[k], i - 1)
      BY <3>1 DEF IInv, LineTickets
    <3>4. ~ AwaitsTurn(t)
      BY DEF AwaitsTurn
    <3> QED BY <3>1, <3>2, <3>3, <3>4, <1>5 DEF AwaitsTurn
  <2> QED BY <2>1, <2>2
<1>10. WaitersInLine'
  <2> SUFFICES ASSUME NEW u \in Threads, at'[u] \in {"waiting", "woken"}
               PROVE  /\ trying'[u] \in Mutexes /\ trying'[u] \in want[u]
                      /\ \E i \in 1 .. Len(line'[trying'[u]]) : line'[trying'[u]][i] = u
    BY DEF WaitersInLine, AwaitsTurn
  <2>1. CASE u = t
    BY <2>1, <1>3, <1>6, <1>7
  <2>2. CASE u # t
    <3>1. AwaitsTurn(u) /\ trying'[u] = trying[u]
      BY <2>2, <1>5 DEF AwaitsTurn
    <3>2. /\ trying[u] \in Mutexes /\ trying[u] \in want[u]
          /\ \E i \in 1 .. Len(line[trying[u]]) : line[trying[u]][i] = u
      BY <3>1 DEF IInv, WaitersInLine
    <3> QED BY <3>1, <3>2, <1>3, <1>7
  <2> QED BY <2>1, <2>2
<1>11. WantNotHeld'
  BY <1>5, <1>6 DEF IInv, WantNotHeld
<1> QED
  BY <1>2, <1>3, <1>4, <1>8, <1>9, <1>10, <1>11 DEF IInv

\* A waiting thread whose ticket has come up is first in line and passes.
LEMMA PassInv ==
    ASSUME IInv, NEW t \in Threads, at[t] = "woken",
           my_ticket_number[t] = m_queue_head[trying[t]], Pass(t, trying[t]),
           UNCHANGED <<m_queue_head, m_queue_tail, line>>
    PROVE  /\ IInv'
           /\ trying[t] \in Mutexes
           /\ Len(line[trying[t]]) > 0 /\ line[trying[t]][1] = t
           /\ trying[t] \notin held[t]
<1> DEFINE m == trying[t]
<1>1. /\ m \in Mutexes /\ m \in want[t] /\ m \notin held[t]
      /\ \E i \in 1 .. Len(line[m]) : line[m][i] = t
  BY DEF IInv, WaitersInLine, AwaitsTurn, WantNotHeld
<1>2. PICK i \in 1 .. Len(line[m]) : line[m][i] = t
  BY <1>1
<1>3. i = 1
  <2>1. CASE i = 1 /\ m \in held[line[m][1]]
    BY <2>1
  <2>2. CASE my_ticket_number[line[m][i]] = Behind(m_queue_head[m], i - 1)
    BY <2>2, <1>1, <1>2, OnlyFirstPasses DEF IInv
  <2> QED BY <1>1, <2>1, <2>2 DEF IInv, LineTickets
<1>4. Len(line[m]) > 0 /\ line[m][1] = t
  BY <1>2, <1>3
<1>5. TypeOK'
  <2>1. my_ticket_number' \in [Threads -> 0 .. TicketMod - 1]
    BY TicketType DEF IInv, TypeOK, Pass
  <2>2. /\ at' \in [Threads -> Places]
        /\ trying' \in [Threads -> Mutexes \cup {NoMutex}]
        /\ want' \in [Threads -> SUBSET Mutexes]
        /\ held' \in [Threads -> SUBSET Mutexes]
    BY <1>1 DEF IInv, TypeOK, Pass, Places
  <2> QED BY <2>1, <2>2 DEF IInv, TypeOK
<1>6. \A u \in Threads \ {t} : /\ at'[u] = at[u] /\ trying'[u] = trying[u]
                               /\ my_ticket_number'[u] = my_ticket_number[u]
                               /\ want'[u] = want[u] /\ held'[u] = held[u]
  BY DEF IInv, TypeOK, Pass
<1>7. held'[t] = held[t] \cup {m} /\ want'[t] = want[t] \ {m} /\ at'[t] = "running"
  BY DEF IInv, TypeOK, Pass
<1>8. OwnerFirst'
  BY <1>4, <1>6, <1>7 DEF IInv, OwnerFirst
<1>9. LineTickets'
  <2> SUFFICES ASSUME NEW k \in Mutexes, NEW j \in 1 .. Len(line[k])
               PROVE  \/ j = 1 /\ k \in held'[line[k][1]]
                      \/ /\ at'[line[k][j]] \in {"waiting", "woken"}
                         /\ trying'[line[k][j]] = k
                         /\ my_ticket_number'[line[k][j]] = Behind(m_queue_head[k], j - 1)
    BY DEF LineTickets, AwaitsTurn, Behind
  <2>1. line[k][j] \in Threads
    BY DEF IInv, TypeOK
  <2>2. \/ j = 1 /\ k \in held[line[k][1]]
        \/ /\ AwaitsTurn(line[k][j]) /\ trying[line[k][j]] = k
           /\ my_ticket_number[line[k][j]] = Behind(m_queue_head[k], j - 1)
    BY DEF IInv, LineTickets
  <2>3. CASE line[k][j] # t
    BY <2>1, <2>2, <2>3, <1>6 DEF AwaitsTurn
  <2>4. CASE line[k][j] = t /\ k = m
    <3>1. j = 1
      BY <2>4, <1>2, <1>3 DEF IInv, LineDistinct
    <3> QED BY <2>4, <3>1, <1>7
  <2>5. CASE line[k][j] = t /\ k # m
    BY <2>2, <2>5, <1>7
  <2> QED BY <2>3, <2>4, <2>5
<1>10. WaitersInLine'
  BY <1>6, <1>7 DEF IInv, WaitersInLine, AwaitsTurn
<1>11. WantNotHeld'
  BY <1>6, <1>7 DEF IInv, WantNotHeld
<1>12. LineDistinct' /\ TailAhead'
  BY DEF IInv, LineDistinct, TailAhead, Behind
<1> QED
  BY <1>1, <1>4, <1>5, <1>8, <1>9, <1>10, <1>11, <1>12 DEF IInv

\* Steps that only move threads about: a waiting thread stays in its line
\* whether it sleeps or has been woken.
LEMMA MoveInv ==
    ASSUME IInv,
           at' \in [Threads -> Places],
           trying' \in [Threads -> Mutexes \cup {NoMutex}],
           want' \in [Threads -> SUBSET Mutexes],
           \A u \in Threads :
             /\ AwaitsTurn(u) <=> at'[u] \in {"waiting", "woken"}
             /\ AwaitsTurn(u) => trying'[u] = trying[u] /\ want'[u] = want[u]
             /\ want'[u] \subseteq want[u]
             /\ at'[u] = "idle" => held[u] = {},
           UNCHANGED <<m_queue_head, m_queue_tail, my_ticket_number, held, line>>
    PROVE  IInv'
<1>1. TypeOK'
  BY DEF IInv, TypeOK
<1>2. OwnerFirst' /\ LineDistinct' /\ TailAhead'
  BY DEF IInv, OwnerFirst, LineDistinct, TailAhead, Behind
<1>3. LineTickets'
  <2> SUFFICES ASSUME NEW k \in Mutexes, NEW j \in 1 .. Len(line[k])
               PROVE  \/ j = 1 /\ k \in held[line[k][1]]
                      \/ /\ at'[line[k][j]] \in {"waiting", "woken"}
                         /\ trying'[line[k][j]] = k
                         /\ my_ticket_number[line[k][j]] = Behind(m_queue_head[k], j - 1)
    BY DEF LineTickets, AwaitsTurn, Behind
  <2>1. line[k][j] \in Threads
    BY DEF IInv, TypeOK
  <2> QED BY <2>1 DEF IInv, LineTickets
<1>4. WaitersInLine'
  BY DEF IInv, WaitersInLine, AwaitsTurn
<1>5. WantNotHeld'
  BY DEF IInv, WantNotHeld
<1> QED
  BY <1>1, <1>2, <1>3, <1>4, <1>5 DEF IInv

\* unlock() by the first in line: everybody behind moves up by one place.
LEMMA LeaveInv ==
    ASSUME IInv, NEW t \in Threads, NEW m \in Mutexes, at[t] = "running",
           m \in held[t],
           m_queue_head' = [m_queue_head EXCEPT ![m] = Increment(@)],
           line' = [line EXCEPT ![m] = Tail(@)],
           held' = [held EXCEPT ![t] = @ \ {m}],
           trying' = [trying EXCEPT ![t] = m],
           at' = [at EXCEPT ![t] = "notify"],
           UNCHANGED <<m_queue_tail, my_ticket_number, want>>
    PROVE  IInv' /\ Len(line[m]) > 0 /\ line[m][1] = t
<1>1. line \in [Mutexes -> Seq(Threads)] /\ Len(line[m]) \in Nat
  BY DEF IInv, TypeOK
<1>2. Len(line[m]) > 0 /\ line[m][1] = t
  BY DEF IInv, OwnerFirst
<1>3. /\ line' \in [Mutexes -> Seq(Threads)]
      /\ \A k \in Mutexes \ {m} : line'[k] = line[k]
      /\ Len(line'[m]) = Len(line[m]) - 1
      /\ \A i \in 1 .. Len(line[m]) - 1 : line'[m][i] = line[m][i + 1]
  <2>1. line[m] \in Seq(Threads) /\ line[m] # <<>>
    BY <1>1, <1>2
  <2>2. line'[m] = Tail(line[m]) /\ \A k \in Mutexes \ {m} : line'[k] = line[k]
    BY <1>1
  <2>3. /\ Tail(line[m]) \in Seq(Threads)
        /\ Len(Tail(line[m])) = Len(line[m]) - 1
        /\ \A i \in 1 .. Len(line[m]) - 1 : Tail(line[m])[i] = line[m][i + 1]
    BY <2>1
  <2>4. line' \in [Mutexes -> Seq(Threads)]
    BY <1>1, <2>3
  <2> QED BY <2>2, <2>3, <2>4
<1>4. \A u \in Threads \ {t} : at'[u] = at[u] /\ trying'[u] = trying[u] /\ held'[u] = held[u]
  BY DEF IInv, TypeOK
<1>5. /\ at'[t] = "notify" /\ held'[t] = held[t] \ {m} /\ ~ AwaitsTurn(t)
      /\ \A k \in Mutexes \ {m} : m_queue_head'[k] = m_queue_head[k]
      /\ m_queue_head'[m] = Increment(m_queue_head[m])
      /\ m_queue_head[m] \in 0 .. TicketMod - 1
  BY DEF IInv, TypeOK, AwaitsTurn
<1>6. Len(line[m]) < TicketMod
  BY LineShort DEF IInv
<1>7. TypeOK'
  <2>1. m_queue_head' \in [Mutexes -> 0 .. TicketMod - 1]
    BY TicketType DEF IInv, TypeOK
  <2>2. /\ at' \in [Threads -> Places]
        /\ trying' \in [Threads -> Mutexes \cup {NoMutex}]
        /\ held' \in [Threads -> SUBSET Mutexes]
    BY DEF IInv, TypeOK, Places
  <2> QED BY <2>1, <2>2, <1>3 DEF IInv, TypeOK
<1>8. OwnerFirst'
  <2> SUFFICES ASSUME NEW k \in Mutexes, NEW u \in Threads, k \in held'[u]
               PROVE  Len(line'[k]) > 0 /\ line'[k][1] = u
    BY DEF OwnerFirst
  <2>1. k \in held[u] /\ (k # m \/ u # t)
    BY <1>4, <1>5
  <2>2. line[k][1] = u /\ Len(line[k]) > 0
    BY <2>1 DEF IInv, OwnerFirst
  <2> QED BY <2>1, <2>2, <1>2, <1>3
<1>9. LineDistinct'
  <2> SUFFICES ASSUME NEW k \in Mutexes, NEW i \in 1 .. Len(line'[k]),
                      NEW j \in 1 .. Len(line'[k]), line'[k][i] = line'[k][j]
               PROVE  i = j
    BY DEF LineDistinct
  <2>1. CASE k # m
    BY <2>1, <1>3 DEF IInv, LineDistinct
  <2>2. CASE k = m
    <3>1. i + 1 \in 1 .. Len(line[m]) /\ j + 1 \in 1 .. Len(line[m])
      BY <2>2, <1>1, <1>3
    <3>2. line[m][i + 1] = line[m][j + 1]
      BY <2>2, <1>1, <1>3
    <3>3. i + 1 = j + 1
      BY <3>1, <3>2 DEF IInv, LineDistinct
    <3> QED BY <3>3
  <2> QED BY <2>1, <2>2
<1>10. LineTickets'
  <2> SUFFICES ASSUME NEW k \in Mutexes, NEW i \in 1 .. Len(line'[k])
               PROVE  \/ i = 1 /\ k \in held'[line'[k][1]]
                      \/ /\ at'[line'[k][i]] \in {"waiting", "woken"}
                         /\ trying'[line'[k][i]] = k
                         /\ my_ticket_number[line'[k][i]] = Behind(m_queue_head'[k], i - 1)
    BY DEF LineTickets, AwaitsTurn, Behind
  <2>1. CASE k # m
    <3>1. line'[k] = line[k] /\ m_queue_head'[k] = m_queue_head[k] /\ line[k][i] \in Threads
      BY <2>1, <1>1, <1>3, <1>5
    <3>2. \/ i = 1 /\ k \in held[line[k][1]]
          \/ /\ AwaitsTurn(line[k][i]) /\ trying[line[k][i]] = k
             /\ my_ticket_number[line[k][i]] = Behind(m_queue_head[k], i - 1)
      BY <3>1 DEF IInv, LineTickets
    <3> QED BY <2>1, <3>1, <3>2, <1>4, <1>5 DEF AwaitsTurn
  <2>2. CASE k = m
    <3>1. i + 1 \in 1 .. Len(line[m]) /\ line'[m][i] = line[m][i + 1] /\ i \in Nat /\ i > 0
      BY <2>2, <1>1, <1>3
    <3>2. /\ AwaitsTurn(line[m][i + 1]) /\ trying[line[m][i + 1]] = m
          /\ my_ticket_number[line[m][i + 1]] = Behind(m_queue_head[m], (i + 1) - 1)
      BY <3>1 DEF IInv, LineTickets
    <3>3. line[m][i + 1] \in Threads \ {t}
      BY <3>1, <3>2, <1>1, <1>5
    <3>4. Behind(m_queue_head[m], (i + 1) - 1) = Behind(m_queue_head'[m], i - 1)
      <4>1. (i + 1) - 1 = i /\ i < TicketMod
        BY <3>1, <1>1, <1>6, TicketAssumption
      <4> QED BY <4>1, <3>1, <1>5, BehindFacts
    <3> QED BY <2>2, <3>1, <3>2, <3>3, <3>4, <1>4 DEF AwaitsTurn
  <2> QED BY <2>1, <2>2
<1>11. WaitersInLine'
  <2> SUFFICES ASSUME NEW u \in Threads, at'[u] \in {"waiting", "woken"}
               PROVE  /\ trying'[u] \in Mutexes /\ trying'[u] \in want[u]
                      /\ \E i \in 1 .. Len(line'[trying'[u]]) : line'[trying'[u]][i] = u
    BY DEF WaitersInLine, AwaitsTurn
  <2>1. u # t /\ AwaitsTurn(u) /\ trying'[u] = trying[u]
    BY <1>4, <1>5 DEF AwaitsTurn
  <2>2. /\ trying[u] \in Mutexes /\ trying[u] \in want[u]
        /\ \E i \in 1 .. Len(line[trying[u]]) : line[trying[u]][i] = u
    BY <2>1 DEF IInv, WaitersInLine
  <2>3. PICK i \in 1 .. Len(line[trying[u]]) : line[trying[u]][i] = u
    BY <2>2
  <2>4. CASE trying[u] # m
    BY <2>1, <2>2, <2>3, <2>4, <1>3
  <2>5. CASE trying[u] = m
    <3>1. i # 1
      BY <2>1, <2>3, <2>5, <1>2
    <3>2. i - 1 \in 1 .. Len(line'[m]) /\ line'[m][i - 1] = u
      BY <2>3, <2>5, <3>1, <1>1, <1>3
    <3> QED BY <2>1, <2>2, <2>5, <3>2
  <2> QED BY <2>4, <2>5
<1>12. TailAhead'
  <2> SUFFICES ASSUME NEW k \in Mutexes
               PROVE  m_queue_tail[k] = Behind(m_queue_head'[k], Len(line'[k]))
    BY DEF TailAhead, Behind
  <2>1. CASE k # m
    BY <2>1, <1>3, <1>5 DEF IInv, TailAhead
  <2>2. CASE k = m
    <3>1. m_queue_tail[m] = Behind(m_queue_head[m], Len(line[m]))
      BY DEF IInv, TailAhead
    <3>2. Behind(m_queue_head[m], Len(line[m])) = Behind(Increment(m_queue_head[m]), Len(line[m]) - 1)
      BY <1>1, <1>2, <1>5, <1>6, BehindFacts
    <3> QED BY <2>2, <3>1, <3>2, <1>3, <1>5
  <2> QED BY <2>1, <2>2
<1>13. WantNotHeld'
  BY <1>4, <1>5 DEF IInv, WantNotHeld
<1> QED
  BY <1>2, <1>7, <1>8, <1>9, <1>10, <1>11, <1>12, <1>13 DEF IInv

-----------------------------------------------------------------------------

\* The owners of FairLock after a thread took or gave back a mutex.
LEMMA OwnersTaken ==
    ASSUME TypeOK, NEW t \in Threads, NEW m \in Mutexes,
           held' = [held EXCEPT ![t] = @ \cup {m}], Owners[m] = {}
    PROVE  Owners' = [Owners EXCEPT ![m] = {t}]
<1>1. \A u \in Threads : m \in held'[u] <=> u = t
  BY DEF TypeOK, Owners
<1>2. \A k \in Mutexes \ {m} : \A u \in Threads : k \in held'[u] <=> k \in held[u]
  BY DEF TypeOK
<1>3. \A k \in Mutexes : Owners'[k] = {u \in Threads : k \in held'[u]}
  BY DEF Owners
<1>4. Owners'[m] = {t} /\ \A k \in Mutexes \ {m} : Owners'[k] = Owners[k]
  BY <1>1, <1>2, <1>3 DEF Owners
<1> QED
  BY <1>4 DEF Owners

LEMMA OwnersLeft ==
    ASSUME IInv, NEW t \in Threads, NEW m \in Mutexes, m \in held[t],
           held' = [held EXCEPT ![t] = @ \ {m}]
    PROVE  Owners[m] = {t} /\ Owners' = [Owners EXCEPT ![m] = {}]
<1>1. \A u \in Threads : m \in held[u] => u = t
  BY DEF IInv, OwnerFirst
<1>2. Owners[m] = {t}
  BY <1>1 DEF Owners
<1>3. \A u \in Threads : m \notin held'[u]
  BY <1>1 DEF IInv, TypeOK
<1>4. \A k \in Mutexes \ {m} : \A u \in Threads : k \in held'[u] <=> k \in held[u]
  BY DEF IInv, TypeOK
<1>5. \A k \in Mutexes : Owners'[k] = {u \in Threads : k \in held'[u]}
  BY DEF Owners
<1>6. Owners'[m] = {} /\ \A k \in Mutexes \ {m} : Owners'[k] = Owners[k]
  BY <1>3, <1>4, <1>5 DEF Owners
<1>7. Owners' = [Owners EXCEPT ![m] = {}]
  BY <1>6 DEF Owners
<1> QED
  BY <1>2, <1>7

\* A step of lock(), unlock() or try_lock() keeps the invariant and is a step of
\* FairLock or changes nothing that FairLock has.
LEMMA StepInv ==
    ASSUME IInv, [Next]_mutexVars
    PROVE  IInv' /\ [Lock!Next]_(Lock!lockVars)
<1> USE DEF Lock!lockVars
<1>1. ASSUME NEW t \in Threads, Begin(t)
      PROVE  IInv' /\ UNCHANGED <<line, Owners>>
  BY <1>1, BeginInv DEF Begin, Owners
<1>2. ASSUME NEW t \in Threads, lock(t)
      PROVE  IInv' /\ \E m \in Mutexes : Lock!Take(t, m) \/ Lock!Queue(t, m)
  <2> DEFINE m == FirstToLock(want[t])
  <2>1. m \in Mutexes /\ m \in want[t] /\ at[t] = "running"
    BY <1>2, FirstToLockType DEF lock, IInv, TypeOK
  <2>2. /\ line' = [line EXCEPT ![m] = Append(@, t)]
        /\ m_queue_tail' = [m_queue_tail EXCEPT ![m] = Increment(@)]
        /\ m_queue_head' = m_queue_head
    BY <1>2 DEF lock
  <2>3. CASE m_queue_tail[m] = m_queue_head[m] /\ Pass(t, m)
    <3>1. IInv' /\ line[m] = <<>>
      BY <2>1, <2>2, <2>3, TakeInv
    <3>2. Owners[m] = {}
      BY <2>1, <3>1 DEF Owners, IInv, OwnerFirst
    <3>3. Owners' = [Owners EXCEPT ![m] = {t}]
      BY <2>1, <2>3, <3>2, OwnersTaken DEF Pass, IInv
    <3>4. line' = [line EXCEPT ![m] = <<t>>]
      BY <2>1, <2>2, <3>1 DEF IInv, TypeOK
    <3> QED BY <2>1, <3>1, <3>2, <3>3, <3>4 DEF Lock!Take
  <2>4. CASE /\ m_queue_tail[m] # m_queue_head[m]
             /\ my_ticket_number' = [my_ticket_number EXCEPT ![t] = m_queue_tail[m]]
             /\ at' = [at EXCEPT ![t] = "waiting"]
             /\ trying' = [trying EXCEPT ![t] = m]
             /\ UNCHANGED <<want, held>>
    <3>1. IInv' /\ \A i \in 1 .. Len(line[m]) : line[m][i] # t
      BY <2>1, <2>2, <2>4, QueueInv
    <3>2. line[m] # <<>>
      BY <2>1, <2>4, EqualMeansFree DEF IInv, TypeOK
    <3>3. Owners' = Owners
      BY <2>4 DEF Owners
    <3> QED BY <2>1, <2>2, <3>1, <3>2, <3>3 DEF Lock!Queue
  <2> QED BY <1>2, <2>3, <2>4 DEF lock
<1>3. ASSUME NEW t \in Threads, Wake(t)
      PROVE  IInv' /\ (UNCHANGED <<line, Owners>> \/ \E m \in Mutexes : Lock!Enter(t, m))
  <2> DEFINE m == trying[t]
  <2>1. CASE my_ticket_number[t] = m_queue_head[m] /\ Pass(t, m)
    <3>1. /\ IInv' /\ m \in Mutexes
          /\ Len(line[m]) > 0 /\ line[m][1] = t /\ m \notin held[t]
      BY <1>3, <2>1, PassInv DEF Wake
    <3>2. line[m] # <<>> /\ Head(line[m]) = t
      BY <3>1 DEF IInv, TypeOK
    <3>3. Owners[m] = {}
      BY <3>1 DEF Owners, IInv, OwnerFirst
    <3>4. Owners' = [Owners EXCEPT ![m] = {t}]
      BY <2>1, <3>1, <3>3, OwnersTaken DEF Pass, IInv
    <3>5. line' = line
      BY <1>3 DEF Wake
    <3> QED BY <3>1, <3>2, <3>3, <3>4, <3>5 DEF Lock!Enter
  <2>2. CASE /\ at' = [at EXCEPT ![t] = "waiting"]
             /\ UNCHANGED <<my_ticket_number, trying, want, held>>
    <3>1. at[t] = "woken" /\ UNCHANGED <<m_queue_head, m_queue_tail, line>>
      BY <1>3 DEF Wake
    <3>2. at' \in [Threads -> Places]
      BY <2>2 DEF IInv, TypeOK, Places
    <3>3. \A u \in Threads : AwaitsTurn(u) <=> at'[u] \in {"waiting", "woken"}
      BY <2>2, <3>1 DEF IInv, TypeOK, AwaitsTurn
    <3>4. \A u \in Threads : at'[u] = "idle" => held[u] = {}
      BY <2>2 DEF IInv, TypeOK, WantNotHeld
    <3>5. trying' \in [Threads -> Mutexes \cup {NoMutex}] /\ want' \in [Threads -> SUBSET Mutexes]
      BY <2>2 DEF IInv, TypeOK
    <3>6. IInv'
      BY <2>2, <3>1, <3>2, <3>3, <3>4, <3>5, MoveInv
    <3> QED BY <2>2, <3>1, <3>6 DEF Owners
  <2> QED BY <1>3, <2>1, <2>2 DEF Wake
<1>4. ASSUME NEW t \in Threads, SpuriousWakeup(t)
      PROVE  IInv' /\ UNCHANGED <<line, Owners>>
  <2>1. /\ at[t] = "waiting" /\ at' = [at EXCEPT ![t] = "woken"]
        /\ UNCHANGED <<m_queue_head, m_queue_tail, my_ticket_number, trying, want, held, line>>
    BY <1>4 DEF SpuriousWakeup
  <2>2. at' \in [Threads -> Places]
    BY <2>1 DEF IInv, TypeOK, Places
  <2>3. \A u \in Threads : AwaitsTurn(u) <=> at'[u] \in {"waiting", "woken"}
    BY <2>1 DEF IInv, TypeOK, AwaitsTurn
  <2>4. \A u \in Threads : at'[u] = "idle" => held[u] = {}
    BY <2>1 DEF IInv, TypeOK, WantNotHeld
  <2>5. trying' \in [Threads -> Mutexes \cup {NoMutex}] /\ want' \in [Threads -> SUBSET Mutexes]
    BY <2>1 DEF IInv, TypeOK
  <2>6. IInv'
    BY <2>1, <2>2, <2>3, <2>4, <2>5, MoveInv
  <2> QED BY <2>1, <2>6 DEF Owners
<1>5. ASSUME NEW t \in Threads, try_lock(t)
      PROVE  IInv' /\ (UNCHANGED <<line, Owners>> \/ \E m \in Mutexes : Lock!Take(t, m))
  <2> DEFINE m == FirstToLock(want[t])
  <2>1. /\ m \in Mutexes /\ m \in want[t] /\ at[t] = "running" /\ held[t] = {}
        /\ m_queue_head' = m_queue_head
    BY <1>5, FirstToLockType DEF try_lock, IInv, TypeOK
  <2>2. CASE /\ m_queue_head[m] = m_queue_tail[m]
             /\ m_queue_tail' = [m_queue_tail EXCEPT ![m] = Increment(@)]
             /\ line' = [line EXCEPT ![m] = Append(@, t)]
             /\ Pass(t, m)
    <3>1. IInv' /\ line[m] = <<>>
      BY <2>1, <2>2, TakeInv
    <3>2. Owners[m] = {}
      BY <2>1, <3>1 DEF Owners, IInv, OwnerFirst
    <3>3. Owners' = [Owners EXCEPT ![m] = {t}]
      BY <2>1, <2>2, <3>2, OwnersTaken DEF Pass, IInv
    <3>4. line' = [line EXCEPT ![m] = <<t>>]
      BY <2>1, <2>2, <3>1 DEF IInv, TypeOK
    <3> QED BY <2>1, <3>1, <3>2, <3>3, <3>4 DEF Lock!Take
  <2>3. CASE /\ at' = [at EXCEPT ![t] = "idle"]
             /\ want' = [want EXCEPT ![t] = {}]
             /\ UNCHANGED <<m_queue_tail, my_ticket_number, line, trying, held>>
    <3>1. /\ at' \in [Threads -> Places]
          /\ trying' \in [Threads -> Mutexes \cup {NoMutex}]
          /\ want' \in [Threads -> SUBSET Mutexes]
      BY <2>3 DEF IInv, TypeOK, Places
    <3>2. \A u \in Threads : /\ AwaitsTurn(u) <=> at'[u] \in {"waiting", "woken"}
                             /\ AwaitsTurn(u) => want'[u] = want[u]
                             /\ want'[u] \subseteq want[u]
                             /\ at'[u] = "idle" => held[u] = {}
      BY <2>1, <2>3 DEF IInv, TypeOK, AwaitsTurn, WantNotHeld
    <3>3. IInv'
      BY <2>1, <2>3, <3>1, <3>2, MoveInv
    <3> QED BY <2>3, <3>3 DEF Owners
  <2> QED BY <1>5, <2>2, <2>3 DEF try_lock
<1>6. ASSUME NEW t \in Threads, unlock(t)
      PROVE  IInv' /\ \E m \in Mutexes : Lock!Leave(t, m)
  <2> DEFINE m == FirstToUnlock(held[t])
  <2>1. m \in Mutexes /\ m \in held[t]
    BY <1>6, FirstToLockType DEF unlock, IInv, TypeOK
  <2>2. IInv' /\ Len(line[m]) > 0 /\ line[m][1] = t
    BY <1>6, <2>1, LeaveInv DEF unlock
  <2>3. Owners[m] = {t} /\ Owners' = [Owners EXCEPT ![m] = {}]
    BY <1>6, <2>1, OwnersLeft DEF unlock
  <2>4. line[m] # <<>> /\ line' = [line EXCEPT ![m] = Tail(@)]
    BY <1>6, <2>2 DEF unlock
  <2> QED BY <2>1, <2>2, <2>3, <2>4 DEF Lock!Leave
<1>7. ASSUME NEW t \in Threads, notify_all(t)
      PROVE  IInv' /\ UNCHANGED <<line, Owners>>
  <2>1. /\ at[t] = "notify"
        /\ at' = [u \in Threads |->
                    IF u = t THEN IF held[t] = {} THEN "idle" ELSE "running"
                    ELSE IF at[u] = "waiting" /\ trying[u] = trying[t] THEN "woken"
                    ELSE at[u]]
        /\ trying' = [trying EXCEPT ![t] = NoMutex]
        /\ UNCHANGED <<m_queue_head, m_queue_tail, my_ticket_number, want, held, line>>
    BY <1>7 DEF notify_all
  <2>2. at' \in [Threads -> Places] /\ trying' \in [Threads -> Mutexes \cup {NoMutex}]
    BY <2>1 DEF IInv, TypeOK, Places
  <2>3. \A u \in Threads : AwaitsTurn(u) <=> at'[u] \in {"waiting", "woken"}
    BY <2>1 DEF IInv, TypeOK, AwaitsTurn
  <2>4. \A u \in Threads : AwaitsTurn(u) => trying'[u] = trying[u]
    BY <2>1 DEF IInv, TypeOK, AwaitsTurn
  <2>5. \A u \in Threads : at'[u] = "idle" => held[u] = {}
    BY <2>1 DEF IInv, TypeOK, WantNotHeld
  <2>6. want' \in [Threads -> SUBSET Mutexes]
    BY <2>1 DEF IInv, TypeOK
  <2>7. IInv'
    BY <2>1, <2>2, <2>3, <2>4, <2>5, <2>6, MoveInv
  <2> QED BY <2>1, <2>7 DEF Owners
<1>8. CASE UNCHANGED mutexVars
  <2>1. UNCHANGED <<line, Owners>>
    BY <1>8 DEF mutexVars, Owners
  <2>2. IInv'
    BY <1>8 DEF mutexVars, IInv, TypeOK, OwnerFirst, LineDistinct, LineTickets,
                WaitersInLine, TailAhead, WantNotHeld, AwaitsTurn, Behind
  <2> QED BY <2>1, <2>2
<1>9. CASE Next
  <2>1. PICK t \in Threads : Begin(t) \/ Step(t) \/ try_lock(t) \/ SpuriousWakeup(t)
    BY <1>9 DEF Next
  <2> QED BY <2>1, <1>1, <1>2, <1>3, <1>4, <1>5, <1>6, <1>7 DEF Step, Lock!Next
<1> QED
  BY <1>8, <1>9

\* The ticket counters, places and lines keep their types, and the line of each
\* mutex mirrors its counters, whatever the threads do.
THEOREM TicketsInOrder == Spec => []IInv
<1>1. Init => IInv
  BY InitInv
<1>2. IInv /\ [Next]_mutexVars => IInv'
  BY StepInv
<1> QED
  BY <1>1, <1>2, PTL DEF Spec

\* No two threads hold a mutex at a time: lock() lets one ticket pass.
THEOREM TicketMutualExclusion == Spec => []MutualExclusion
<1>1. IInv => MutualExclusion
  BY DEF IInv, OwnerFirst, MutualExclusion
<1> QED
  BY <1>1, TicketsInOrder, PTL

\* The two ticket mutexes implement FairLock: one owner at a time, in the order
\* of the lock() calls.
THEOREM TicketMutexIsFair == Spec => LockImplemented
<1>1. Init => Lock!Init
  BY DEF Init, Lock!Init, Owners
<1>2. IInv /\ [Next]_mutexVars => [Lock!Next]_(Lock!lockVars)
  BY StepInv
<1> QED
  BY <1>1, <1>2, TicketsInOrder, PTL DEF Spec, Lock!Spec, LockImplemented

-----------------------------------------------------------------------------
(* The queues and the protected state                                      *)

CallSet == [object : Objects, kind : QueueMethods \cup StateMethods,
            target : SUBSET Values, timedOut : BOOLEAN]

Types ==
    /\ DOMAIN content = Queues
    /\ owner \in [Objects -> SUBSET Callers] /\ waiting \in [Objects -> SUBSET Callers]
    /\ tpc \in [Callers -> QueuePlaces] /\ call \in [Callers -> CallSet]

\* The methods of a call are the methods of its object, and only a call with a
\* time limit can run out of time.
Calls ==
    \A t \in Callers : /\ call[t].object = "state" <=> call[t].kind \in StateMethods
                       /\ call[t].timedOut => call[t].kind \in Timed

\* A condition variable lists the threads that sleep on it.
Listed ==
    \A t \in Callers, o \in Objects :
        t \in waiting[o] <=> tpc[t] = "sleep" /\ call[t].object = o

\* A thread inside a method owns the mutex.
Owned == \A t \in Callers : tpc[t] \in {"run", "access"} => owner[call[t].object] = {t}

\* Only the state's methods give access to it, and what a wait() saw still holds.
Truth ==
    \A t \in Callers : tpc[t] = "access" =>
        /\ call[t].object = "state"
        /\ call[t].kind = "wait" => call[t].target = {cell}

WaitInv == Types /\ Calls /\ Listed /\ Owned /\ Truth /\ NoLostWakeup

USE DEF Queues, Objects, QueueMethods, StateMethods, Timed, QueuePlaces

\* The invariant holds when the queues are built.
LEMMA InitWait == QueuesInit => WaitInv
<1> SUFFICES ASSUME QueuesInit PROVE WaitInv
  OBVIOUS
<1>1. NoCall \in CallSet
  BY DEF NoCall, CallSet
<1>2. Types
  BY <1>1 DEF QueuesInit, Types
<1>3. Calls /\ Listed /\ Owned /\ Truth /\ NoLostWakeup
  BY DEF QueuesInit, Calls, Listed, Owned, Truth, NoLostWakeup, NoCall
<1> QED BY <1>2, <1>3 DEF WaitInv

StepOf(t) ==
    \/ \E o \in Objects, k \in QueueMethods \cup StateMethods,
          v \in {{}} \cup {{w} : w \in Values} : Call(t, o, k, v)
    \/ Relock(t) \/ notify_waiting(t)
    \/ \E b \in Buffers : enqueue(t, b)
    \/ dequeue(t) \/ dequeueDefault(t) \/ dequeueWait(t)
    \/ \E over \in BOOLEAN : WakeUp(t, over)
    \/ access(t) \/ waitReturns(t) \/ waitOn(t) \/ release(t)

\* Types is kept by every step.
LEMMA TypesKept ==
    ASSUME Types, NEW s \in Callers, StepOf(s) PROVE Types'
<1>1. NoCall \in CallSet
  BY DEF NoCall, CallSet
<1>2. CASE \E o \in Objects, k \in QueueMethods \cup StateMethods,
              v \in {{}} \cup {{w} : w \in Values} : Call(s, o, k, v)
  <2> PICK o \in Objects, k \in QueueMethods \cup StateMethods,
           v \in {{}} \cup {{w} : w \in Values} : Call(s, o, k, v)
    BY <1>2
  <2>1. v \in SUBSET Values
    OBVIOUS
  <2>2. [object |-> o, kind |-> k, target |-> v, timedOut |-> FALSE] \in CallSet
    BY <2>1 DEF CallSet
  <2> QED BY <2>2 DEF Types, Call
<1>3. CASE Relock(s)
  BY <1>3 DEF Types, Relock
<1>4. CASE notify_waiting(s)
  BY <1>1, <1>4 DEF Types, notify_waiting
<1>5. CASE \E b \in Buffers : enqueue(s, b)
  BY <1>5 DEF Types, enqueue, Unlock, CallSet
<1>6. CASE dequeue(s) \/ dequeueDefault(s)
  BY <1>1, <1>6 DEF Types, dequeue, dequeueDefault, Unlock, Returned
<1>7. CASE dequeueWait(s) \/ waitOn(s)
  BY <1>7 DEF Types, dequeueWait, waitOn, Sleep, Unlock, CallSet
<1>8. CASE \E over \in BOOLEAN : WakeUp(s, over)
  <2> PICK over \in BOOLEAN : WakeUp(s, over)
    BY <1>8
  <2>1. [call[s] EXCEPT !.timedOut = over] \in CallSet
    BY DEF Types, CallSet
  <2> QED BY <2>1 DEF Types, WakeUp, CallSet
<1>9. CASE access(s) \/ waitReturns(s) \/ release(s)
  BY <1>9 DEF Types, access, waitReturns, release, Unlock, CallSet
<1> QED BY <1>2, <1>3, <1>4, <1>5, <1>6, <1>7, <1>8, <1>9 DEF StepOf

\* A call keeps its object and its method; only its time can run out.
LEMMA CallsKept ==
    ASSUME Types, Calls, NEW s \in Callers, StepOf(s) PROVE Calls'
<1>1. CASE \E o \in Objects, k \in QueueMethods \cup StateMethods,
              v \in {{}} \cup {{w} : w \in Values} : Call(s, o, k, v)
  BY <1>1 DEF Types, Calls, Call
<1>2. CASE notify_waiting(s) \/ dequeue(s) \/ dequeueDefault(s)
  BY <1>2 DEF Types, Calls, notify_waiting, dequeue, dequeueDefault, Returned, NoCall
<1>3. CASE \E over \in BOOLEAN : WakeUp(s, over)
  BY <1>3 DEF Types, Calls, WakeUp, CallSet
<1>4. ASSUME call' = call PROVE Calls'
  BY <1>4 DEF Calls
<1>5. CASE Relock(s) \/ (\E b \in Buffers : enqueue(s, b)) \/ dequeueWait(s)
           \/ access(s) \/ waitReturns(s) \/ waitOn(s) \/ release(s)
  BY <1>4, <1>5 DEF Relock, enqueue, dequeueWait, access, waitReturns, waitOn, release, Sleep
<1> QED BY <1>1, <1>2, <1>3, <1>5 DEF StepOf

\* A thread that starts or stops to sleep is put on, or taken off, the list of
\* its object.
LEMMA ListedKept ==
    ASSUME Types, Listed, NEW s \in Callers, StepOf(s) PROVE Listed'
<1>1. CASE \E o \in Objects, k \in QueueMethods \cup StateMethods,
              v \in {{}} \cup {{w} : w \in Values} : Call(s, o, k, v)
  BY <1>1 DEF Types, Listed, Call
<1>2. CASE notify_waiting(s)
  BY <1>2 DEF Types, Listed, notify_waiting, CallSet
<1>3. CASE dequeue(s) \/ dequeueDefault(s)
  BY <1>3 DEF Types, Listed, dequeue, dequeueDefault, Dequeues, Returned
<1>4. CASE \E over \in BOOLEAN : WakeUp(s, over)
  BY <1>4 DEF Types, Listed, WakeUp, CallSet
<1>5. CASE dequeueWait(s) \/ waitOn(s)
  BY <1>5 DEF Types, Listed, dequeueWait, waitOn, Dequeues, Waits, Sleep, CallSet
<1>6. CASE Relock(s) \/ (\E b \in Buffers : enqueue(s, b))
           \/ access(s) \/ waitReturns(s) \/ release(s)
  BY <1>6 DEF Types, Listed, Relock, enqueue, access, waitReturns, release, Waits
<1> QED BY <1>1, <1>2, <1>3, <1>4, <1>5, <1>6 DEF StepOf

\* Two threads are never inside methods of one object.
LEMMA Exclusive ==
    ASSUME Owned, NEW t \in Callers, NEW u \in Callers,
           tpc[t] \in {"run", "access"}, tpc[u] \in {"run", "access"},
           call[t].object = call[u].object
    PROVE  t = u
<1>1. owner[call[t].object] = {t} /\ owner[call[u].object] = {u}
  BY DEF Owned
<1>2. {t} = {u}
  BY <1>1
<1>3. t \in {u}
  BY <1>2
<1> QED BY <1>3

\* A thread that leaves a method gives up its own lock and no other.
LEMMA Left ==
    ASSUME Types, Owned, NEW s \in Callers, tpc[s] \in {"run", "access"},
           owner' = [owner EXCEPT ![call[s].object] = {}],
           tpc'[s] \notin {"run", "access"},
           \A t \in Callers \ {s} : tpc'[t] = tpc[t] /\ call'[t] = call[t]
    PROVE  Owned'
<1> SUFFICES ASSUME NEW t \in Callers, tpc'[t] \in {"run", "access"}
             PROVE  owner'[call'[t].object] = {t}
  BY DEF Owned
<1>1. t # s /\ tpc'[t] = tpc[t] /\ call'[t] = call[t]
  OBVIOUS
<1>2. call[t].object # call[s].object
  BY <1>1, Exclusive
<1>3. call[t].object \in Objects
  BY DEF Types, CallSet
<1> QED BY <1>1, <1>2, <1>3 DEF Types, Owned

\* A thread that enters a method takes a lock that is free.
LEMMA Entered ==
    ASSUME Types, Owned, NEW s \in Callers, NEW o \in Objects, owner[o] = {},
           owner' = [owner EXCEPT ![o] = {s}], call'[s].object = o,
           \A t \in Callers \ {s} : tpc'[t] = tpc[t] /\ call'[t] = call[t]
    PROVE  Owned'
<1> SUFFICES ASSUME NEW t \in Callers, tpc'[t] \in {"run", "access"}
             PROVE  owner'[call'[t].object] = {t}
  BY DEF Owned
<1>1. CASE t = s
  BY <1>1 DEF Types
<1>2. CASE t # s
  <2>1. tpc'[t] = tpc[t] /\ call'[t] = call[t] /\ call[t].object \in Objects
    BY <1>2 DEF Types, CallSet
  <2>2. owner[call[t].object] = {t}
    BY <2>1 DEF Owned
  <2>3. call[t].object # o
    <3>1. t \in owner[call[t].object]
      BY <2>2
    <3> QED BY <3>1
  <2> QED BY <2>1, <2>2, <2>3 DEF Types
<1> QED BY <1>1, <1>2

\* The mutex is taken when it is free and given up by its owner.
LEMMA OwnedKept ==
    ASSUME Types, Listed, Owned, NEW s \in Callers, StepOf(s) PROVE Owned'
<1>1. CASE \E o \in Objects, k \in QueueMethods \cup StateMethods,
              v \in {{}} \cup {{w} : w \in Values} : Call(s, o, k, v)
  <2> PICK o \in Objects, k \in QueueMethods \cup StateMethods,
           v \in {{}} \cup {{w} : w \in Values} : Call(s, o, k, v)
    BY <1>1
  <2>1. /\ owner[o] = {} /\ owner' = [owner EXCEPT ![o] = {s}] /\ call'[s].object = o
        /\ \A t \in Callers \ {s} : tpc'[t] = tpc[t] /\ call'[t] = call[t]
    BY DEF Types, Call
  <2> QED BY <2>1, Entered
<1>2. CASE notify_waiting(s)
  BY <1>2 DEF Types, Owned, Listed, notify_waiting, CallSet
<1>3. CASE dequeue(s) \/ dequeueDefault(s)
  <2>1. tpc[s] = "run" /\ owner' = [owner EXCEPT ![call[s].object] = {}] /\ Returned(s)
    BY <1>3 DEF dequeue, dequeueDefault, Dequeues, Unlock
  <2> QED BY <2>1, Left DEF Types, Returned, CallSet
<1>4. CASE \E over \in BOOLEAN : WakeUp(s, over)
  BY <1>4 DEF Types, Owned, WakeUp, CallSet
<1>5. CASE dequeueWait(s) \/ waitOn(s)
  <2>1. /\ tpc[s] = "run" /\ owner' = [owner EXCEPT ![call[s].object] = {}]
        /\ tpc' = [tpc EXCEPT ![s] = "sleep"] /\ call' = call
    BY <1>5 DEF dequeueWait, waitOn, Dequeues, Waits, Sleep, Unlock
  <2> QED BY <2>1, Left DEF Types, CallSet
<1>6. CASE Relock(s)
  <2>1. /\ owner[call[s].object] = {} /\ owner' = [owner EXCEPT ![call[s].object] = {s}]
        /\ call'[s].object = call[s].object /\ call[s].object \in Objects
        /\ \A t \in Callers \ {s} : tpc'[t] = tpc[t] /\ call'[t] = call[t]
    BY <1>6 DEF Types, Relock, CallSet
  <2> QED BY <2>1, Entered
<1>7. CASE access(s) \/ waitReturns(s)
  BY <1>7 DEF Types, Owned, access, waitReturns, Waits
<1>8. CASE (\E b \in Buffers : enqueue(s, b)) \/ release(s)
  <2>1. /\ tpc[s] \in {"run", "access"} /\ owner' = [owner EXCEPT ![call[s].object] = {}]
        /\ tpc' = [tpc EXCEPT ![s] = "notify"] /\ call' = call
    BY <1>8 DEF enqueue, release, Unlock
  <2> QED BY <2>1, Left DEF Types, CallSet
<1> QED BY <1>1, <1>2, <1>3, <1>4, <1>5, <1>6, <1>7, <1>8 DEF StepOf

\* The state changes only in the hands of the mutex's owner.
LEMMA TruthKept ==
    ASSUME Types, Calls, Listed, Owned, Truth, NEW s \in Callers, StepOf(s)
    PROVE  Truth'
<1>1. CASE \E o \in Objects, k \in QueueMethods \cup StateMethods,
              v \in {{}} \cup {{w} : w \in Values} : Call(s, o, k, v)
  BY <1>1 DEF Types, Truth, Call
<1>2. CASE notify_waiting(s)
  BY <1>2 DEF Types, Truth, Listed, notify_waiting
<1>3. CASE dequeue(s) \/ dequeueDefault(s)
  BY <1>3 DEF Types, Truth, dequeue, dequeueDefault, Returned
<1>4. CASE \E over \in BOOLEAN : WakeUp(s, over)
  BY <1>4 DEF Types, Truth, WakeUp
<1>5. CASE dequeueWait(s) \/ waitOn(s) \/ Relock(s) \/ (\E b \in Buffers : enqueue(s, b)) \/ release(s)
  BY <1>5 DEF Types, Truth, dequeueWait, waitOn, Sleep, Relock, enqueue, release
<1>6. CASE access(s)
  <2>1. \A t \in Callers : tpc[t] = "access" => FALSE
    BY <1>6, Exclusive DEF Calls, Truth, access
  <2> QED BY <1>6, <2>1 DEF Types, Calls, Truth, access
<1>7. CASE waitReturns(s)
  BY <1>7 DEF Types, Calls, Truth, waitReturns, Waits
<1> QED BY <1>1, <1>2, <1>3, <1>4, <1>5, <1>6, <1>7 DEF StepOf

\* Whoever makes a condition true notifies; whoever sleeps found it false under
\* the lock, so that one of the two sees the other.
LEMMA WakeupKept ==
    ASSUME Types, Calls, Listed, Owned, NoLostWakeup, NEW s \in Callers, StepOf(s)
    PROVE  NoLostWakeup'
<1>1. CASE \E o \in Objects, k \in QueueMethods \cup StateMethods,
              v \in {{}} \cup {{w} : w \in Values} : Call(s, o, k, v)
  BY <1>1 DEF Types, NoLostWakeup, Fulfilled, Call
<1>2. CASE notify_waiting(s)
  BY <1>2 DEF Types, Listed, NoLostWakeup, Fulfilled, notify_waiting, CallSet
<1>3. CASE dequeue(s) \/ dequeueDefault(s)
  BY <1>3 DEF Types, NoLostWakeup, Fulfilled, dequeue, dequeueDefault, Dequeues, Returned, CallSet
<1>4. CASE \E over \in BOOLEAN : WakeUp(s, over)
  BY <1>4 DEF Types, NoLostWakeup, Fulfilled, WakeUp, CallSet
<1>5. CASE dequeueWait(s)
  BY <1>5 DEF Types, Calls, NoLostWakeup, Fulfilled, dequeueWait, Dequeues, Sleep
<1>6. CASE waitOn(s)
  BY <1>6 DEF Types, Calls, NoLostWakeup, Fulfilled, waitOn, Waits, Sleep
<1>7. CASE Relock(s)
  BY <1>7 DEF Types, NoLostWakeup, Fulfilled, Relock
<1>8. CASE \E b \in Buffers : enqueue(s, b)
  BY <1>8 DEF Types, NoLostWakeup, Fulfilled, enqueue, CallSet
<1>9. CASE access(s)
  BY <1>9 DEF Types, Calls, NoLostWakeup, Fulfilled, access
<1>10. CASE waitReturns(s) \/ release(s)
  BY <1>10 DEF Types, NoLostWakeup, Fulfilled, waitReturns, Waits, release
<1> QED BY <1>1, <1>2, <1>3, <1>4, <1>5, <1>6, <1>7, <1>8, <1>9, <1>10 DEF StepOf

\* What the queues and the threads hold are buffers.
BufferTypes ==
    content \in [Queues -> Seq(Buffers)] /\ holds \in [Callers -> SUBSET Buffers]

\* A queue holds a buffer at most once, a buffer is in one queue or with one thread,
\* and no buffer is in neither place.
Distinct == \A q \in Queues : \A i, j \in 1 .. Len(content[q]) :
                content[q][i] = content[q][j] => i = j
InQueue(q, b) == \E i \in 1 .. Len(content[q]) : content[q][i] = b
Placed ==
    /\ \A b \in Buffers : /\ ~ (InQueue("empty", b) /\ InQueue("filled", b))
                          /\ \A t \in Callers : b \in holds[t] => \A q \in Queues : ~InQueue(q, b)
    /\ \A t, u \in Callers : \A b \in holds[t] \cap holds[u] : t = u
    /\ \A b \in Buffers : (\E q \in Queues : InQueue(q, b)) \/ (\E t \in Callers : b \in holds[t])
PlaceInv == BufferTypes /\ Distinct /\ Placed

\* All buffers start in the queue of empty buffers.
LEMMA InitPlaces == QueuesInit => PlaceInv
<1> SUFFICES ASSUME QueuesInit PROVE PlaceInv
  OBVIOUS
<1>1. /\ content["empty"] = m_bufferStorage /\ content["filled"] = <<>>
      /\ holds = [t \in Callers |-> {}] /\ DOMAIN content = Queues
  BY DEF QueuesInit
<1>2. /\ m_bufferStorage \in Seq(Buffers) /\ Len(m_bufferStorage) = BufferCount
      /\ \A b \in Buffers : m_bufferStorage[b] = b
  BY BufferAssumption DEF m_bufferStorage, Buffers
<1>3. BufferTypes
  BY <1>1, <1>2 DEF BufferTypes, QueuesInit
<1>4. Distinct
  BY <1>1, <1>2 DEF Distinct, Buffers
<1>5. \A b \in Buffers : InQueue("empty", b) /\ ~InQueue("filled", b)
  BY <1>1, <1>2 DEF InQueue, Buffers
<1> QED BY <1>1, <1>3, <1>4, <1>5 DEF PlaceInv, Placed

\* A thread puts a buffer it holds behind those of a queue.
LEMMA PutKept ==
    ASSUME PlaceInv, NEW s \in Callers, NEW q \in Queues, NEW b \in holds[s],
           content' = [content EXCEPT ![q] = Append(@, b)],
           holds' = [holds EXCEPT ![s] = @ \ {b}]
    PROVE  PlaceInv'
<1>1. b \in Buffers /\ content[q] \in Seq(Buffers)
  BY DEF PlaceInv, BufferTypes
<1>2. BufferTypes'
  BY <1>1 DEF PlaceInv, BufferTypes
<1>3. /\ Len(content'[q]) = Len(content[q]) + 1 /\ content'[q][Len(content[q]) + 1] = b
      /\ \A i \in 1 .. Len(content[q]) : content'[q][i] = content[q][i]
      /\ \A p \in Queues \ {q} : content'[p] = content[p]
      /\ Len(content[q]) \in Nat
  BY <1>1 DEF PlaceInv, BufferTypes
<1>4. \A p \in Queues : ~InQueue(p, b)
  BY <1>1 DEF PlaceInv, Placed
<1>5. \A p \in Queues, c \in Buffers : InQueue(p, c)' <=> InQueue(p, c) \/ (p = q /\ c = b)
  <2> SUFFICES ASSUME NEW p \in Queues, NEW c \in Buffers
               PROVE  InQueue(p, c)' <=> InQueue(p, c) \/ (p = q /\ c = b)
    OBVIOUS
  <2>1. CASE p # q
    BY <1>3, <2>1 DEF InQueue
  <2>2. CASE p = q
    <3>1. InQueue(q, c) => InQueue(q, c)'
      BY <1>3 DEF InQueue
    <3>2. c = b => InQueue(q, c)'
      BY <1>3 DEF InQueue
    <3>3. InQueue(q, c)' => InQueue(q, c) \/ c = b
      BY <1>3 DEF InQueue
    <3> QED BY <2>2, <3>1, <3>2, <3>3
  <2> QED BY <2>1, <2>2
<1>6. Distinct'
  <2> SUFFICES ASSUME NEW p \in Queues, NEW i \in 1 .. Len(content'[p]), NEW j \in 1 .. Len(content'[p]),
                      content'[p][i] = content'[p][j]
               PROVE  i = j
    BY DEF Distinct
  <2>1. CASE p # q
    BY <1>3, <2>1 DEF PlaceInv, Distinct
  <2>2. CASE p = q
    <3>1. \A k \in 1 .. Len(content[q]) : content[q][k] # b
      BY <1>4 DEF InQueue
    <3> QED BY <1>3, <2>2, <3>1 DEF PlaceInv, Distinct
  <2> QED BY <2>1, <2>2
<1>7. \A t \in Callers, c \in Buffers : c \in holds'[t] <=> c \in holds[t] /\ (t = s => c # b)
  BY DEF PlaceInv, BufferTypes
<1>8. \A t \in Callers : b \in holds[t] => t = s
  BY DEF PlaceInv, Placed
<1>9. Placed'
  <2>1. /\ \A c \in Buffers : /\ ~ (InQueue("empty", c) /\ InQueue("filled", c))'
                              /\ \A t \in Callers : c \in holds'[t] => \A p \in Queues : ~InQueue(p, c)'
    BY <1>1, <1>4, <1>5, <1>7, <1>8 DEF PlaceInv, Placed
  <2>2. \A t, u \in Callers : \A c \in holds'[t] \cap holds'[u] : t = u
    BY <1>2, <1>7 DEF PlaceInv, Placed, BufferTypes
  <2>3. \A c \in Buffers : (\E p \in Queues : InQueue(p, c)') \/ (\E t \in Callers : c \in holds'[t])
    BY <1>5, <1>7 DEF PlaceInv, Placed
  <2> QED BY <2>1, <2>2, <2>3 DEF Placed
<1> QED BY <1>2, <1>6, <1>9 DEF PlaceInv

\* A thread takes the first buffer of a queue.
LEMMA TakeKept ==
    ASSUME PlaceInv, NEW s \in Callers, NEW q \in Queues, content[q] # <<>>,
           content' = [content EXCEPT ![q] = Tail(@)],
           holds' = [holds EXCEPT ![s] = @ \cup {Head(content[q])}]
    PROVE  PlaceInv'
<1> DEFINE b == Head(content[q])
<1>1. /\ content[q] \in Seq(Buffers) /\ b \in Buffers /\ b = content[q][1]
      /\ Len(content[q]) \in Nat /\ Len(content[q]) > 0
  BY DEF PlaceInv, BufferTypes
<1>2. BufferTypes'
  BY <1>1 DEF PlaceInv, BufferTypes
<1>3. /\ Len(content'[q]) = Len(content[q]) - 1
      /\ \A i \in 1 .. Len(content[q]) - 1 : content'[q][i] = content[q][i + 1]
      /\ \A p \in Queues \ {q} : content'[p] = content[p]
  BY <1>1 DEF PlaceInv, BufferTypes
<1> HIDE DEF b
<1>4. InQueue(q, b) /\ \A i \in 2 .. Len(content[q]) : content[q][i] # b
  BY <1>1 DEF PlaceInv, Distinct, InQueue
<1>5. \A p \in Queues, c \in Buffers : InQueue(p, c)' <=> InQueue(p, c) /\ (p = q => c # b)
  <2> SUFFICES ASSUME NEW p \in Queues, NEW c \in Buffers
               PROVE  InQueue(p, c)' <=> InQueue(p, c) /\ (p = q => c # b)
    OBVIOUS
  <2>1. CASE p # q
    BY <1>3, <2>1 DEF InQueue
  <2>2. CASE p = q
    <3>1. InQueue(q, c)' => InQueue(q, c)
      BY <1>1, <1>3 DEF InQueue
    <3>2. InQueue(q, c)' => c # b
      <4> SUFFICES ASSUME NEW i \in 1 .. Len(content'[q]), content'[q][i] = b PROVE FALSE
        BY DEF InQueue
      <4>1. i + 1 \in 2 .. Len(content[q]) /\ content[q][i + 1] = b
        BY <1>1, <1>3
      <4> QED BY <4>1, <1>4
    <3>3. InQueue(q, c) /\ c # b => InQueue(q, c)'
      <4> SUFFICES ASSUME NEW i \in 1 .. Len(content[q]), content[q][i] = c, c # b PROVE InQueue(q, c)'
        BY DEF InQueue
      <4>1. i - 1 \in 1 .. Len(content'[q]) /\ content'[q][i - 1] = c
        BY <1>1, <1>3
      <4> QED BY <4>1 DEF InQueue
    <3> QED BY <2>2, <3>1, <3>2, <3>3
  <2> QED BY <2>1, <2>2
<1>6. Distinct'
  <2> SUFFICES ASSUME NEW p \in Queues, NEW i \in 1 .. Len(content'[p]), NEW j \in 1 .. Len(content'[p]),
                      content'[p][i] = content'[p][j]
               PROVE  i = j
    BY DEF Distinct
  <2>1. CASE p # q
    BY <1>3, <2>1 DEF PlaceInv, Distinct
  <2>2. CASE p = q
    <3>1. /\ i + 1 \in 1 .. Len(content[q]) /\ j + 1 \in 1 .. Len(content[q])
          /\ content[q][i + 1] = content[q][j + 1] /\ i \in Int /\ j \in Int
      BY <1>1, <1>3, <2>2
    <3>2. i + 1 = j + 1
      BY <3>1 DEF PlaceInv, Distinct
    <3> QED BY <3>1, <3>2
  <2> QED BY <2>1, <2>2
<1>7. \A t \in Callers, c \in Buffers : c \in holds'[t] <=> c \in holds[t] \/ (t = s /\ c = b)
  BY <1>1 DEF PlaceInv, BufferTypes, b
<1>8. \A t \in Callers : b \notin holds[t]
  BY <1>1, <1>4 DEF PlaceInv, Placed
<1>9. Placed'
  <2>1. /\ \A c \in Buffers : /\ ~ (InQueue("empty", c) /\ InQueue("filled", c))'
                              /\ \A t \in Callers : c \in holds'[t] => \A p \in Queues : ~InQueue(p, c)'
    BY <1>1, <1>4, <1>5, <1>7, <1>8 DEF PlaceInv, Placed
  <2>2. \A t, u \in Callers : \A c \in holds'[t] \cap holds'[u] : t = u
    BY <1>2, <1>7, <1>8 DEF PlaceInv, Placed, BufferTypes
  <2>3. \A c \in Buffers : (\E p \in Queues : InQueue(p, c)') \/ (\E t \in Callers : c \in holds'[t])
    BY <1>5, <1>7 DEF PlaceInv, Placed
  <2> QED BY <2>1, <2>2, <2>3 DEF Placed
<1> QED BY <1>2, <1>6, <1>9 DEF PlaceInv

\* Only enqueue() and a dequeue that finds a buffer move one.
LEMMA PlacesKept ==
    ASSUME Types, Calls, PlaceInv, NEW s \in Callers, StepOf(s) PROVE PlaceInv'
<1>1. CASE \E b \in Buffers : enqueue(s, b)
  <2> PICK b \in Buffers : enqueue(s, b)
    BY <1>1
  <2>1. call[s].object \in Queues
    BY DEF Types, Calls, CallSet, enqueue
  <2> QED BY <2>1, PutKept DEF enqueue
<1>2. CASE dequeue(s)
  <2>1. call[s].object \in Queues
    BY <1>2 DEF Types, Calls, CallSet, dequeue, Dequeues
  <2> QED BY <1>2, <2>1, TakeKept DEF dequeue
<1>3. ASSUME content' = content, holds' = holds PROVE PlaceInv'
  BY <1>3 DEF PlaceInv, BufferTypes, Distinct, Placed, InQueue
<1>4. CASE \/ \E o \in Objects, k \in QueueMethods \cup StateMethods,
                 v \in {{}} \cup {{w} : w \in Values} : Call(s, o, k, v)
           \/ \E over \in BOOLEAN : WakeUp(s, over)
  BY <1>3, <1>4 DEF Call, WakeUp
<1>5. CASE Relock(s) \/ notify_waiting(s) \/ dequeueDefault(s) \/ dequeueWait(s)
           \/ access(s) \/ waitReturns(s) \/ waitOn(s) \/ release(s)
  BY <1>3, <1>5 DEF Relock, notify_waiting, dequeueDefault, dequeueWait, access, waitReturns,
                    waitOn, release, Sleep
<1> QED BY <1>1, <1>2, <1>4, <1>5 DEF StepOf

\* The invariant is what OnePlace says of each buffer.
LEMMA PlacesOne == PlaceInv => OnePlace
<1> SUFFICES ASSUME PlaceInv, NEW b \in Buffers
             PROVE  LET Spots(q) == {i \in 1 .. Len(content[q]) : content[q][i] = b}
                    IN  \/ \E t \in Callers : /\ b \in holds[t]
                                              /\ \A u \in Callers \ {t} : b \notin holds[u]
                                              /\ \A q \in Queues : Spots(q) = {}
                        \/ \E q \in Queues : /\ \E i \in Spots(q) : Spots(q) = {i}
                                             /\ \A p \in Queues \ {q} : Spots(p) = {}
                                             /\ \A u \in Callers : b \notin holds[u]
  BY DEF OnePlace
<1> DEFINE Spots(q) == {i \in 1 .. Len(content[q]) : content[q][i] = b}
<1>1. CASE \E t \in Callers : b \in holds[t]
  <2> PICK t \in Callers : b \in holds[t]
    BY <1>1
  <2>1. \A q \in Queues : Spots(q) = {}
    BY DEF PlaceInv, Placed, InQueue
  <2>2. \A u \in Callers \ {t} : b \notin holds[u]
    BY DEF PlaceInv, Placed
  <2> QED BY <2>1, <2>2
<1>2. CASE \A t \in Callers : b \notin holds[t]
  <2>1. PICK q \in Queues : InQueue(q, b)
    BY <1>2 DEF PlaceInv, Placed
  <2>2. PICK i \in 1 .. Len(content[q]) : content[q][i] = b
    BY <2>1 DEF InQueue
  <2>3. Spots(q) = {i}
    BY <2>2 DEF PlaceInv, Distinct
  <2>4. \A p \in Queues \ {q} : Spots(p) = {}
    <3>1. \A p \in Queues \ {q} : ~InQueue(p, b)
      BY <2>1 DEF PlaceInv, Placed
    <3> QED BY <3>1 DEF InQueue
  <2>5. i \in Spots(q)
    BY <2>2
  <2> QED BY <1>2, <2>3, <2>4, <2>5
<1> QED BY <1>1, <1>2

LEMMA WaitKept == WaitInv /\ [QueuesNext]_queueVars => WaitInv'
<1> SUFFICES ASSUME WaitInv, [QueuesNext]_queueVars PROVE WaitInv'
  OBVIOUS
<1>1. CASE QueuesNext
  <2>1. PICK s \in Callers : StepOf(s)
    BY <1>1 DEF QueuesNext, StepOf
  <2> QED BY <2>1, TypesKept, CallsKept, ListedKept, OwnedKept, TruthKept, WakeupKept DEF WaitInv
<1>2. CASE UNCHANGED queueVars
  BY <1>2 DEF queueVars, WaitInv, Types, Calls, Listed, Owned, Truth, NoLostWakeup, Fulfilled
<1> QED BY <1>1, <1>2

\* ThreadSafeQueue and WaitableProtected lose no wake up, with any number of
\* threads that use them, though both notify after the unlock.
THEOREM NoWakeupIsLost == QueuesSpec => []NoLostWakeup
<1>1. WaitInv => NoLostWakeup
  BY DEF WaitInv
<1> QED BY <1>1, InitWait, WaitKept, PTL DEF QueuesSpec

\* WaitableProtected::wait() returns with its predicate true and nobody changes
\* the state before the access it returns is destroyed.
THEOREM WaitsTellTheTruth == QueuesSpec => []WaitTruth
<1>1. WaitInv => WaitTruth
  BY DEF WaitInv, Types, Owned, Truth, WaitTruth
<1> QED BY <1>1, InitWait, WaitKept, PTL DEF QueuesSpec

\* The buffers of a readout are each in one queue, once, or with one thread.
LEMMA PlacesStep == WaitInv /\ PlaceInv /\ [QueuesNext]_queueVars => PlaceInv'
<1> SUFFICES ASSUME WaitInv, PlaceInv, [QueuesNext]_queueVars PROVE PlaceInv'
  OBVIOUS
<1>1. CASE QueuesNext
  <2>1. PICK s \in Callers : StepOf(s)
    BY <1>1 DEF QueuesNext, StepOf
  <2> QED BY <2>1, PlacesKept DEF WaitInv
<1>2. CASE UNCHANGED queueVars
  BY <1>2 DEF queueVars, PlaceInv, BufferTypes, Distinct, Placed, InQueue
<1> QED BY <1>1, <1>2

-----------------------------------------------------------------------------
(* Stack errors                                                            *)

\* The words for the errors a listing names, with their counts in c
Words(listing, c) ==
    [i \in DOMAIN listing |-> stack_error_info_to_sysevent_data(listing[i], c[listing[i]])]

\* Once the plugin runs, there is no section and it remembers the counters it started
\* with, or the section lists, once and in some order, the errors counted in
\* prevCounters. The counters are those if nothing was counted since the comparison.
Recorded ==
    \/ section = <<>> /\ prevCounters = initialCounters
    \/ \E D \in SUBSET Int : \E listing \in Bijection(D, {e \in Errors : prevCounters[e] # 0}) :
         section = Words(listing, prevCounters)
ErrorInv ==
    /\ counters \in [Errors -> Nat] /\ prevCounters \in [Errors -> Nat]
    /\ run = "reset" => section = <<>> /\ ~checked
    /\ run = "running" => Recorded
    /\ run = "running" /\ checked => counters = prevCounters

LEMMA InitErrors == ErrorsInit => ErrorInv
BY DEF ErrorsInit, ErrorInv, NoErrors

\* The plugin writes a section with the counters it remembers, and a new run
\* forgets both.
LEMMA ErrorsKept == ErrorInv /\ [ErrorsNext]_errorVars => ErrorInv'
<1> SUFFICES ASSUME ErrorInv, [ErrorsNext]_errorVars PROVE ErrorInv'
  OBVIOUS
<1>1. CASE Notification
  <2>1. /\ checked' = FALSE /\ prevCounters' = prevCounters /\ section' = section
        /\ initialCounters' = initialCounters /\ run' = run
    BY <1>1 DEF Notification
  <2>2. Recorded' <=> Recorded
    BY <2>1 DEF Recorded, Words
  <2>3. PICK words \in {1, 2}, s \in StackIds, l \in LineNumbers, f \in Flags :
           update_stack_error_counters(words, s, l, f)
    BY <1>1 DEF Notification
  <2>4. counters' \in [Errors -> Nat]
    BY <2>3 DEF ErrorInv, update_stack_error_counters
  <2> QED BY <2>1, <2>2, <2>4 DEF ErrorInv
<1>2. CASE resetStackErrorCounters
  BY <1>2 DEF resetStackErrorCounters, ErrorInv, NoErrors
<1>3. CASE readoutStart
  BY <1>3 DEF readoutStart, ErrorInv, Recorded
<1>4. CASE Check
  <2>1. /\ counters' = counters /\ prevCounters' = counters /\ run = "running" /\ run' = run
        /\ initialCounters' = initialCounters
    BY <1>4 DEF Check
  <2>2. CASE counters = prevCounters
    <3>1. section' = section /\ prevCounters' = prevCounters
      BY <1>4, <2>2 DEF Check
    <3>2. Recorded
      BY <2>1 DEF ErrorInv
    <3>3. Recorded' <=> Recorded
      BY <2>1, <3>1 DEF Recorded, Words
    <3> QED BY <2>1, <3>1, <3>2, <3>3 DEF ErrorInv
  <2>3. CASE counters # prevCounters
    <3>1. PICK listing \in Listings : section' = stack_errors_to_sysevent_data(listing)
      BY <1>4, <2>3 DEF Check
    <3> DEFINE seen == {e \in Errors : counters[e] # 0}
    <3>2. listing \in Bijection(1 .. Cardinality(seen), seen)
      BY <3>1 DEF Listings
    <3>3. 1 .. Cardinality(seen) \in SUBSET Int
      OBVIOUS
    <3>4. section' = Words(listing, counters)
      BY <3>1 DEF Words, stack_errors_to_sysevent_data
    <3>5. Recorded'
      BY <2>1, <3>2, <3>3, <3>4 DEF Recorded, Words
    <3> QED BY <2>1, <3>5 DEF ErrorInv
  <2> QED BY <2>2, <2>3
<1>5. CASE readoutStop
  BY <1>5 DEF readoutStop, ErrorInv
<1>6. CASE UNCHANGED errorVars
  BY <1>6 DEF errorVars, ErrorInv, Recorded, Words
<1> QED BY <1>1, <1>2, <1>3, <1>4, <1>5, <1>6 DEF ErrorsNext

\* decode_stack_errors_sysevent_data() finds the word of an error whose line no
\* other error shares, and finds none if it was not counted.
LEMMA ErrorsDecoded == ErrorInv => ErrorsRecorded
<1> SUFFICES ASSUME ErrorInv, run = "running", checked,
                    ~(counters = initialCounters /\ section = <<>>),
                    NEW e \in Errors, Distinguishable(e), e.line < LineMod
             PROVE  decode_stack_errors_sysevent_data(section)[e] = Saturated(counters[e])
  BY DEF ErrorsRecorded
<1> DEFINE hits == {i \in DOMAIN section : /\ section[i].stack = e.stack
                                           /\ section[i].flags = e.flags
                                           /\ section[i].line = e.line}
<1>1. counters = prevCounters /\ counters[e] \in Nat
  BY DEF ErrorInv
<1>2. decode_stack_errors_sysevent_data(section)[e]
        = IF hits = {} THEN 0 ELSE section[CHOOSE i \in hits : \A j \in hits : j <= i].count
  BY DEF decode_stack_errors_sysevent_data
<1>3. ~(section = <<>> /\ prevCounters = initialCounters)
  BY <1>1
<1>4. CASE \E D \in SUBSET Int : \E listing \in Bijection(D, {d \in Errors : prevCounters[d] # 0}) :
             section = Words(listing, prevCounters)
  <2> PICK D \in SUBSET Int :
         \E listing \in Bijection(D, {d \in Errors : prevCounters[d] # 0}) :
            section = Words(listing, prevCounters)
    BY <1>4
  <2> PICK listing \in Bijection(D, {d \in Errors : prevCounters[d] # 0}) :
         section = Words(listing, prevCounters)
    OBVIOUS
  <2>1. /\ DOMAIN listing = D /\ DOMAIN section = D
        /\ \A i \in D : /\ listing[i] \in Errors /\ counters[listing[i]] # 0
                        /\ section[i] = stack_error_info_to_sysevent_data(listing[i], counters[listing[i]])
    BY <1>1 DEF Bijection, Injection, Words
  <2>2. \A i, j \in D : listing[i] = listing[j] => i = j
    BY <2>1 DEF Bijection, Injection, IsInjective
  <2>3. counters[e] # 0 => \E i \in D : listing[i] = e
    BY <1>1 DEF Bijection, Surjection
  <2>4. e.line \in Nat /\ e.line % LineMod = e.line
    <3>1. e.line \in Nat
      BY ErrorAssumption DEF Errors
    <3>2. \A a, m \in Nat : a < m => a % m = a
      OBVIOUS
    <3> QED BY <3>1, <3>2, ErrorAssumption
  <2>5. \A i \in D : i \in hits => listing[i] = e
    <3> SUFFICES ASSUME NEW i \in D, i \in hits, listing[i] # e PROVE FALSE
      OBVIOUS
    <3>1. /\ listing[i].stack = e.stack /\ listing[i].flags = e.flags
          /\ listing[i].line % LineMod = e.line
      BY <2>1 DEF stack_error_info_to_sysevent_data
    <3> QED BY <2>1, <2>4, <3>1 DEF Distinguishable
  <2>6. \A i \in D : listing[i] = e => i \in hits
    BY <2>1, <2>4 DEF stack_error_info_to_sysevent_data
  <2>7. CASE counters[e] = 0
    <3>1. hits = {}
      BY <2>1, <2>5, <2>7
    <3> QED BY <1>2, <2>7, <3>1, ErrorAssumption DEF Saturated
  <2>8. CASE counters[e] # 0
    <3>1. PICK k \in D : listing[k] = e
      BY <2>3, <2>8
    <3>2. hits = {k}
      BY <2>1, <2>2, <2>5, <2>6, <3>1
    <3>3. k <= k
      <4>1. k \in Int
        BY <3>1
      <4> QED BY ONLY <4>1
    <3>4. (CHOOSE i \in hits : \A j \in hits : j <= i) = k
      BY <3>2, <3>3
    <3>5. section[k].count = Saturated(counters[e])
      BY <2>1, <3>1 DEF stack_error_info_to_sysevent_data, Saturated
    <3> HIDE DEF hits
    <3> QED BY <1>2, <3>2, <3>4, <3>5
  <2> QED BY <2>7, <2>8
<1> QED BY <1>3, <1>4 DEF ErrorInv, Recorded

-----------------------------------------------------------------------------

\* What the threads of a readout share is true in every behaviour of the locks, of
\* the queues or of the error counters: tickets have the width of their counter,
\* no buffer of ReadoutBufferQueues is lost or doubled, and what StackErrorsPlugin
\* wrote can be decoded to the counters, or it wrote nothing and the counters are
\* those it found when it started, whatever was counted since the worker reset them.
THEOREM SharedTheorem == ServicesSpec => []SharedStateTrue
<1> DEFINE SharedInv == IInv /\ WaitInv /\ PlaceInv /\ ErrorInv
<1>1. ServicesInit => SharedInv
  BY InitInv, InitWait, InitPlaces, InitErrors DEF ServicesInit
<1>2. SharedInv /\ [ServicesNext]_serviceVars => SharedInv'
  <2> SUFFICES ASSUME SharedInv, [ServicesNext]_serviceVars PROVE SharedInv'
    OBVIOUS
  <2>1. [Next]_mutexVars /\ [QueuesNext]_queueVars /\ [ErrorsNext]_errorVars
    BY DEF ServicesNext, Locking, Counting, Queueing, serviceVars
  <2> QED BY <2>1, StepInv, WaitKept, PlacesStep, ErrorsKept
<1>3. SharedInv => SharedStateTrue
  BY PlacesOne, ErrorsDecoded DEF SharedStateTrue, IInv
<1> QED BY <1>1, <1>2, <1>3, PTL DEF ServicesSpec
=============================================================================
