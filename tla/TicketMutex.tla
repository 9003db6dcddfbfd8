---------------------------- MODULE TicketMutex ----------------------------
(***************************************************************************)
(* The command and the data lock of an MVLC: two ticket mutexes            *)
(* (util/ticketmutex.h), taken by any number of threads with lockCmd(),    *)
(* lockData() and lockBoth() (mvlc_threading.h).                           *)
(*                                                                         *)
(* A ticket mutex is a std::mutex and a condition variable around two      *)
(* 16 bit counters.  What happens while m_mutex is held is one step; the   *)
(* notification of unlock() comes after m_mutex has been released.         *)
(***************************************************************************)
EXTENDS Integers, Sequences, FiniteSets

CONSTANTS
    Threads,        \* the threads that use the MVLC
    TicketMod       \* number of values of TicketType

Mutexes == {"cmd", "data"}
NoMutex == "none"

\* A ticket comes back only after TicketMod others, so that there must be
\* fewer threads than tickets.
ASSUME TicketAssumption ==
    /\ TicketMod \in Nat
    /\ IsFiniteSet(Threads)
    /\ Cardinality(Threads) < TicketMod

VARIABLES
    m_queue_head,       \* per mutex, the ticket that may pass
    m_queue_tail,       \* per mutex, the ticket to hand out next
    my_ticket_number,   \* per thread, the ticket of its lock() call
    at,                 \* per thread, where it is
    trying,             \* per thread, the mutex of its lock() or unlock() call
    want,               \* per thread, the mutexes it has yet to lock
    held,               \* per thread, the mutexes it has locked
    line                \* per mutex, who took tickets, in order: only the
                        \* specification looks at it

mutexVars == <<m_queue_head, m_queue_tail, my_ticket_number, at, trying, want,
               held, line>>

\* Mutant: the counters do not wrap.
MutIncrement(x) == x + 1

\* ++ on a TicketType
Increment(x) == IF x + 1 = TicketMod THEN 0 ELSE x + 1

Places == {"idle", "running", "waiting", "woken", "notify"}

Init ==
    /\ m_queue_head = [m \in Mutexes |-> 0]
    /\ m_queue_tail = [m \in Mutexes |-> 0]
    /\ my_ticket_number = [t \in Threads |-> 0]
    /\ at = [t \in Threads |-> "idle"]
    /\ trying = [t \in Threads |-> NoMutex]
    /\ want = [t \in Threads |-> {}]
    /\ held = [t \in Threads |-> {}]
    /\ line = [m \in Mutexes |-> <<>>]

\* Locks: lockBoth() locks the command mutex first; the destructor of the pair
\* of guards unlocks the data mutex first.
FirstToLock(s) == IF "cmd" \in s THEN "cmd" ELSE "data"
FirstToUnlock(s) == IF "data" \in s THEN "data" ELSE "cmd"

\* A thread calls lockCmd(), lockData() or lockBoth().
Begin(t) ==
    /\ at[t] = "idle"
    /\ at' = [at EXCEPT ![t] = "running"]
    /\ \E s \in {{"cmd"}, {"data"}, Mutexes} : want' = [want EXCEPT ![t] = s]
    /\ UNCHANGED <<m_queue_head, m_queue_tail, my_ticket_number, trying, held, line>>

\* The ticket of t has come up: lock() returns, and its ticket is forgotten.
Pass(t, m) ==
    /\ my_ticket_number' = [my_ticket_number EXCEPT ![t] = 0]
    /\ at' = [at EXCEPT ![t] = "running"]
    /\ trying' = [trying EXCEPT ![t] = NoMutex]
    /\ want' = [want EXCEPT ![t] = @ \ {m}]
    /\ held' = [held EXCEPT ![t] = @ \cup {m}]

\* lock(): draw a ticket and wait unless it may pass at once.
lock(t) ==
    LET m == FirstToLock(want[t]) IN
    /\ at[t] = "running"
    /\ want[t] # {}
    /\ m_queue_tail' = [m_queue_tail EXCEPT ![m] = Increment(@)]
    /\ line' = [line EXCEPT ![m] = Append(@, t)]
    /\ \/ m_queue_tail[m] = m_queue_head[m] /\ Pass(t, m)
       \/ /\ m_queue_tail[m] # m_queue_head[m]
          /\ my_ticket_number' = [my_ticket_number EXCEPT ![t] = m_queue_tail[m]]
          /\ at' = [at EXCEPT ![t] = "waiting"]
          /\ trying' = [trying EXCEPT ![t] = m]
          /\ UNCHANGED <<want, held>>
    /\ UNCHANGED m_queue_head

\* Mutant: a notified thread goes on without looking at its ticket again.
MutWake(t) ==
    /\ at[t] = "woken"
    /\ Pass(t, trying[t])
    /\ UNCHANGED <<m_queue_head, m_queue_tail, line>>

\* A thread in m_cond.wait() that was notified compares its ticket again.
Wake(t) ==
    LET m == trying[t] IN
    /\ at[t] = "woken"
    /\ \/ my_ticket_number[t] = m_queue_head[m] /\ Pass(t, m)
       \/ /\ my_ticket_number[t] # m_queue_head[m]
          /\ at' = [at EXCEPT ![t] = "waiting"]
          /\ UNCHANGED <<my_ticket_number, trying, want, held>>
    /\ UNCHANGED <<m_queue_head, m_queue_tail, line>>

\* wait() may return without a notification.
SpuriousWakeup(t) ==
    /\ at[t] = "waiting"
    /\ at' = [at EXCEPT ![t] = "woken"]
    /\ UNCHANGED <<m_queue_head, m_queue_tail, my_ticket_number, trying, want, held, line>>

\* Mutant: try_lock() draws a ticket and goes in, whoever is inside.
Muttry_lock(t) ==
    LET m == FirstToLock(want[t]) IN
    /\ at[t] = "running"
    /\ held[t] = {} /\ want[t] \in {{"cmd"}, {"data"}}
    /\ m_queue_tail' = [m_queue_tail EXCEPT ![m] = Increment(@)]
    /\ line' = [line EXCEPT ![m] = Append(@, t)]
    /\ Pass(t, m)
    /\ UNCHANGED m_queue_head

\* try_lock(): no waiting; it gives up when m_mutex is taken at that moment.
try_lock(t) ==
    LET m == FirstToLock(want[t]) IN
    /\ at[t] = "running"
    /\ held[t] = {} /\ want[t] \in {{"cmd"}, {"data"}}
    /\ \/ /\ m_queue_head[m] = m_queue_tail[m]
          /\ m_queue_tail' = [m_queue_tail EXCEPT ![m] = Increment(@)]
          /\ line' = [line EXCEPT ![m] = Append(@, t)]
          /\ Pass(t, m)
       \/ /\ at' = [at EXCEPT ![t] = "idle"]
          /\ want' = [want EXCEPT ![t] = {}]
          /\ UNCHANGED <<m_queue_tail, my_ticket_number, line, trying, held>>
    /\ UNCHANGED m_queue_head

\* unlock(), the part under m_mutex.
unlock(t) ==
    LET m == FirstToUnlock(held[t]) IN
    /\ at[t] = "running"
    /\ want[t] = {} /\ held[t] # {}
    /\ m_queue_head' = [m_queue_head EXCEPT ![m] = Increment(@)]
    /\ line' = [line EXCEPT ![m] = Tail(@)]
    /\ held' = [held EXCEPT ![t] = @ \ {m}]
    /\ trying' = [trying EXCEPT ![t] = m]
    /\ at' = [at EXCEPT ![t] = "notify"]
    /\ UNCHANGED <<m_queue_tail, my_ticket_number, want>>

\* Mutant: notify_one() instead of notify_all().
Mutnotify_all(t) ==
    LET asleep == {u \in Threads : at[u] = "waiting" /\ trying[u] = trying[t]} IN
    /\ at[t] = "notify"
    /\ \E one \in (IF asleep = {} THEN {t} ELSE asleep) :
         at' = [[at EXCEPT ![one] = "woken"] EXCEPT
                  ![t] = IF held[t] = {} THEN "idle" ELSE "running"]
    /\ trying' = [trying EXCEPT ![t] = NoMutex]
    /\ UNCHANGED <<m_queue_head, m_queue_tail, my_ticket_number, want, held, line>>

\* unlock(), m_cond.notify_all().
notify_all(t) ==
    /\ at[t] = "notify"
    /\ at' = [u \in Threads |->
                IF u = t THEN IF held[t] = {} THEN "idle" ELSE "running"
                ELSE IF at[u] = "waiting" /\ trying[u] = trying[t] THEN "woken"
                ELSE at[u]]
    /\ trying' = [trying EXCEPT ![t] = NoMutex]
    /\ UNCHANGED <<m_queue_head, m_queue_tail, my_ticket_number, want, held, line>>

Step(t) == lock(t) \/ Wake(t) \/ unlock(t) \/ notify_all(t)

Next == \E t \in Threads : Begin(t) \/ Step(t) \/ try_lock(t) \/ SpuriousWakeup(t)

Spec == Init /\ [][Next]_mutexVars

-----------------------------------------------------------------------------

TypeOK ==
    /\ m_queue_head \in [Mutexes -> 0 .. TicketMod - 1]
    /\ m_queue_tail \in [Mutexes -> 0 .. TicketMod - 1]
    /\ my_ticket_number \in [Threads -> 0 .. TicketMod - 1]
    /\ at \in [Threads -> Places]
    /\ trying \in [Threads -> Mutexes \cup {NoMutex}]
    /\ want \in [Threads -> SUBSET Mutexes]
    /\ held \in [Threads -> SUBSET Mutexes]
    /\ line \in [Mutexes -> Seq(Threads)]

\* No two threads are between lock() and unlock() of one mutex: the counters of
\* lock() and unlock() let one ticket pass at a time, also when they wrap.
MutualExclusion ==
    \A m \in Mutexes : \A t, u \in Threads :
        m \in held[t] /\ m \in held[u] => t = u

\* The threads that lock() has let through.
Owners == [m \in Mutexes |-> {t \in Threads : m \in held[t]}]

\* The two ticket mutexes are fair locks: one owner, in the order of asking.
Lock == INSTANCE FairLock WITH owners <- Owners
LockImplemented == Lock!Spec

\* Every lock() returns: whoever waits with a ticket is woken when its turn
\* comes, and the order of the two mutexes lets nobody wait in a circle.
LockReturns == \A t \in Threads : at[t] = "waiting" ~> at[t] = "running"
=============================================================================
