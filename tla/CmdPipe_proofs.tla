--------------------------- MODULE CmdPipe_proofs ---------------------------
(***************************************************************************)
(* TLAPS proofs about the command pipe: for every set of calls, number of  *)
(* attempts and amount of loss, delay and noise, the reader never holds a  *)
(* pending response of a call that is gone, the reader thread's life is    *)
(* that of the connection, and an answer reaches the call it belongs to.   *)
(***************************************************************************)
EXTENDS CmdPipe, SequenceTheorems, TLAPS

PendingType ==
    /\ pendingSuper \in Pendings /\ pendingStack \in Pendings
    /\ superRef \in Nat /\ nextSuperReference \in Nat
    /\ stackRef \in Nat /\ nextStackReference \in Nat

\* PendingOwned is inductive once it is known that the promise of a pending
\* response is still unset: a call that leaves because its future is ready
\* leaves nothing pending.
PendingInv ==
    /\ PendingType
    /\ PendingOwned
    /\ pendingSuper.pending => superFuture = "unset"
    /\ pendingStack.pending => stackFuture = "unset"

\* What an action may do to the state PendingInv is about.
pendingState == <<pc, superRef, stackRef, nextSuperReference, nextStackReference,
                  pendingSuper, pendingStack, superFuture, stackFuture>>

USE DEF PendingInv, PendingType, PendingOwned, SuperAlive, StackAlive, Pendings

\* Initially nothing is pending.
LEMMA PendingInit == Init => PendingInv
BY DEF Init, NoPending

\* After fullfill_pending_response() the super response is not pending.
LEMMA FullfillSuperClears ==
    ASSUME PendingInv, NEW code, NEW contents, FullfillSuper(code, contents)
    PROVE  /\ pendingSuper' \in Pendings
           /\ pendingSuper'.pending = FALSE
BY DEF FullfillSuper

\* After fullfill_pending_response() the stack response is not pending.
LEMMA FullfillStackClears ==
    ASSUME PendingInv, NEW code, NEW contents, FullfillStack(code, contents)
    PROVE  /\ pendingStack' \in Pendings
           /\ pendingStack'.pending = FALSE
BY DEF FullfillStack

\* The reference counter stays a natural number when it wraps around.
LEMMA NextReference == \A n \in Nat : (n + 1) % SuperRefMod \in Nat
BY RefModAssumption

\* Starting another super transaction with nothing pending.
LEMMA StartSuperKeeps ==
    ASSUME PendingInv, NEW c, StartSuper(c),
           pendingSuper.pending = FALSE, pendingStack.pending = FALSE,
           UNCHANGED <<pendingSuper, pendingStack>>,
           stackRef' \in Nat, nextStackReference' \in Nat
    PROVE  PendingInv'
BY NextReference DEF StartSuper

\* The same for the next part of a stack upload.
LEMMA UploadPartKeeps ==
    ASSUME PendingInv, NEW p, UploadPart(p),
           pendingSuper.pending = FALSE, pendingStack.pending = FALSE,
           UNCHANGED <<pendingSuper, pendingStack>>,
           stackRef' \in Nat, nextStackReference' \in Nat
    PROVE  PendingInv'
<1>1. CASE StartSuper("upload")
    BY <1>1, StartSuperKeeps
<1>2. CASE UNCHANGED superRef /\ nextSuperReference' = (nextSuperReference + 1) % SuperRefMod
    BY <1>2, NextReference
<1> QED BY <1>1, <1>2 DEF UploadPart

\* The reader thread only ever fulfils.
LEMMA ReaderKeeps == PendingInv /\ (Reader \/ Device \/ Environment) => PendingInv'
<1> SUFFICES ASSUME PendingInv, Reader \/ Device \/ Environment PROVE PendingInv'
    OBVIOUS
<1>1. CASE ReaderSuper \/ ReaderExitSuper
  <2>1. pendingSuper' \in Pendings /\ pendingSuper'.pending = FALSE
      BY <1>1, FullfillSuperClears DEF ReaderSuper, ReaderExitSuper
  <2>2. UNCHANGED <<pc, superRef, stackRef, nextSuperReference,
                    nextStackReference, pendingStack, stackFuture>>
      BY <1>1 DEF ReaderSuper, ReaderExitSuper, opVars, superVars
  <2> QED BY <2>1, <2>2
<1>2. CASE ReaderStack \/ ReaderExitStack
  <2>1. pendingStack' \in Pendings /\ pendingStack'.pending = FALSE
      BY <1>2, FullfillStackClears DEF ReaderStack, ReaderExitStack
  <2>2. UNCHANGED <<pc, superRef, stackRef, nextSuperReference,
                    nextStackReference, pendingSuper, superFuture>>
      BY <1>2 DEF ReaderStack, ReaderExitStack, opVars, superVars
  <2> QED BY <2>1, <2>2
<1>3. CASE ReaderSkipWord \/ ReaderStackError \/ ReaderRead \/ ReaderLeaveLoop
           \/ DeviceAnswer \/ ReaderReadError \/ LosePacket \/ DeviceNoise
  <2>1. UNCHANGED pendingState
      BY <1>3 DEF ReaderSkipWord, ReaderStackError, ReaderRead, ReaderLeaveLoop,
         DeviceAnswer, ReaderReadError, LosePacket, DeviceNoise, opVars,
         superVars, pendingVars, pendingState
  <2> QED BY <2>1 DEF pendingState
<1> QED BY <1>1, <1>2, <1>3 DEF Reader, Device, Environment

\* The steps of one super transaction.
LEMMA SuperKeeps ==
    PendingInv /\ (SuperSet \/ SuperWrite \/ SuperReady \/ SuperTimeout
                   \/ SuperFail \/ SuperRetry) => PendingInv'
<1> SUFFICES ASSUME PendingInv,
                    SuperSet \/ SuperWrite \/ SuperReady \/ SuperTimeout
                    \/ SuperFail \/ SuperRetry
             PROVE PendingInv'
    OBVIOUS
<1>1. CASE SuperSet
    BY <1>1 DEF SuperSet, SetPendingSuper, opVars
<1>2. CASE SuperWrite
    BY <1>2 DEF SuperWrite, Write, opVars, superVars, pendingVars
<1>3. CASE SuperReady
    BY <1>3 DEF SuperReady, opVars, superVars, pendingVars
<1>4. CASE SuperTimeout
    BY <1>4 DEF SuperTimeout, opVars, superVars, pendingVars
<1>5. CASE SuperFail
  <2>1. pendingSuper' \in Pendings /\ pendingSuper'.pending = FALSE
      BY <1>5, FullfillSuperClears DEF SuperFail
  <2> QED BY <1>5, <2>1 DEF SuperFail, opVars, superVars
<1>6. CASE SuperRetry
    BY <1>6 DEF SuperRetry, opVars, superVars, pendingVars
<1> QED BY <1>1, <1>2, <1>3, <1>4, <1>5, <1>6

\* stackTransactionImpl() after the upload.
LEMMA ExecKeeps ==
    PendingInv /\ (ExecSetSuper \/ ExecSetStack \/ ExecWrite \/ ExecSuperReady
                   \/ ExecSuperTimeout \/ ExecFailSuper \/ ExecFailStack
                   \/ ExecStackReady \/ ExecStackTimeout) => PendingInv'
<1> SUFFICES ASSUME PendingInv,
                    ExecSetSuper \/ ExecSetStack \/ ExecWrite \/ ExecSuperReady
                    \/ ExecSuperTimeout \/ ExecFailSuper \/ ExecFailStack
                    \/ ExecStackReady \/ ExecStackTimeout
             PROVE PendingInv'
    OBVIOUS
<1>1. CASE ExecSetSuper
    BY <1>1, NextReference DEF ExecSetSuper, SetPendingSuper, opVars
<1>2. CASE ExecSetStack
    BY <1>2 DEF ExecSetStack, SetPendingStack, opVars, superVars
<1>3. CASE ExecWrite
    BY <1>3 DEF ExecWrite, Write, opVars, superVars, pendingVars
<1>4. CASE ExecSuperReady
    BY <1>4 DEF ExecSuperReady, opVars, superVars, pendingVars
<1>5. CASE ExecSuperTimeout
    BY <1>5 DEF ExecSuperTimeout, opVars, superVars, pendingVars
<1>6. CASE ExecFailSuper
  <2>1. pendingSuper' \in Pendings /\ pendingSuper'.pending = FALSE
      BY <1>6, FullfillSuperClears DEF ExecFailSuper
  <2> QED BY <1>6, <2>1 DEF ExecFailSuper, opVars, superVars
<1>7. CASE ExecFailStack
  <2>1. pendingStack' \in Pendings /\ pendingStack'.pending = FALSE
      BY <1>7, FullfillStackClears DEF ExecFailStack
  <2> QED BY <1>7, <2>1 DEF ExecFailStack, opVars, superVars
<1>8. CASE ExecStackReady
    BY <1>8 DEF ExecStackReady, opVars, superVars, pendingVars
<1>9. CASE ExecStackTimeout
    BY <1>9 DEF ExecStackTimeout, opVars, superVars, pendingVars
<1> QED BY <1>1, <1>2, <1>3, <1>4, <1>5, <1>6, <1>7, <1>8, <1>9

\* Outside a transaction nothing is pending.
LEMMA NothingPending ==
    ASSUME PendingInv, pc \notin SuperAlive, pc \notin StackAlive
    PROVE  pendingSuper.pending = FALSE /\ pendingStack.pending = FALSE
OBVIOUS

\* The steps between transactions.
LEMMA ReturnKeeps ==
    PendingInv /\ (RegisterReturns \/ UploadReturns \/ StackEnd \/ StatusReturns
                   \/ ParseErrorReturns \/ StackLoop \/ Return
                   \/ HardwareIdReturns \/ FirmwareReturns \/ ConnectGivesUp
                   \/ ConnectJoin \/ DisconnectJoin) => PendingInv'
<1> SUFFICES ASSUME PendingInv,
                    RegisterReturns \/ UploadReturns \/ StackEnd \/ StatusReturns
                    \/ ParseErrorReturns \/ StackLoop \/ Return
                    \/ HardwareIdReturns \/ FirmwareReturns \/ ConnectGivesUp
                    \/ ConnectJoin \/ DisconnectJoin
             PROVE PendingInv'
    OBVIOUS
<1>0. pendingSuper.pending = FALSE /\ pendingStack.pending = FALSE
  <2>1. pc \in {"superEnd", "stackEnd", "stackLoop", "return", "connectJoin",
                "disconnectJoin"}
      BY DEF RegisterReturns, UploadReturns, StackEnd, StatusReturns,
         ParseErrorReturns, StackLoop, Return, HardwareIdReturns,
         FirmwareReturns, ConnectGivesUp, ConnectJoin, DisconnectJoin,
         SuperReturns
  <2> QED BY <2>1, NothingPending
<1>1. UNCHANGED <<pendingSuper, pendingStack, stackRef, nextStackReference>>
    BY DEF RegisterReturns, UploadReturns, StackEnd, StatusReturns,
       ParseErrorReturns, StackLoop, Return, HardwareIdReturns,
       FirmwareReturns, ConnectGivesUp, ConnectJoin, DisconnectJoin, opVars,
       pendingVars
<1>2. CASE UNCHANGED <<superRef, nextSuperReference>>
    BY <1>0, <1>1, <1>2
<1>3. CASE \E c : StartSuper(c)
    BY <1>0, <1>1, <1>3, StartSuperKeeps
<1>4. CASE \E p : UploadPart(p)
    BY <1>0, <1>1, <1>4, UploadPartKeeps
<1> QED
    BY <1>2, <1>3, <1>4 DEF RegisterReturns, UploadReturns, StackEnd,
       StatusReturns, ParseErrorReturns, StackLoop, Return, HardwareIdReturns,
       FirmwareReturns, ConnectGivesUp, ConnectJoin, DisconnectJoin, superVars

\* The first steps of the public calls.
LEMMA BeginKeeps == PendingInv /\ Begins => PendingInv'
<1> SUFFICES ASSUME PendingInv, Begins PROVE PendingInv'
    OBVIOUS
<1>0. pendingSuper.pending = FALSE /\ pendingStack.pending = FALSE
  <2>1. pc = "idle"
      BY DEF Begins, BeginRegister, BeginStack, ConnectIsConnected, Connect,
         ConnectFails, Disconnect, Begin
  <2> QED BY <2>1, NothingPending
<1>1. UNCHANGED <<pendingSuper, pendingStack>>
    BY DEF Begins, BeginRegister, BeginStack, ConnectIsConnected, Connect,
       ConnectFails, Disconnect, pendingVars
<1>2. stackRef' \in Nat /\ nextStackReference' \in Nat
    BY DEF Begins, BeginRegister, BeginStack, ConnectIsConnected, Connect,
       ConnectFails, Disconnect
<1>3. CASE UNCHANGED <<superRef, nextSuperReference>>
    BY <1>0, <1>1, <1>2, <1>3
<1>4. CASE \E c : StartSuper(c)
    BY <1>0, <1>1, <1>2, <1>4, StartSuperKeeps
<1>5. CASE UploadPart(1)
    BY <1>0, <1>1, <1>2, <1>5, UploadPartKeeps
<1> QED
    BY <1>3, <1>4, <1>5 DEF Begins, BeginRegister, BeginStack,
       ConnectIsConnected, Connect, ConnectFails, Disconnect, superVars

LEMMA PendingStep == PendingInv /\ [Next]_vars => PendingInv'
<1>1. CASE UNCHANGED vars
  <2>1. UNCHANGED pendingState
      BY <1>1 DEF vars, opVars, superVars, pendingVars, pendingState
  <2> QED BY <2>1 DEF pendingState
<1> QED BY <1>1, ReaderKeeps, SuperKeeps, ExecKeeps, ReturnKeeps, BeginKeeps
        DEF Next, Api

\* The reader is never left with a pending response whose destination vector
\* is gone, on any path of superTransactionImpl() and stackTransactionImpl().
THEOREM PendingTheorem == Spec => []PendingOwned
<1>1. PendingInv => PendingOwned
    OBVIOUS
<1> QED BY <1>1, PendingInit, PendingStep, PTL DEF Spec

----------------------------------------------------------------------------
\* While the impl is disconnected there is no reader thread, in or between
\* public calls.
LifetimeInv ==
    /\ impl \in BOOLEAN /\ isConnected \in BOOLEAN
    /\ ~impl => reader = "none" /\ ~isConnected

LEMMA LifetimeStep == LifetimeInv /\ [Next]_vars => LifetimeInv'
<1> SUFFICES ASSUME LifetimeInv, [Next]_vars PROVE LifetimeInv'
    OBVIOUS
<1> USE DEF LifetimeInv
<1>1. CASE Reader \/ Device \/ Environment
    BY <1>1 DEF Reader, Device, Environment, ReaderSkipWord, ReaderStackError,
       ReaderSuper, ReaderStack, ReaderRead, ReaderReadError, ReaderLeaveLoop,
       ReaderExitSuper, ReaderExitStack, DeviceAnswer, LosePacket, DeviceNoise,
       connVars, readerVars
<1>2. CASE Begins
  <2>1. CASE Connect
      BY <2>1 DEF Connect
  <2>2. CASE ConnectIsConnected
      BY <2>2 DEF ConnectIsConnected, readerVars
  <2>3. CASE ConnectFails
      BY <2>3 DEF ConnectFails, readerVars
  <2>4. CASE BeginRegister \/ BeginStack \/ Disconnect
      BY <2>4 DEF BeginRegister, BeginStack, Disconnect, connVars, readerVars
  <2> QED BY <1>2, <2>1, <2>2, <2>3, <2>4 DEF Begins
<1>3. CASE Api
  <2>1. CASE Return \/ ConnectGivesUp \/ ConnectJoin \/ DisconnectJoin
      BY <2>1 DEF Return, ConnectGivesUp, ConnectJoin, DisconnectJoin, connVars,
         readerVars
  <2>2. CASE UNCHANGED <<connVars, readerVars>>
      BY <2>2 DEF connVars, readerVars
  <2> QED
      BY <1>3, <2>1, <2>2 DEF Api, SuperSet, SuperWrite, SuperReady,
         SuperTimeout, SuperFail, SuperRetry, RegisterReturns, UploadReturns,
         ExecSetSuper, ExecSetStack, ExecWrite, ExecSuperReady,
         ExecSuperTimeout, ExecFailSuper, ExecFailStack, ExecStackReady,
         ExecStackTimeout, StackEnd, StatusReturns, ParseErrorReturns,
         StackLoop, HardwareIdReturns, FirmwareReturns
<1>4. CASE UNCHANGED vars
    BY <1>4 DEF vars, connVars, readerVars
<1> QED BY <1>1, <1>2, <1>3, <1>4 DEF Next

\* connect() always finds the reader thread joined when it starts a new one,
\* and isConnected() is false whenever the implementation is disconnected.
THEOREM LifetimeTheorem == Spec => []ReaderLifetime
<1>1. Init => LifetimeInv
    BY DEF Init, LifetimeInv
<1>2. LifetimeInv => ReaderLifetime
    BY DEF LifetimeInv, ReaderLifetime
<1> QED BY <1>1, <1>2, LifetimeStep, PTL DEF Spec
----------------------------------------------------------------------------
(* AnswersAreOwn.  The responses begin with the reference of the           *)
(* transaction at all times, not only when it returns; a response that was *)
(* filled after the caller had given up waiting is not emptied before the  *)
(* retry, and only the size check keeps it from being returned.            *)

HIDE DEF PendingInv, PendingType, PendingOwned, SuperAlive, StackAlive, Pendings

controlState == <<pc, op, call, ec, superFuture, stackFuture, impl, isConnected,
                  quit, reader>>

LEMMA ControlStep == ControlTypes /\ [Next]_vars => ControlTypes'
<1> SUFFICES ASSUME ControlTypes, [Next]_vars PROVE ControlTypes'
    OBVIOUS
<1> USE DEF ControlTypes, Results, Kinds
<1>1. CASE Reader
    BY <1>1 DEF Reader, ReaderSkipWord, ReaderStackError, ReaderSuper,
       ReaderStack, ReaderRead, ReaderLeaveLoop, ReaderExitSuper,
       ReaderExitStack, FullfillSuper, FullfillStack, SuperFrameResult,
       StackFrameResult, opVars, superVars, pendingVars, connVars
<1>2. CASE Device \/ Environment
  <2>1. CASE ReaderReadError
      BY <2>1 DEF ReaderReadError, opVars, superVars, pendingVars, connVars
  <2>2. CASE DeviceAnswer \/ LosePacket \/ DeviceNoise
    <3>1. UNCHANGED controlState
        BY <2>2 DEF DeviceAnswer, LosePacket, DeviceNoise, opVars, superVars,
           pendingVars, connVars, readerVars, controlState
    <3> QED BY <3>1 DEF controlState
  <2> QED BY <1>2, <2>1, <2>2 DEF Device, Environment
<1>3. CASE Begins
  <2>1. op' \in [kind : Kinds, parts : Nat, fits : BOOLEAN]
    <3>1. op' \in Ops
        BY <1>3 DEF Begins, BeginRegister, BeginStack, ConnectIsConnected,
           Connect, ConnectFails, Disconnect, Begin
    <3> QED BY <3>1, OpsAssumption
  <2>2. CASE BeginRegister
      BY <2>1, <2>2 DEF BeginRegister, StartSuper, connVars, readerVars
  <2>3. CASE BeginStack
      BY <2>1, <2>3 DEF BeginStack, StartSuper, UploadPart, connVars, readerVars
  <2>4. CASE ConnectIsConnected
      BY <2>1, <2>4 DEF ConnectIsConnected, superVars, pendingVars, readerVars
  <2>5. CASE Connect
      BY <2>1, <2>5 DEF Connect, StartSuper
  <2>6. CASE ConnectFails
    <3>1. isConnected' \in BOOLEAN
        BY <2>6 DEF ConnectFails
    <3>2. UNCHANGED <<pc, call, ec, superFuture, stackFuture, impl, quit, reader>>
        BY <2>6 DEF ConnectFails, superVars, pendingVars, readerVars
    <3> QED BY <2>1, <3>1, <3>2
  <2>7. CASE Disconnect
    <3>1. quit' \in BOOLEAN
        BY <2>7 DEF Disconnect
    <3>2. pc' \in {pc, "disconnectJoin"}
        BY <2>7 DEF Disconnect
    <3>3. UNCHANGED <<call, ec, superFuture, stackFuture, impl, isConnected, reader>>
        BY <2>7 DEF Disconnect, superVars, pendingVars, connVars
    <3> QED BY <2>1, <3>1, <3>2, <3>3
  <2> QED BY <1>3, <2>2, <2>3, <2>4, <2>5, <2>6, <2>7 DEF Begins
<1>4. CASE SuperSet \/ SuperWrite \/ SuperReady \/ SuperTimeout \/ SuperFail
           \/ SuperRetry
    BY <1>4 DEF SuperSet, SuperWrite, SuperReady, SuperTimeout, SuperFail,
       SuperRetry, SetPendingSuper, FullfillSuper, Write, TimeOut,
       opVars, superVars, pendingVars, connVars, readerVars
<1>5. CASE ExecSetSuper \/ ExecSetStack \/ ExecWrite \/ ExecSuperReady
           \/ ExecSuperTimeout \/ ExecFailSuper \/ ExecFailStack
           \/ ExecStackReady \/ ExecStackTimeout
    BY <1>5 DEF ExecSetSuper, ExecSetStack, ExecWrite, ExecSuperReady,
       ExecSuperTimeout, ExecFailSuper, ExecFailStack, ExecStackReady,
       ExecStackTimeout, SetPendingSuper, SetPendingStack, FullfillSuper,
       FullfillStack, Write, TimeOut,
       opVars, superVars, pendingVars, connVars, readerVars
<1>6. CASE RegisterReturns \/ UploadReturns \/ StackEnd \/ StatusReturns
           \/ ParseErrorReturns \/ StackLoop \/ HardwareIdReturns
           \/ FirmwareReturns
    BY <1>6 DEF RegisterReturns, UploadReturns, StackEnd, StatusReturns,
       ParseErrorReturns, StackLoop, HardwareIdReturns, FirmwareReturns,
       RegisterResult, StartSuper, UploadPart,
       opVars, superVars, pendingVars, connVars, readerVars
<1>7. CASE Return
  <2>1. isConnected' \in BOOLEAN
      BY <1>7 DEF Return
  <2>2. UNCHANGED <<op, call, ec, superFuture, stackFuture, impl, quit, reader>>
        /\ pc' = "idle"
      BY <1>7 DEF Return, opVars, superVars, pendingVars, readerVars
  <2> QED BY <2>1, <2>2
<1>9. CASE ConnectGivesUp \/ ConnectJoin \/ DisconnectJoin
  <2>1. {impl', isConnected', quit'} \subseteq BOOLEAN
      BY <1>9 DEF ConnectGivesUp, ConnectJoin, DisconnectJoin, connVars
  <2>2. /\ UNCHANGED <<op, call, ec, superFuture, stackFuture>>
        /\ pc' \in {"connectJoin", "idle"}
        /\ reader' \in {reader, "none"}
      BY <1>9 DEF ConnectGivesUp, ConnectJoin, DisconnectJoin, opVars, superVars,
         pendingVars
  <2> QED BY <2>1, <2>2
<1>8. CASE UNCHANGED vars
    BY <1>8 DEF vars, opVars, superVars, pendingVars, connVars, readerVars
<1> QED BY <1>1, <1>2, <1>3, <1>4, <1>5, <1>6, <1>7, <1>8, <1>9 DEF Next, Api

\* Where the upload of a part takes its reference, or gives up.
LEMMA UploadCounters ==
    ASSUME CounterTypes, NEW p \in Nat, UploadPart(p)
    PROVE  {superAttempt', superRef', nextSuperReference', part'} \subseteq Nat
<1>1. part' = p /\ nextSuperReference \in Nat /\ superAttempt \in Nat /\ superRef \in Nat
    BY DEF CounterTypes, UploadPart
<1>2. CASE StartSuper("upload")
    BY <1>1, <1>2, NextReference DEF StartSuper
<1>3. CASE /\ nextSuperReference' = (nextSuperReference + 1) % SuperRefMod
           /\ superAttempt' = superAttempt /\ superRef' = superRef
    BY <1>1, <1>3, NextReference
<1> QED BY <1>2, <1>3 DEF UploadPart

LEMMA CounterStep ==
    CounterTypes /\ ControlTypes /\ DataTypes /\ [Next]_vars => CounterTypes'
<1> SUFFICES ASSUME CounterTypes, DataTypes, [Next]_vars PROVE CounterTypes'
    OBVIOUS
<1> USE DEF CounterTypes
<1>1. CASE Reader
    BY <1>1 DEF Reader, ReaderSkipWord, ReaderStackError, ReaderSuper,
       ReaderStack, ReaderRead, ReaderLeaveLoop, ReaderExitSuper,
       ReaderExitStack, opVars, superVars, deviceVars, budgetVars
<1>2. CASE Environment
    BY <1>2, SMTT(30) DEF Environment, ReaderReadError, LosePacket, DeviceNoise,
       opVars, superVars, deviceVars, budgetVars
<1>3. CASE DeviceAnswer
  <2>1. toDevice # <<>> => Head(toDevice) \in [ref : Nat, stackRef : Nat]
      BY HeadTailProperties DEF DataTypes
  <2> QED BY <1>3, <2>1 DEF DeviceAnswer, opVars, superVars, budgetVars
<1>4. CASE Begins
  <2>1. CASE BeginRegister \/ Connect
      BY <2>1, NextReference, SMTT(30) DEF BeginRegister, Connect, Begin, StartSuper,
         deviceVars, budgetVars
  <2>2. CASE BeginStack
    <3>1. /\ stackRef' = nextStackReference /\ nextStackReference' = nextStackReference + 1
          /\ stackAttempt' = 0 /\ ops' = ops + 1 /\ UploadPart(1)
          /\ UNCHANGED <<status1, faults, races, noise>>
      BY <2>2 DEF BeginStack, Begin, deviceVars, budgetVars
    <3>2. {superAttempt', superRef', nextSuperReference', part'} \subseteq Nat
      BY <3>1, UploadCounters
    <3> QED BY <3>1, <3>2
  <2>3. CASE ConnectIsConnected \/ ConnectFails \/ Disconnect
      BY <2>3 DEF ConnectIsConnected, ConnectFails, Disconnect, Begin, superVars,
         deviceVars, budgetVars
  <2> QED BY <1>4, <2>1, <2>2, <2>3 DEF Begins
<1>5. CASE SuperSet \/ SuperWrite \/ SuperReady \/ SuperTimeout \/ SuperFail
           \/ SuperRetry
    BY <1>5, SMTT(30) DEF SuperSet, SuperWrite, SuperReady, SuperTimeout, SuperFail,
       SuperRetry, Write, TimeOut, opVars, superVars, deviceVars, budgetVars
<1>6. CASE ExecSetSuper \/ ExecSetStack \/ ExecWrite \/ ExecSuperReady
           \/ ExecSuperTimeout \/ ExecFailSuper \/ ExecFailStack
           \/ ExecStackReady \/ ExecStackTimeout
    BY <1>6, NextReference, SMTT(30) DEF ExecSetSuper, ExecSetStack, ExecWrite,
       ExecSuperReady, ExecSuperTimeout, ExecFailSuper, ExecFailStack,
       ExecStackReady, ExecStackTimeout, Write, TimeOut,
       opVars, superVars, deviceVars, budgetVars
<1>7. CASE RegisterReturns \/ UploadReturns \/ StackEnd \/ StatusReturns
           \/ ParseErrorReturns \/ StackLoop \/ HardwareIdReturns
           \/ FirmwareReturns
  <2>1. CASE UploadReturns
    <3>1. UNCHANGED <<stackRef, nextStackReference, stackAttempt, ops, status1, faults,
                      races, noise>>
      BY <2>1 DEF UploadReturns, deviceVars, budgetVars
    <3>2. CASE UploadPart(part + 1)
      <4>1. part + 1 \in Nat
        OBVIOUS
      <4>2. {superAttempt', superRef', nextSuperReference', part'} \subseteq Nat
        BY <3>2, <4>1, UploadCounters
      <4> QED BY <3>1, <4>2
    <3>3. CASE UNCHANGED <<superVars, part>>
      BY <3>1, <3>3 DEF superVars
    <3> QED BY <2>1, <3>2, <3>3 DEF UploadReturns
  <2>2. CASE StackLoop
    <3>1. UNCHANGED <<stackRef, nextStackReference, ops, status1, budgetVars>>
        BY <2>2 DEF StackLoop, deviceVars
    <3>2. CASE UNCHANGED <<superVars, part, stackAttempt>>
        BY <3>1, <3>2 DEF superVars, budgetVars
    <3>3. CASE stackAttempt' = stackAttempt + 1 /\ UploadPart(1)
        BY <3>1, <3>3, NextReference, SMTT(30) DEF UploadPart, StartSuper, budgetVars
    <3> QED BY <2>2, <3>2, <3>3 DEF StackLoop
  <2>3. CASE RegisterReturns \/ StackEnd \/ StatusReturns \/ ParseErrorReturns
             \/ HardwareIdReturns \/ FirmwareReturns
      BY <2>3, NextReference DEF RegisterReturns, StackEnd, StatusReturns,
         ParseErrorReturns, HardwareIdReturns, FirmwareReturns, StartSuper,
         opVars, superVars, deviceVars, budgetVars
  <2> QED BY <1>7, <2>1, <2>2, <2>3
<1>8. CASE Return \/ ConnectGivesUp \/ ConnectJoin \/ DisconnectJoin
    BY <1>8 DEF Return, ConnectGivesUp, ConnectJoin, DisconnectJoin,
       opVars, superVars, deviceVars, budgetVars
<1>9. CASE UNCHANGED vars
    BY <1>9 DEF vars, opVars, superVars, deviceVars, budgetVars
<1> QED BY <1>1, <1>2, <1>3, <1>4, <1>5, <1>6, <1>7, <1>8, <1>9
        DEF Next, Api, Device

----------------------------------------------------------------------------
\* The stack references the MVLC has executed.
Done == {executions[i] : i \in DOMAIN executions}

\* Words on their way to the host: a stack frame that is not empty carries the
\* reference of a stack in done.
Sound(s, done) ==
    \A i \in DOMAIN s :
        s[i].t = "stack" /\ s[i].n # 0 =>
            i + 1 \in DOMAIN s /\ s[i + 1].t = "ref" /\ s[i + 1].n \in done

WireInv == Sound(buffer, Done) /\ \A k \in DOMAIN toHost : Sound(toHost[k], Done)

\* Where only a stack transaction can be, and which super transactions belong
\* to one.
StackPlaces == {"execSetSuper", "execSetStack", "execWrite", "execWaitSuper",
                "execFailSuper", "execWaitStack", "execFailStack", "stackEnd",
                "stackLoop"}
SuperPlaces == {"superSet", "superWrite", "superWait", "superFail", "superEnd"}

KindInv ==
    /\ pc \in StackPlaces => op.kind = "stack"
    /\ pc \in SuperPlaces /\ call \in {"upload", "status", "parseError"}
           => op.kind = "stack"

SizeInv ==
    pc = "return" /\ op.kind = "register" /\ ec = "ok" =>
        Len(superResponse) = ResponseSize

AnswerInv ==
    /\ WireInv
    /\ Answers(superResponse, superRef)
    /\ Answers(stackResponse, stackRef)
    /\ stackResponse # <<>> => stackRef \in Done
    /\ KindInv
    /\ SizeInv

----------------------------------------------------------------------------
(* Sequences of words.                                                     *)

\* contains_complete_frame() finds a frame inside the buffer that covers the
\* length its first header announces.
LEMMA FrameBounds ==
    ASSUME buffer \in Seq(Words), CompleteFrame(buffer)
    PROVE  /\ FrameEnd(buffer) \in 1 .. Len(buffer)
           /\ 1 + buffer[1].n <= FrameEnd(buffer)
<1>1. FrameEnd(buffer) \in DOMAIN buffer /\ FrameEndsAt(buffer, FrameEnd(buffer))
    BY DEF CompleteFrame, FrameEnd
<1>2. 1 + buffer[1].n <= FrameEnd(buffer)
    BY <1>1 DEF FrameEndsAt
<1> QED BY <1>1, <1>2

LEMMA FrameFacts ==
    ASSUME buffer \in Seq(Words), CompleteFrame(buffer)
    PROVE  /\ Frame \in Seq(Words)
           /\ Len(Frame) = FrameEnd(buffer)
           /\ \A i \in 1 .. FrameEnd(buffer) : Frame[i] = buffer[i]
BY FrameBounds, SubSeqProperties DEF Frame

\* A suffix of the buffer.
LEMMA SuffixFacts ==
    ASSUME NEW S, NEW s \in Seq(S), NEW m \in Nat, m >= 1
    PROVE  LET u == SubSeq(s, m, Len(s))
           IN  /\ u \in Seq(S)
               /\ Len(u) = IF m <= Len(s) THEN Len(s) - m + 1 ELSE 0
               /\ \A i \in 1 .. Len(u) : u[i] = s[m + i - 1]
<1> DEFINE u == SubSeq(s, m, Len(s))
<1>1. u \in Seq(S) /\ Len(u) = IF m <= Len(s) THEN Len(s) - m + 1 ELSE 0
    BY SubSeqProperties
<1>2. \A i \in 1 .. Len(u) : u[i] = s[m + i - 1]
    BY <1>1, SubSeqProperties
<1> QED BY <1>1, <1>2

LEMMA SoundAt ==
    ASSUME NEW s \in Seq(Words), NEW done, Sound(s, done),
           NEW i \in 1 .. Len(s), s[i].t = "stack", s[i].n # 0
    PROVE  i + 1 \in 1 .. Len(s) /\ s[i + 1].t = "ref" /\ s[i + 1].n \in done
<1>1. i \in DOMAIN s /\ DOMAIN s = 1 .. Len(s)
    OBVIOUS
<1>2. i + 1 \in DOMAIN s /\ s[i + 1].t = "ref" /\ s[i + 1].n \in done
    BY <1>1, Zenon DEF Sound
<1> QED BY <1>1, <1>2

LEMMA SoundSuffix ==
    ASSUME NEW s \in Seq(Words), NEW m \in Nat, m >= 1, NEW done, Sound(s, done)
    PROVE  Sound(SubSeq(s, m, Len(s)), done)
<1> DEFINE u == SubSeq(s, m, Len(s))
<1>1. /\ u \in Seq(Words)
      /\ Len(u) = IF m <= Len(s) THEN Len(s) - m + 1 ELSE 0
      /\ \A i \in 1 .. Len(u) : u[i] = s[m + i - 1]
    BY SuffixFacts
<1> HIDE DEF u
<1>2. Sound(u, done)
  <2> SUFFICES ASSUME NEW i \in 1 .. Len(u), u[i].t = "stack", u[i].n # 0
               PROVE  i + 1 \in 1 .. Len(u) /\ u[i + 1].t = "ref" /\ u[i + 1].n \in done
      BY <1>1, SMTT(30) DEF Sound
  <2> DEFINE j == m + i - 1
  <2>1. u[i] = s[j] /\ j \in 1 .. Len(s)
      BY <1>1
  <2> HIDE DEF j
  <2>2. j + 1 \in 1 .. Len(s) /\ s[j + 1].t = "ref" /\ s[j + 1].n \in done
      BY <2>1, SoundAt
  <2>3. i + 1 \in 1 .. Len(u) /\ m + (i + 1) - 1 = j + 1
      BY <1>1, <2>2 DEF j
  <2>4. u[i + 1] = s[j + 1]
      BY <1>1, <2>3
  <2> QED BY <2>2, <2>3, <2>4
<1> QED BY <1>2 DEF u

LEMMA SoundTail ==
    ASSUME NEW s \in Seq(Words), s # <<>>, NEW done, Sound(s, done)
    PROVE  Sound(Tail(s), done)
<1>1. Tail(s) = SubSeq(s, 2, Len(s))
    BY TailIsSubSeq
<1>2. Sound(SubSeq(s, 2, Len(s)), done)
    BY SoundSuffix
<1> QED BY <1>1, <1>2

LEMMA SoundConcat ==
    ASSUME NEW s \in Seq(Words), NEW u \in Seq(Words), NEW done,
           Sound(s, done), Sound(u, done)
    PROVE  Sound(s \o u, done)
<1> DEFINE v == s \o u
<1>1. /\ v \in Seq(Words) /\ Len(v) = Len(s) + Len(u)
      /\ \A i \in 1 .. Len(s) : v[i] = s[i]
      /\ \A i \in 1 .. Len(u) : v[Len(s) + i] = u[i]
    BY ConcatProperties
<1> HIDE DEF v
<1>2. Sound(v, done)
  <2> SUFFICES ASSUME NEW i \in 1 .. Len(v), v[i].t = "stack", v[i].n # 0
               PROVE  i + 1 \in 1 .. Len(v) /\ v[i + 1].t = "ref" /\ v[i + 1].n \in done
      BY <1>1 DEF Sound
  <2>1. CASE i \in 1 .. Len(s)
    <3>1. i + 1 \in 1 .. Len(s) /\ s[i + 1].t = "ref" /\ s[i + 1].n \in done
        BY <1>1, <2>1, SoundAt
    <3> QED BY <1>1, <3>1
  <2>2. CASE i \in Len(s) + 1 .. Len(v)
    <3> DEFINE j == i - Len(s)
    <3>1. j \in 1 .. Len(u) /\ v[i] = u[j]
        BY <1>1, <2>2
    <3>2. j + 1 \in 1 .. Len(u) /\ u[j + 1].t = "ref" /\ u[j + 1].n \in done
        BY <3>1, SoundAt
    <3>3. v[Len(s) + (j + 1)] = u[j + 1] /\ Len(s) + (j + 1) = i + 1
        BY <1>1, <3>2
    <3> QED BY <1>1, <3>2, <3>3
  <2> QED BY <1>1, <2>1, <2>2
<1> QED BY <1>2 DEF v

LEMMA SoundMore ==
    ASSUME NEW s, NEW done, NEW more, done \subseteq more, Sound(s, done)
    PROVE  Sound(s, more)
BY DEF Sound

\* The packets of the MVLC.
LEMMA PacketTypes ==
    /\ \A ref, value \in Nat : SuperFrame(ref, value) \in Seq(Words)
    /\ \A ref \in Nat : StackPackets(ref) \subseteq Seq(Seq(Words))
    /\ Unsolicited \subseteq Seq(Words)
<1> USE DEF Words, Word, Header, HeaderCont
<1>1. \A ref, value \in Nat : SuperFrame(ref, value) \in Seq(Words)
    BY DEF SuperFrame
<1>2. ASSUME NEW ref \in Nat PROVE StackPackets(ref) \subseteq Seq(Seq(Words))
  <2>1. <<Header("stack", 1), Word("ref", ref, FALSE)>> \in Seq(Words)
        /\ <<HeaderCont("stack", 1), Word("ref", ref, FALSE)>> \in Seq(Words)
      OBVIOUS
  <2>2. /\ <<Word("data", 0, FALSE)>> \in Seq(Words)
        /\ <<Header("stackCont", 1), Word("data", 0, FALSE)>> \in Seq(Words)
        /\ <<Header("stackCont", 2), Word("data", 0, FALSE)>> \in Seq(Words)
      OBVIOUS
  <2> QED BY <2>1, <2>2 DEF StackPackets
<1>3. Unsolicited \subseteq Seq(Words)
    BY DEF Unsolicited
<1> QED BY <1>1, <1>2, <1>3

LEMMA OneTwoThree ==
    ASSUME NEW a, NEW b, NEW c, NEW d, NEW e,
           NEW s \in {<<a>>, <<b, c>>, <<b, d, e>>}, NEW k \in DOMAIN s
    PROVE  s[k] \in {a, b, c, d, e}
<1>1. CASE s = <<a>>
  <2>1. k = 1
      BY <1>1
  <2> QED BY <1>1, <2>1
<1>2. CASE s = <<b, c>>
  <2>1. k \in {1, 2}
      BY <1>2
  <2> QED BY <1>2, <2>1
<1>3. CASE s = <<b, d, e>>
  <2>1. k \in {1, 2, 3}
      BY <1>3
  <2> QED BY <1>3, <2>1
<1> QED BY <1>1, <1>2, <1>3

LEMMA PacketsSound ==
    ASSUME NEW done
    PROVE  /\ \A ref, value \in Nat : Sound(SuperFrame(ref, value), done)
           /\ \A ref \in Nat : ref \in done =>
                \A out \in StackPackets(ref) : \A k \in DOMAIN out : Sound(out[k], done)
           /\ \A p \in Unsolicited : Sound(p, done)
<1> USE DEF Word, Header, HeaderCont
<1>1. \A ref, value \in Nat : Sound(SuperFrame(ref, value), done)
    BY DEF SuperFrame, Sound
<1>2. ASSUME NEW ref \in Nat, ref \in done,
             NEW out \in StackPackets(ref), NEW k \in DOMAIN out
      PROVE  Sound(out[k], done)
  <2>1. /\ Sound(<<Header("stack", 1), Word("ref", ref, FALSE)>>, done)
        /\ Sound(<<HeaderCont("stack", 1), Word("ref", ref, FALSE)>>, done)
        /\ Sound(<<Word("data", 0, FALSE)>>, done)
        /\ Sound(<<Header("stackCont", 1), Word("data", 0, FALSE)>>, done)
        /\ Sound(<<Header("stackCont", 2), Word("data", 0, FALSE)>>, done)
      BY <1>2 DEF Sound
  <2> HIDE DEF Word, Header, HeaderCont
  <2> DEFINE a == <<Header("stack", 1), Word("ref", ref, FALSE)>>
             b == <<HeaderCont("stack", 1), Word("ref", ref, FALSE)>>
             c == <<Header("stackCont", 1), Word("data", 0, FALSE)>>
             d == <<Header("stackCont", 2), Word("data", 0, FALSE)>>
             e == <<Word("data", 0, FALSE)>>
  <2>2. out \in {<<a>>, <<b, c>>, <<b, d, e>>} /\ k \in DOMAIN out
      BY <1>2, Zenon DEF StackPackets
  <2> HIDE DEF a, b, c, d, e
  <2>3. out[k] \in {a, b, c, d, e}
      BY <2>2, OneTwoThree
  <2> QED BY <2>1, <2>3, Zenon DEF a, b, c, d, e
<1>3. \A p \in Unsolicited : Sound(p, done)
    BY DEF Unsolicited, Sound
<1> QED BY <1>1, <1>2, <1>3

----------------------------------------------------------------------------
(* The data and the answers, action by action.                             *)

dataState == <<pendingSuper, pendingStack, superResponse, stackResponse, buffer,
               toHost, toDevice, executions>>

\* What fullfill_pending_response() leaves in the destination vector: what was
\* there, and behind it at most the contents.
LEMMA FullfillSuperTypes ==
    ASSUME DataTypes, NEW code, NEW contents \in Seq(Words),
           FullfillSuper(code, contents)
    PROVE  pendingSuper' \in Pendings /\ superResponse' \in Seq(Words)
<1>1. pendingSuper \in Pendings /\ superResponse \in Seq(Words)
    BY DEF DataTypes
<1>2. [pendingSuper EXCEPT !.pending = FALSE] \in Pendings
    BY <1>1 DEF Pendings
<1>3. superResponse \o contents \in Seq(Words)
    BY <1>1, ConcatProperties
<1> QED BY <1>1, <1>2, <1>3 DEF FullfillSuper

LEMMA FullfillStackTypes ==
    ASSUME DataTypes, NEW code, NEW contents \in Seq(Words),
           FullfillStack(code, contents)
    PROVE  pendingStack' \in Pendings /\ stackResponse' \in Seq(Words)
<1>1. pendingStack \in Pendings /\ stackResponse \in Seq(Words)
    BY DEF DataTypes
<1>2. [pendingStack EXCEPT !.pending = FALSE] \in Pendings
    BY <1>1 DEF Pendings
<1>3. stackResponse \o contents \in Seq(Words)
    BY <1>1, ConcatProperties
<1> QED BY <1>1, <1>2, <1>3 DEF FullfillStack

LEMMA ReaderData == DataTypes /\ Reader => DataTypes'
<1> SUFFICES ASSUME DataTypes, Reader PROVE DataTypes'
    OBVIOUS
<1>0. <<>> \in Seq(Words)
    OBVIOUS
<1>1. CASE ReaderSkipWord
    BY <1>1, HeadTailProperties DEF ReaderSkipWord, DataTypes, pendingVars, deviceVars
<1>2. CASE ReaderStackError
  <2>1. buffer[1].n \in Nat
    <3>1. buffer \in Seq(Words) /\ buffer # <<>>
        BY <1>2 DEF ReaderStackError, FrameReady, DataTypes
    <3>2. buffer[1] \in Words
        BY <3>1
    <3> QED BY <3>2 DEF Words
  <2>2. SubSeq(buffer, buffer[1].n + 2, Len(buffer)) \in Seq(Words)
      BY <2>1, SuffixFacts DEF DataTypes
  <2> QED BY <1>2, <2>2 DEF ReaderStackError, DataTypes, pendingVars, deviceVars
<1>3. CASE ReaderSuper \/ ReaderStack
  <2>1. CompleteFrame(buffer)
      BY <1>3 DEF ReaderSuper, ReaderStack, FrameReady
  <2>2. Frame \in Seq(Words) /\ FrameEnd(buffer) \in Nat
      BY <2>1, FrameBounds, FrameFacts DEF DataTypes
  <2>3. SubSeq(buffer, FrameEnd(buffer) + 1, Len(buffer)) \in Seq(Words)
      BY <2>2, SuffixFacts DEF DataTypes
  <2>4. CASE ReaderSuper
    <3>1. pendingSuper' \in Pendings /\ superResponse' \in Seq(Words)
        BY <1>0, <2>2, <2>4, FullfillSuperTypes DEF ReaderSuper
    <3> QED BY <2>3, <2>4, <3>1 DEF ReaderSuper, ConsumeFrame, DataTypes, deviceVars
  <2>5. CASE ReaderStack
    <3>1. pendingStack' \in Pendings /\ stackResponse' \in Seq(Words)
        BY <1>0, <2>2, <2>5, FullfillStackTypes DEF ReaderStack
    <3> QED BY <2>3, <2>5, <3>1 DEF ReaderStack, ConsumeFrame, DataTypes, deviceVars
  <2> QED BY <1>3, <2>4, <2>5
<1>4. CASE ReaderRead
  <2>1. Head(toHost) \in Seq(Words) /\ Tail(toHost) \in Seq(Seq(Words))
      BY <1>4, HeadTailProperties DEF ReaderRead, DataTypes
  <2>2. buffer \o Head(toHost) \in Seq(Words)
      BY <2>1, ConcatProperties DEF DataTypes
  <2> QED BY <1>4, <2>1, <2>2 DEF ReaderRead, DataTypes, pendingVars
<1>5. CASE ReaderLeaveLoop
    BY <1>5 DEF ReaderLeaveLoop, DataTypes, pendingVars, deviceVars
<1>6. CASE ReaderExitSuper
  <2>1. pendingSuper' \in Pendings /\ superResponse' \in Seq(Words)
      BY <1>0, <1>6, FullfillSuperTypes DEF ReaderExitSuper
  <2> QED BY <1>6, <2>1 DEF ReaderExitSuper, DataTypes, deviceVars
<1>7. CASE ReaderExitStack
  <2>1. pendingStack' \in Pendings /\ stackResponse' \in Seq(Words)
      BY <1>0, <1>7, FullfillStackTypes DEF ReaderExitStack
  <2> QED BY <1>7, <2>1 DEF ReaderExitStack, DataTypes, deviceVars
<1> QED BY <1>1, <1>2, <1>3, <1>4, <1>5, <1>6, <1>7 DEF Reader

LEMMA DeviceData ==
    DataTypes /\ CounterTypes /\ (Device \/ Environment) => DataTypes'
<1> SUFFICES ASSUME DataTypes, CounterTypes, Device \/ Environment PROVE DataTypes'
    OBVIOUS
<1>1. CASE DeviceAnswer
  <2> DEFINE req == Head(toDevice)
  <2>1. /\ req \in [ref : Nat, stackRef : Nat]
        /\ Tail(toDevice) \in Seq([ref : Nat, stackRef : Nat])
      BY <1>1, HeadTailProperties DEF DeviceAnswer, DataTypes
  <2>2. status1 \in Nat
      BY DEF CounterTypes
  <2> HIDE DEF req
  <2>3. /\ SuperFrame(req.ref, status1) \in Seq(Words)
        /\ SuperFrame(req.ref, 0) \in Seq(Words)
        /\ StackPackets(req.stackRef) \subseteq Seq(Seq(Words))
      BY <2>1, <2>2, PacketTypes
  <2>4. /\ Append(toHost, SuperFrame(req.ref, status1)) \in Seq(Seq(Words))
        /\ Append(toHost, SuperFrame(req.ref, 0)) \in Seq(Seq(Words))
        /\ Append(executions, req.stackRef) \in Seq(Nat)
      BY <2>1, <2>3, AppendProperties DEF DataTypes
  <2>5. \A out \in StackPackets(req.stackRef) :
          Append(toHost, SuperFrame(req.ref, 0)) \o out \in Seq(Seq(Words))
      BY <2>3, <2>4, ConcatProperties
  <2>6. toHost' \in Seq(Seq(Words)) /\ executions' \in Seq(Nat)
    <3>1. \/ /\ toHost' = Append(toHost, SuperFrame(req.ref, status1))
             /\ executions' = executions
          \/ /\ executions' = Append(executions, req.stackRef)
             /\ \E out \in StackPackets(req.stackRef) :
                   toHost' = Append(toHost, SuperFrame(req.ref, 0)) \o out
        BY <1>1 DEF DeviceAnswer, req
    <3> QED BY <3>1, <2>4, <2>5 DEF DataTypes
  <2>7. toDevice' = Tail(toDevice) /\ UNCHANGED <<pendingVars, buffer>>
      BY <1>1 DEF DeviceAnswer, readerVars
  <2> QED BY <2>1, <2>6, <2>7 DEF DataTypes, pendingVars
<1>2. CASE ReaderReadError
    BY <1>2 DEF ReaderReadError, DataTypes, pendingVars, deviceVars
<1>3. CASE LosePacket
    BY <1>3, HeadTailProperties DEF LosePacket, DataTypes, pendingVars, readerVars
<1>4. CASE DeviceNoise
    BY <1>4, PacketTypes, AppendProperties DEF DeviceNoise, DataTypes, pendingVars, readerVars
<1> QED BY <1>1, <1>2, <1>3, <1>4 DEF Device, Environment

LEMMA ApiData ==
    DataTypes /\ CounterTypes /\ (Begins \/ Api) => DataTypes'
<1> SUFFICES ASSUME DataTypes, CounterTypes, Begins \/ Api PROVE DataTypes'
    OBVIOUS
<1>0. <<>> \in Seq(Words)
    OBVIOUS
<1>1. CASE SuperSet \/ ExecSetSuper \/ ExecSetStack
  <2>1. /\ [pending |-> TRUE, reference |-> superRef] \in Pendings
        /\ [pending |-> TRUE, reference |-> nextSuperReference] \in Pendings
        /\ [pending |-> TRUE, reference |-> stackRef] \in Pendings
      BY DEF CounterTypes, Pendings
  <2>2. pendingSuper' \in Pendings /\ pendingStack' \in Pendings
      BY <1>1, <2>1 DEF SuperSet, ExecSetSuper, ExecSetStack, SetPendingSuper,
         SetPendingStack, DataTypes
  <2>3. superResponse' \in {superResponse, <<>>}
        /\ UNCHANGED <<stackResponse, buffer, toHost, toDevice, executions>>
      BY <1>1 DEF SuperSet, ExecSetSuper, ExecSetStack, readerVars, deviceVars
  <2> QED BY <1>0, <2>2, <2>3 DEF DataTypes
<1>2. CASE SuperWrite \/ ExecWrite
  <2>1. \/ toDevice' = toDevice
        \/ toDevice' = Append(toDevice, [ref |-> superRef, stackRef |-> 0])
        \/ toDevice' = Append(toDevice, [ref |-> superRef, stackRef |-> stackRef])
      BY <1>2 DEF SuperWrite, ExecWrite, Write
  <2>2. /\ [ref |-> superRef, stackRef |-> 0] \in [ref : Nat, stackRef : Nat]
        /\ [ref |-> superRef, stackRef |-> stackRef] \in [ref : Nat, stackRef : Nat]
      BY DEF CounterTypes
  <2>3. toDevice' \in Seq([ref : Nat, stackRef : Nat])
    <3> DEFINE R == [ref : Nat, stackRef : Nat]
    <3>1. toDevice \in Seq(R)
        BY DEF DataTypes
    <3> HIDE DEF R
    <3>2. \A r \in R : Append(toDevice, r) \in Seq(R)
        BY <3>1, AppendProperties
    <3> QED BY <2>1, <2>2, <3>1, <3>2, Zenon DEF R
  <2>4. UNCHANGED <<pendingVars, buffer, toHost, executions>>
      BY <1>2 DEF SuperWrite, ExecWrite, readerVars
  <2> QED BY <2>3, <2>4 DEF DataTypes, pendingVars
<1>3. CASE SuperFail \/ ExecFailSuper
  <2>1. pendingSuper' \in Pendings /\ superResponse' \in Seq(Words)
      BY <1>0, <1>3, FullfillSuperTypes DEF SuperFail, ExecFailSuper
  <2> QED BY <1>3, <2>1 DEF SuperFail, ExecFailSuper, DataTypes, readerVars, deviceVars
<1>4. CASE ExecFailStack
  <2>1. pendingStack' \in Pendings /\ stackResponse' \in Seq(Words)
      BY <1>0, <1>4, FullfillStackTypes DEF ExecFailStack
  <2> QED BY <1>4, <2>1 DEF ExecFailStack, DataTypes, readerVars, deviceVars
<1>5. CASE SuperReady \/ SuperTimeout \/ SuperRetry \/ RegisterReturns
           \/ ExecSuperReady \/ ExecSuperTimeout \/ ExecStackReady
           \/ ExecStackTimeout \/ ParseErrorReturns \/ Return \/ FirmwareReturns
           \/ ConnectGivesUp \/ ConnectJoin \/ DisconnectJoin
           \/ ConnectIsConnected \/ ConnectFails \/ Disconnect
  <2>1. UNCHANGED dataState
      BY <1>5 DEF SuperReady, SuperTimeout, SuperRetry, RegisterReturns,
         ExecSuperReady, ExecSuperTimeout, ExecStackReady, ExecStackTimeout,
         ParseErrorReturns, Return, FirmwareReturns, ConnectGivesUp,
         ConnectJoin, DisconnectJoin, ConnectIsConnected, ConnectFails,
         Disconnect, dataState, pendingVars, readerVars, deviceVars
  <2> QED BY <2>1 DEF dataState, DataTypes
<1>6. CASE UploadReturns \/ StackEnd \/ StatusReturns \/ StackLoop
           \/ HardwareIdReturns \/ BeginRegister \/ BeginStack
  <2>1. superResponse' \in {superResponse, <<>>} /\ stackResponse' \in {stackResponse, <<>>}
      BY <1>6 DEF UploadReturns, StackEnd, StatusReturns, StackLoop,
         HardwareIdReturns, BeginRegister, BeginStack, StartSuper, UploadPart
  <2>2. UNCHANGED <<pendingSuper, pendingStack, buffer, toHost, toDevice, executions>>
      BY <1>6 DEF UploadReturns, StackEnd, StatusReturns, StackLoop,
         HardwareIdReturns, BeginRegister, BeginStack, readerVars, deviceVars
  <2> QED BY <1>0, <2>1, <2>2 DEF DataTypes
<1>7. CASE Connect
    BY <1>0, <1>7 DEF Connect, StartSuper, DataTypes
<1> QED BY <1>1, <1>2, <1>3, <1>4, <1>5, <1>6, <1>7 DEF Begins, Api

LEMMA TypeStep == TypeOK /\ [Next]_vars => TypeOK'
<1>1. CASE UNCHANGED vars
  <2>1. UNCHANGED dataState
      BY <1>1 DEF vars, dataState, pendingVars, readerVars, deviceVars
  <2>2. DataTypes => DataTypes'
      BY <2>1 DEF dataState, DataTypes
  <2> QED BY <1>1, <2>2, ControlStep, CounterStep DEF TypeOK
<1> QED BY <1>1, ControlStep, CounterStep, ReaderData, DeviceData, ApiData
        DEF TypeOK, Next

LEMMA TypeInit == Init => TypeOK
<1> SUFFICES ASSUME Init PROVE TypeOK
    OBVIOUS
<1>1. ControlTypes
    BY DEF Init, ControlTypes, Results, Kinds, NoOp
<1>2. CounterTypes
    BY DEF Init, CounterTypes
<1>3. DataTypes
  <2>1. NoPending \in Pendings
      BY DEF NoPending, Pendings
  <2> QED BY <2>1 DEF Init, DataTypes
<1> QED BY <1>1, <1>2, <1>3 DEF TypeOK

----------------------------------------------------------------------------
(* WireInv.                                                                *)

LEMMA ReaderWire == DataTypes /\ WireInv /\ Reader => WireInv'
<1> SUFFICES ASSUME DataTypes, WireInv, Reader PROVE WireInv'
    OBVIOUS
<1>0. Done' = Done /\ buffer \in Seq(Words) /\ Sound(buffer, Done)
  <2>1. executions' = executions
      BY DEF Reader, ReaderSkipWord, ReaderStackError, ReaderSuper, ReaderStack,
         ReaderRead, ReaderLeaveLoop, ReaderExitSuper, ReaderExitStack, deviceVars
  <2> QED BY <2>1 DEF Done, WireInv, DataTypes
<1>1. CASE ReaderRead
  <2>1. /\ Head(toHost) \in Seq(Words) /\ Sound(Head(toHost), Done)
        /\ \A k \in DOMAIN Tail(toHost) : Sound(Tail(toHost)[k], Done)
    <3>1. toHost \in Seq(Seq(Words)) /\ toHost # <<>>
        BY <1>1 DEF ReaderRead, DataTypes
    <3>2. /\ Head(toHost) = toHost[1] /\ 1 \in DOMAIN toHost
          /\ Head(toHost) \in Seq(Words)
        BY <3>1
    <3>3. \A k \in DOMAIN Tail(toHost) :
             k + 1 \in DOMAIN toHost /\ Tail(toHost)[k] = toHost[k + 1]
        BY <3>1, HeadTailProperties
    <3> QED BY <3>2, <3>3 DEF WireInv
  <2>2. Sound(buffer \o Head(toHost), Done)
      BY <1>0, <2>1, SoundConcat
  <2> QED BY <1>0, <1>1, <2>1, <2>2 DEF ReaderRead, WireInv
<1>2. CASE ReaderSkipWord
  <2>1. Sound(Tail(buffer), Done)
      BY <1>0, <1>2, SoundTail DEF ReaderSkipWord
  <2> QED BY <1>0, <1>2, <2>1 DEF ReaderSkipWord, WireInv, deviceVars
<1>3. CASE ReaderStackError
  <2>1. buffer[1] \in Words
      BY <1>0, <1>3 DEF ReaderStackError, FrameReady
  <2>2. buffer[1].n + 2 \in Nat /\ buffer[1].n + 2 >= 1
      BY <2>1 DEF Words
  <2>3. Sound(SubSeq(buffer, buffer[1].n + 2, Len(buffer)), Done)
      BY <1>0, <2>2, SoundSuffix
  <2> QED BY <1>0, <1>3, <2>3 DEF ReaderStackError, WireInv, deviceVars
<1>4. CASE ReaderSuper \/ ReaderStack
  <2>1. FrameEnd(buffer) + 1 \in Nat /\ FrameEnd(buffer) + 1 >= 1
      BY <1>0, <1>4, FrameBounds DEF ReaderSuper, ReaderStack, FrameReady
  <2>2. Sound(SubSeq(buffer, FrameEnd(buffer) + 1, Len(buffer)), Done)
      BY <1>0, <2>1, SoundSuffix
  <2> QED BY <1>0, <1>4, <2>2 DEF ReaderSuper, ReaderStack, ConsumeFrame, WireInv,
          deviceVars
<1>5. CASE ReaderLeaveLoop \/ ReaderExitSuper \/ ReaderExitStack
    BY <1>0, <1>5 DEF ReaderLeaveLoop, ReaderExitSuper, ReaderExitStack, WireInv,
       deviceVars
<1> QED BY <1>1, <1>2, <1>3, <1>4, <1>5 DEF Reader

LEMMA DeviceWire ==
    TypeOK /\ WireInv /\ (Device \/ Environment) => WireInv' /\ Done \subseteq Done'
<1> SUFFICES ASSUME TypeOK, WireInv, Device \/ Environment
             PROVE  WireInv' /\ Done \subseteq Done'
    OBVIOUS
<1>0. toHost \in Seq(Seq(Words)) /\ executions \in Seq(Nat)
    BY DEF TypeOK, DataTypes
<1>1. CASE DeviceAnswer
  <2> DEFINE req == Head(toDevice)
             sup == IF req.stackRef = 0 THEN SuperFrame(req.ref, status1)
                                        ELSE SuperFrame(req.ref, 0)
  <2>1. req \in [ref : Nat, stackRef : Nat] /\ status1 \in Nat
      BY <1>1, HeadTailProperties DEF DeviceAnswer, TypeOK, DataTypes, CounterTypes
  <2>2. buffer' = buffer
      BY <1>1 DEF DeviceAnswer, readerVars
  <2>3. Done \subseteq Done' /\ (req.stackRef # 0 => req.stackRef \in Done')
    <3>1. CASE req.stackRef = 0
        BY <1>1, <3>1 DEF DeviceAnswer, Done
    <3>2. CASE req.stackRef # 0
      <4>1. executions' = Append(executions, req.stackRef)
          BY <1>1, <3>2 DEF DeviceAnswer
      <4> HIDE DEF req
      <4>2. \A i \in DOMAIN executions :
               i \in DOMAIN executions' /\ executions'[i] = executions[i]
          BY <1>0, <2>1, <4>1, AppendProperties
      <4>3. Len(executions) + 1 \in DOMAIN executions'
            /\ executions'[Len(executions) + 1] = req.stackRef
          BY <1>0, <2>1, <4>1, AppendProperties
      <4> QED BY <4>2, <4>3 DEF Done
    <3> QED BY <3>1, <3>2
  <2>4. Sound(sup, Done') /\ sup \in Seq(Words)
      BY <2>1, PacketsSound, PacketTypes
  <2>5. \A k \in DOMAIN toHost : Sound(toHost[k], Done')
      BY <2>3, SoundMore DEF WireInv
  <2> DEFINE mid == Append(toHost, sup)
  <2> HIDE DEF sup
  <2>6. mid \in Seq(Seq(Words)) /\ \A k \in DOMAIN mid : Sound(mid[k], Done')
    <3>1. /\ mid \in Seq(Seq(Words)) /\ Len(mid) = Len(toHost) + 1
          /\ mid[Len(toHost) + 1] = sup
          /\ \A k \in 1 .. Len(toHost) : mid[k] = toHost[k]
        BY <1>0, <2>4, AppendProperties
    <3> HIDE DEF mid
    <3>2. \A k \in DOMAIN mid : k \in DOMAIN toHost \/ k = Len(toHost) + 1
      <4>1. /\ DOMAIN mid = 1 .. Len(toHost) + 1
            /\ DOMAIN toHost = 1 .. Len(toHost) /\ Len(toHost) \in Nat
          BY <1>0, <3>1
      <4> QED BY <4>1
    <3>3. \A k \in DOMAIN toHost : mid[k] = toHost[k]
      <4>1. DOMAIN toHost = 1 .. Len(toHost)
          BY <1>0
      <4> QED BY <3>1, <4>1
    <3> QED BY <2>4, <2>5, <3>1, <3>2, <3>3
  <2> HIDE DEF mid
  <2>7. \A k \in DOMAIN toHost' : Sound(toHost'[k], Done')
    <3>1. CASE req.stackRef = 0
      <4>1. toHost' = mid
          BY <1>1, <3>1 DEF DeviceAnswer, mid, sup
      <4> QED BY <2>6, <4>1
    <3>2. CASE req.stackRef # 0
      <4>1. PICK out \in StackPackets(req.stackRef) : toHost' = mid \o out
          BY <1>1, <3>2 DEF DeviceAnswer, mid, sup
      <4> HIDE DEF req
      <4>2. out \in Seq(Seq(Words))
          BY <2>1, PacketTypes
      <4>3. \A k \in DOMAIN out : Sound(out[k], Done')
          BY <2>1, <2>3, <3>2, PacketsSound
      <4>4. \A k \in 1 .. Len(mid) + Len(out) :
              (mid \o out)[k] = IF k <= Len(mid) THEN mid[k] ELSE out[k - Len(mid)]
          BY <2>6, <4>2, ConcatProperties
      <4>5. DOMAIN toHost' = 1 .. Len(mid) + Len(out)
          BY <2>6, <4>1, <4>2, ConcatProperties
      <4>6. \A k \in DOMAIN toHost' :
              (k \in DOMAIN mid /\ toHost'[k] = mid[k])
              \/ (k - Len(mid) \in DOMAIN out /\ toHost'[k] = out[k - Len(mid)])
          BY <2>6, <4>1, <4>2, <4>4, <4>5, SMTT(30)
      <4> QED BY <2>6, <4>3, <4>6
    <3> QED BY <3>1, <3>2
  <2>8. Sound(buffer', Done')
      BY <2>2, <2>3, SoundMore DEF WireInv
  <2> QED BY <2>3, <2>7, <2>8 DEF WireInv
<1>2. CASE Environment
  <2>1. Done' = Done /\ buffer' = buffer
      BY <1>2 DEF Environment, ReaderReadError, LosePacket, DeviceNoise, Done,
         deviceVars, readerVars
  <2>2. CASE toHost' = toHost
      BY <2>1, <2>2 DEF WireInv
  <2>3. CASE toHost # <<>> /\ toHost' = Tail(toHost)
    <3>1. \A k \in DOMAIN Tail(toHost) :
             k + 1 \in DOMAIN toHost /\ Tail(toHost)[k] = toHost[k + 1]
        BY <1>0, <2>3, HeadTailProperties
    <3> QED BY <2>1, <2>3, <3>1 DEF WireInv
  <2>4. CASE \E p \in Unsolicited : toHost' = Append(toHost, p)
    <3>1. PICK p \in Unsolicited : toHost' = Append(toHost, p)
        BY <2>4
    <3>2. p \in Seq(Words) /\ Sound(p, Done)
        BY PacketTypes, PacketsSound
    <3>3. \A k \in DOMAIN toHost' :
             \/ k \in DOMAIN toHost /\ toHost'[k] = toHost[k]
             \/ toHost'[k] = p
        BY <1>0, <3>1, <3>2, AppendProperties
    <3> QED BY <2>1, <3>2, <3>3 DEF WireInv
  <2> QED BY <1>2, <2>2, <2>3, <2>4 DEF Environment, ReaderReadError, LosePacket,
          DeviceNoise, deviceVars
<1> QED BY <1>1, <1>2 DEF Device

----------------------------------------------------------------------------
(* AnswerInv.                                                              *)

\* A response that begins with the reference keeps doing so when more is
\* appended, and an empty one takes over the reference of the contents.
LEMMA AnswersConcat ==
    ASSUME NEW s \in Seq(Words), NEW u \in Seq(Words), NEW ref,
           Answers(s, ref), Answers(u, ref)
    PROVE  Answers(s \o u, ref)
<1> DEFINE v == s \o u
<1>1. /\ v \in Seq(Words) /\ Len(v) = Len(s) + Len(u)
      /\ \A i \in 1 .. Len(s) + Len(u) : v[i] = IF i <= Len(s) THEN s[i] ELSE u[i - Len(s)]
    BY ConcatProperties
<1> HIDE DEF v
<1>2. CASE Len(s) = 0
  <2>1. s = <<>>
      BY <1>2, EmptySeq
  <2>2. s \o u = u
      BY <2>1, ConcatEmptySeq
  <2> QED BY <2>2
<1>3. CASE Len(s) # 0
  <2>1. Len(s) > 1 /\ s[2].t = "ref" /\ s[2].n = ref
      BY <1>3 DEF Answers
  <2>2. v[2] = s[2] /\ Len(v) > 1
      BY <1>1, <2>1
  <2> QED BY <2>1, <2>2 DEF Answers, v
<1> QED BY <1>2, <1>3

\* Where the pending super response is the call's own, the reader adds nothing
\* but a frame with its reference.
LEMMA ReaderSuperAnswers ==
    ASSUME TypeOK, PendingInv, ReaderSuper, Answers(superResponse, superRef)
    PROVE  Answers(superResponse, superRef)'
<1> DEFINE res == SuperFrameResult
           contents == IF res = "ok" THEN Frame ELSE <<>>
<1>1. /\ buffer \in Seq(Words) /\ CompleteFrame(buffer) /\ buffer # <<>>
      /\ superResponse \in Seq(Words)
    BY DEF ReaderSuper, FrameReady, TypeOK, DataTypes
<1>2. UNCHANGED superRef /\ FullfillSuper(res, contents)
    BY DEF ReaderSuper, superVars
<1>3. CASE ~pendingSuper.pending
    BY <1>2, <1>3 DEF FullfillSuper
<1>4. CASE pendingSuper.pending
  <2>1. pendingSuper.reference = superRef
      BY <1>4 DEF PendingInv, PendingOwned
  <2>2. contents \in Seq(Words) /\ Answers(contents, superRef)
    <3>1. CASE res = "ok"
      <4>1. buffer[1].n # 0 /\ buffer[2].t = "ref" /\ buffer[2].n = superRef
          BY <2>1, <3>1 DEF SuperFrameResult
      <4>2. buffer[1] \in Words
          BY <1>1
      <4>3. buffer[1].n \in Nat
          BY <4>2 DEF Words
      <4>4. FrameEnd(buffer) \in 1 .. Len(buffer) /\ FrameEnd(buffer) >= 2
          BY <1>1, <4>1, <4>3, FrameBounds
      <4>5. Frame \in Seq(Words) /\ Len(Frame) > 1 /\ Frame[2] = buffer[2]
          BY <1>1, <4>4, FrameFacts
      <4> QED BY <3>1, <4>1, <4>5 DEF Answers
    <3>2. CASE res # "ok"
        BY <3>2 DEF Answers
    <3> QED BY <3>1, <3>2
  <2>3. superResponse' = superResponse \o contents
      BY <1>2, <1>4 DEF FullfillSuper
  <2> HIDE DEF contents
  <2>4. Answers(superResponse \o contents, superRef)
      BY <1>1, <2>2, AnswersConcat
  <2> QED BY <1>2, <2>3, <2>4
<1> QED BY <1>3, <1>4

LEMMA ReaderStackAnswers ==
    ASSUME TypeOK, PendingInv, WireInv, ReaderStack,
           Answers(stackResponse, stackRef),
           stackResponse # <<>> => stackRef \in Done
    PROVE  /\ Answers(stackResponse, stackRef)'
           /\ stackResponse' # <<>> => stackRef \in Done
<1> DEFINE res == StackFrameResult
           contents == IF res = "ok" THEN Frame ELSE <<>>
<1>1. /\ buffer \in Seq(Words) /\ CompleteFrame(buffer) /\ buffer # <<>>
      /\ stackResponse \in Seq(Words) /\ buffer[1].t = "stack"
    BY DEF ReaderStack, FrameReady, TypeOK, DataTypes
<1>2. UNCHANGED stackRef /\ FullfillStack(res, contents)
    BY DEF ReaderStack, opVars
<1>3. CASE ~pendingStack.pending
    BY <1>2, <1>3 DEF FullfillStack
<1>4. CASE pendingStack.pending
  <2>1. pendingStack.reference = stackRef
      BY <1>4 DEF PendingInv, PendingOwned
  <2>2. /\ contents \in Seq(Words) /\ Answers(contents, stackRef)
        /\ contents # <<>> => stackRef \in Done
    <3>1. CASE res = "ok"
      <4>1. buffer[1].n # 0 /\ buffer[2].n = stackRef
          BY <2>1, <3>1 DEF StackFrameResult
      <4>2. buffer[1] \in Words /\ 1 \in 1 .. Len(buffer)
          BY <1>1
      <4>3. buffer[1].n \in Nat
          BY <4>2 DEF Words
      <4>4. FrameEnd(buffer) \in 1 .. Len(buffer) /\ FrameEnd(buffer) >= 2
          BY <1>1, <4>1, <4>3, FrameBounds
      <4>5. Frame \in Seq(Words) /\ Len(Frame) > 1 /\ Frame[2] = buffer[2]
          BY <1>1, <4>4, FrameFacts
      <4>6. Sound(buffer, Done)
          BY DEF WireInv
      <4>7. buffer[1 + 1].t = "ref" /\ buffer[1 + 1].n \in Done
          BY <1>1, <4>1, <4>2, <4>6, SoundAt
      <4>8. buffer[2].t = "ref" /\ buffer[2].n \in Done
          BY <4>7
      <4> QED BY <3>1, <4>1, <4>5, <4>8 DEF Answers
    <3>2. CASE res # "ok"
        BY <3>2 DEF Answers
    <3> QED BY <3>1, <3>2
  <2>3. stackResponse' = stackResponse \o contents
      BY <1>2, <1>4 DEF FullfillStack
  <2> HIDE DEF contents
  <2>4. Answers(stackResponse \o contents, stackRef)
      BY <1>1, <2>2, AnswersConcat
  <2>5. CASE contents = <<>>
    <3>1. stackResponse' = stackResponse
        BY <1>1, <2>3, <2>5, ConcatEmptySeq
    <3> QED BY <1>2, <3>1
  <2> QED BY <1>2, <2>2, <2>3, <2>4, <2>5
<1> QED BY <1>3, <1>4

\* The parts of AnswerInv the reader, the MVLC and the link do not touch.
callState == <<pc, op, call, ec, superRef, stackRef>>

LEMMA ReaderAnswers ==
    ASSUME TypeOK, PendingInv, AnswerInv, Reader
    PROVE  AnswerInv'
<1>1. WireInv'
    BY ReaderWire DEF AnswerInv, TypeOK
<1>2. UNCHANGED callState /\ Done' = Done
    BY DEF Reader, ReaderSkipWord, ReaderStackError, ReaderSuper, ReaderStack,
       ReaderRead, ReaderLeaveLoop, ReaderExitSuper, ReaderExitStack, callState,
       Done, opVars, superVars, deviceVars
<1>3. KindInv'
    BY <1>2 DEF AnswerInv, KindInv, callState
<1>4. superResponse \in Seq(Words) /\ stackResponse \in Seq(Words)
    BY DEF TypeOK, DataTypes
<1>5. Answers(superResponse, superRef)'
  <2>1. CASE ReaderSuper
      BY <2>1, ReaderSuperAnswers DEF AnswerInv
  <2>2. CASE superResponse' = superResponse
      BY <1>2, <2>2 DEF AnswerInv, callState
  <2>3. CASE ReaderExitSuper
    <3>1. superResponse' = superResponse
        BY <1>4, <2>3, ConcatEmptySeq DEF ReaderExitSuper, FullfillSuper
    <3> QED BY <2>2, <3>1
  <2> QED BY <2>1, <2>2, <2>3 DEF Reader, ReaderSkipWord, ReaderStackError,
          ReaderStack, ReaderRead, ReaderLeaveLoop, ReaderExitStack, pendingVars
<1>6. Answers(stackResponse, stackRef)' /\ (stackResponse' # <<>> => stackRef' \in Done')
  <2>1. CASE ReaderStack
      BY <1>2, <2>1, ReaderStackAnswers DEF AnswerInv, callState
  <2>2. CASE stackResponse' = stackResponse
      BY <1>2, <2>2 DEF AnswerInv, callState
  <2>3. CASE ReaderExitStack
    <3>1. stackResponse' = stackResponse
        BY <1>4, <2>3, ConcatEmptySeq DEF ReaderExitStack, FullfillStack
    <3> QED BY <2>2, <3>1
  <2> QED BY <2>1, <2>2, <2>3 DEF Reader, ReaderSkipWord, ReaderStackError,
          ReaderSuper, ReaderRead, ReaderLeaveLoop, ReaderExitSuper, pendingVars
<1>7. SizeInv'
  <2>1. CASE pc = "return"
    <3>1. pendingSuper.pending = FALSE
        BY <2>1, NothingPending DEF SuperAlive, StackAlive
    <3>2. superResponse' = superResponse
        BY <3>1 DEF Reader, ReaderSkipWord, ReaderStackError, ReaderSuper,
           ReaderStack, ReaderRead, ReaderLeaveLoop, ReaderExitSuper,
           ReaderExitStack, FullfillSuper, pendingVars
    <3> QED BY <1>2, <3>2 DEF AnswerInv, SizeInv, callState
  <2>2. CASE pc # "return"
      BY <1>2, <2>2 DEF SizeInv, callState
  <2> QED BY <2>1, <2>2
<1> QED BY <1>1, <1>3, <1>5, <1>6, <1>7 DEF AnswerInv

LEMMA DeviceAnswers ==
    ASSUME TypeOK, AnswerInv, Device \/ Environment
    PROVE  AnswerInv'
<1>1. WireInv' /\ Done \subseteq Done'
    BY DeviceWire DEF AnswerInv
<1>2. UNCHANGED callState /\ UNCHANGED <<superResponse, stackResponse>>
    BY DEF Device, Environment, DeviceAnswer, ReaderReadError, LosePacket,
       DeviceNoise, callState, opVars, superVars, pendingVars
<1>3. KindInv' /\ SizeInv'
    BY <1>2 DEF AnswerInv, KindInv, SizeInv, callState
<1> QED BY <1>1, <1>2, <1>3 DEF AnswerInv, callState

\* The steps of the API thread add nothing to a response: they empty it when
\* its reference changes, or fulfil with an error code and no contents.
LEMMA ApiResponses ==
    ASSUME TypeOK, Begins \/ Api
    PROVE  /\ superResponse' = <<>> \/ UNCHANGED <<superResponse, superRef>>
           /\ stackResponse' = <<>> \/ UNCHANGED <<stackResponse, stackRef>>
<1>0. superResponse \in Seq(Words) /\ stackResponse \in Seq(Words)
    BY DEF TypeOK, DataTypes
<1>1. CASE SuperFail \/ ExecFailSuper
    BY <1>0, <1>1, ConcatEmptySeq DEF SuperFail, ExecFailSuper, FullfillSuper,
       superVars, opVars
<1>2. CASE ExecFailStack
    BY <1>0, <1>2, ConcatEmptySeq DEF ExecFailStack, FullfillStack, superVars, opVars
<1>3. CASE SuperSet \/ SuperWrite \/ SuperReady \/ SuperTimeout \/ SuperRetry
           \/ RegisterReturns \/ ExecSetSuper \/ ExecSetStack \/ ExecWrite
           \/ ExecSuperReady \/ ExecSuperTimeout \/ ExecStackReady
           \/ ExecStackTimeout
    BY <1>3 DEF SuperSet, SuperWrite, SuperReady, SuperTimeout, SuperRetry,
       RegisterReturns, ExecSetSuper, ExecSetStack, ExecWrite, ExecSuperReady,
       ExecSuperTimeout, ExecStackReady, ExecStackTimeout, opVars, superVars,
       pendingVars
<1>4. CASE UploadReturns \/ StackEnd \/ StatusReturns \/ ParseErrorReturns
           \/ StackLoop \/ Return \/ HardwareIdReturns \/ FirmwareReturns
           \/ ConnectGivesUp \/ ConnectJoin \/ DisconnectJoin
    BY <1>4 DEF UploadReturns, StackEnd, StatusReturns, ParseErrorReturns,
       StackLoop, Return, HardwareIdReturns, FirmwareReturns, ConnectGivesUp,
       ConnectJoin, DisconnectJoin, StartSuper, UploadPart, opVars, superVars,
       pendingVars
<1>5. CASE Begins
    BY <1>5 DEF Begins, BeginRegister, BeginStack, ConnectIsConnected, Connect,
       ConnectFails, Disconnect, StartSuper, UploadPart, superVars, pendingVars
<1> QED BY <1>1, <1>2, <1>3, <1>4, <1>5 DEF Api

LEMMA ApiWire ==
    ASSUME WireInv, Begins \/ Api
    PROVE  WireInv' /\ Done' = Done
<1>1. executions' = executions
    BY DEF Begins, Api, BeginRegister, BeginStack, ConnectIsConnected, Connect,
       ConnectFails, Disconnect, SuperSet, SuperWrite, SuperReady, SuperTimeout,
       SuperFail, SuperRetry, RegisterReturns, UploadReturns, ExecSetSuper,
       ExecSetStack, ExecWrite, ExecSuperReady, ExecSuperTimeout, ExecFailSuper,
       ExecFailStack, ExecStackReady, ExecStackTimeout, StackEnd, StatusReturns,
       ParseErrorReturns, StackLoop, Return, HardwareIdReturns, FirmwareReturns,
       ConnectGivesUp, ConnectJoin, DisconnectJoin, deviceVars
<1>2. CASE Connect
    BY <1>1, <1>2 DEF Connect, WireInv, Done, Sound
<1>3. CASE UNCHANGED <<buffer, toHost>>
    BY <1>1, <1>3 DEF WireInv, Done
<1> QED BY <1>1, <1>2, <1>3
    DEF Done, Begins, Api, BeginRegister, BeginStack, ConnectIsConnected,
       ConnectFails, Disconnect, SuperSet, SuperWrite, SuperReady, SuperTimeout,
       SuperFail, SuperRetry, RegisterReturns, UploadReturns, ExecSetSuper,
       ExecSetStack, ExecWrite, ExecSuperReady, ExecSuperTimeout, ExecFailSuper,
       ExecFailStack, ExecStackReady, ExecStackTimeout, StackEnd, StatusReturns,
       ParseErrorReturns, StackLoop, Return, HardwareIdReturns, FirmwareReturns,
       ConnectGivesUp, ConnectJoin, DisconnectJoin, readerVars, deviceVars

\* Which call the API thread is in.
LEMMA ApiKind ==
    ASSUME TypeOK, KindInv, Begins \/ Api
    PROVE  KindInv'
<1> USE DEF KindInv, StackPlaces, SuperPlaces
<1>1. CASE SuperSet \/ SuperWrite \/ SuperReady \/ SuperTimeout \/ SuperFail
           \/ SuperRetry
    BY <1>1 DEF SuperSet, SuperWrite, SuperReady, SuperTimeout, SuperFail,
       SuperRetry, Write, opVars, superVars
<1>2. CASE ExecSetSuper \/ ExecSetStack \/ ExecWrite \/ ExecSuperReady
           \/ ExecSuperTimeout \/ ExecFailSuper \/ ExecFailStack
           \/ ExecStackReady \/ ExecStackTimeout
    BY <1>2 DEF ExecSetSuper, ExecSetStack, ExecWrite, ExecSuperReady,
       ExecSuperTimeout, ExecFailSuper, ExecFailStack, ExecStackReady,
       ExecStackTimeout, Write, opVars, superVars
<1>3. CASE UploadReturns \/ StackEnd \/ StatusReturns \/ ParseErrorReturns
           \/ StackLoop
    BY <1>3 DEF UploadReturns, StackEnd, StatusReturns, ParseErrorReturns,
       StackLoop, SuperReturns, StartSuper, UploadPart, opVars, superVars
<1>4. CASE RegisterReturns \/ Return \/ HardwareIdReturns \/ FirmwareReturns
           \/ ConnectGivesUp \/ ConnectJoin \/ DisconnectJoin
    BY <1>4 DEF RegisterReturns, Return, HardwareIdReturns, FirmwareReturns,
       ConnectGivesUp, ConnectJoin, DisconnectJoin, StartSuper
<1>5. CASE BeginStack
  <2>1. op'.kind = "stack"
      BY <1>5 DEF BeginStack, Begin
  <2> QED BY <2>1
<1>6. CASE BeginRegister \/ Connect
    BY <1>6 DEF BeginRegister, Connect, StartSuper
<1>7. CASE ConnectIsConnected \/ ConnectFails \/ Disconnect
    BY <1>7 DEF ConnectIsConnected, ConnectFails, Disconnect, Begin
<1> QED BY <1>1, <1>2, <1>3, <1>4, <1>5, <1>6, <1>7 DEF Begins, Api

\* Only RegisterReturns brings a register call to its return, and it has
\* checked the size of the response.
LEMMA ApiSize ==
    ASSUME TypeOK, KindInv, Begins \/ Api
    PROVE  SizeInv'
<1>1. CASE RegisterReturns
    BY <1>1 DEF SizeInv, RegisterReturns, RegisterResult, pendingVars
<1>2. CASE StatusReturns \/ StackLoop
  <2>1. op.kind = "stack" /\ op' = op
      BY <1>2 DEF StatusReturns, StackLoop, SuperReturns, KindInv, StackPlaces,
         SuperPlaces, opVars
  <2> QED BY <2>1 DEF SizeInv
<1>3. CASE pc' # "return"
    BY <1>3 DEF SizeInv
<1> QED BY <1>1, <1>2, <1>3
    DEF Begins, Api, BeginRegister, BeginStack, ConnectIsConnected, Connect, Begin,
       ConnectFails, Disconnect, SuperSet, SuperWrite, SuperReady, SuperTimeout,
       SuperFail, SuperRetry, UploadReturns, ExecSetSuper, Write, StartSuper,
       ExecSetStack, ExecWrite, ExecSuperReady, ExecSuperTimeout, ExecFailSuper,
       ExecFailStack, ExecStackReady, ExecStackTimeout, StackEnd, UploadPart,
       ParseErrorReturns, Return, HardwareIdReturns, FirmwareReturns,
       ConnectGivesUp, ConnectJoin, DisconnectJoin

LEMMA ApiAnswers ==
    ASSUME TypeOK, AnswerInv, Begins \/ Api
    PROVE  AnswerInv'
<1>1. WireInv' /\ Done' = Done
    BY ApiWire DEF AnswerInv
<1>2. /\ superResponse' = <<>> \/ UNCHANGED <<superResponse, superRef>>
      /\ stackResponse' = <<>> \/ UNCHANGED <<stackResponse, stackRef>>
    BY ApiResponses
<1>3. KindInv' /\ SizeInv'
    BY ApiKind, ApiSize DEF AnswerInv
<1>4. Answers(superResponse, superRef)'
    BY <1>2 DEF AnswerInv, Answers
<1>5. Answers(stackResponse, stackRef)' /\ (stackResponse' # <<>> => stackRef' \in Done')
    BY <1>1, <1>2 DEF AnswerInv, Answers
<1> QED BY <1>1, <1>3, <1>4, <1>5 DEF AnswerInv

LEMMA AnswerStep ==
    TypeOK /\ PendingInv /\ AnswerInv /\ [Next]_vars => AnswerInv'
<1> SUFFICES ASSUME TypeOK, PendingInv, AnswerInv, [Next]_vars PROVE AnswerInv'
    OBVIOUS
<1>1. CASE UNCHANGED vars
    BY <1>1 DEF AnswerInv, WireInv, Done, KindInv, SizeInv, vars, opVars,
       superVars, pendingVars, readerVars, deviceVars
<1> QED BY <1>1, ReaderAnswers, DeviceAnswers, ApiAnswers DEF Next

LEMMA AnswerInit == Init => AnswerInv
BY DEF Init, AnswerInv, WireInv, Sound, Answers, KindInv, SizeInv, StackPlaces,
   SuperPlaces

\* For all calls, losses, delays and unsolicited packets: a register call that
\* succeeds returns the one answer to its own request, and what a stack
\* transaction collects begins with the output of its own stack, which the MVLC
\* has executed.
THEOREM AnswerTheorem == Spec => []AnswersAreOwn
<1>1. TypeOK /\ AnswerInv => AnswersAreOwn
    BY DEF AnswerInv, AnswersAreOwn, RegisterAnswerIsOwn, StackAnswerIsOwn, SizeInv,
       Executed, Done
<1> QED BY <1>1, TypeInit, TypeStep, PendingInit, PendingStep, AnswerInit,
        AnswerStep, PTL DEF Spec
============================================================================
