--------------------------- MODULE UsbTransport ---------------------------
(***************************************************************************)
(* usb::Impl (mvlc_impl_usb_*.cc): connect() with its attempts to open the *)
(* device, post_connect_cleanup() with one thread for each pipe, and the   *)
(* buffered read() of Windows, where every request to the driver is for a  *)
(* full transfer.                                                          *)
(***************************************************************************)
EXTENDS Integers, Sequences, FiniteSetsExt, SequencesExt

CONSTANTS
    MaxOpenAttempts, DisableTriggerRetryCount,
    DataCapacity,       \* units that fill the data pipe, which blocks the MVLC
    UsbReadSizes, TransferSizes,
    MaxUsbConnects, MaxUsbUnits     \* bounds

VARIABLES
    deviceOpen,         \* the driver holds the device open for this process
    m_handle,           \* TRUE: set
    disableTriggersOnConnect,
    upc, attempt, usbResult, connects,
    daqMode, dataPipe, cmdPipe,     \* the MVLC; units in the pipes; cmdPipe holds
                        \* "stale" and "answer" items
    pendingWrite,       \* register writes the MVLC has not executed
    cmdThread, disableTry, rCmd,    \* the two threads of post_connect_cleanup()
    dataThread, rData,
    readBuffer, usbArrived, usbDelivered

usbVars == <<deviceOpen, m_handle, disableTriggersOnConnect, upc, attempt, usbResult,
             connects, daqMode, dataPipe, cmdPipe, pendingWrite, cmdThread, disableTry, rCmd,
             dataThread, rData, readBuffer, usbArrived, usbDelivered>>
pipeVars == <<daqMode, dataPipe, cmdPipe, pendingWrite>>
cleanupVars == <<cmdThread, disableTry, rCmd, dataThread, rData>>
readVars == <<readBuffer, usbArrived, usbDelivered>>

Init ==
    /\ deviceOpen = FALSE /\ m_handle = FALSE
    /\ disableTriggersOnConnect \in BOOLEAN
    /\ upc = "idle" /\ attempt = 0 /\ usbResult = "none" /\ connects = 0
    /\ daqMode \in BOOLEAN /\ dataPipe = 0 /\ cmdPipe \in {<<>>, <<"stale">>}
    /\ pendingWrite = 0
    /\ cmdThread = "none" /\ disableTry = 0 /\ rCmd = "ok"
    /\ dataThread = "none" /\ rData = "ok"
    /\ readBuffer = <<>> /\ usbArrived = <<>> /\ usbDelivered = <<>>

Return(r) == upc' = "idle" /\ usbResult' = r

\* Mutant: only the member is reset.
MutcloseHandle == m_handle' = FALSE /\ UNCHANGED deviceOpen

closeHandle == m_handle' = FALSE /\ deviceOpen' = (deviceOpen /\ ~m_handle)

Connect ==
    /\ upc = "idle" /\ connects < MaxUsbConnects
    /\ connects' = connects + 1 /\ attempt' = 0
    /\ IF m_handle THEN Return("IsConnected") ELSE upc' = "create" /\ UNCHANGED usbResult
    /\ UNCHANGED <<deviceOpen, m_handle, disableTriggersOnConnect, pipeVars, cleanupVars, readVars>>

\* FT_Create(); with USB2 the first attempt sometimes fails.  A device another
\* program has open, or that is still open here, cannot be opened.
Create ==
    /\ upc = "create"
    /\ attempt' = attempt + 1
    /\ \/ /\ ~deviceOpen
          /\ deviceOpen' = TRUE /\ m_handle' = TRUE /\ upc' = "configure" /\ UNCHANGED usbResult
       \/ /\ IF attempt' < MaxOpenAttempts THEN UNCHANGED <<upc, usbResult>> ELSE Return("open")
          /\ UNCHANGED <<deviceOpen, m_handle>>
    /\ UNCHANGED <<disableTriggersOnConnect, connects, pipeVars, cleanupVars, readVars>>

\* The chip configuration, the timeouts, and on Windows the abort of the pipes
\* and the streaming mode: any failure closes the device.
Configure ==
    /\ upc = "configure"
    /\ \/ Return("configure") /\ closeHandle /\ UNCHANGED cleanupVars
       \/ /\ disableTriggersOnConnect
          /\ upc' = "cleanup" /\ cmdThread' = "write" /\ dataThread' = "read"
          /\ disableTry' = 0 /\ rCmd' = "ok" /\ rData' = "ok"
          /\ UNCHANGED <<deviceOpen, m_handle, usbResult>>
       \/ ~disableTriggersOnConnect /\ Return("ok") /\ UNCHANGED <<deviceOpen, m_handle, cleanupVars>>
    /\ UNCHANGED <<disableTriggersOnConnect, attempt, connects, pipeVars, readVars>>

-----------------------------------------------------------------------------
\* External: the MVLC sends readout data, and answers a register write, as
\* long as the data pipe has room.
Produce ==
    /\ daqMode /\ dataPipe < DataCapacity /\ deviceOpen
    /\ dataPipe' = dataPipe + 1
    /\ UNCHANGED <<deviceOpen, m_handle, disableTriggersOnConnect, upc, attempt, usbResult, connects,
                   daqMode, cmdPipe, pendingWrite, cleanupVars, readVars>>

Answer ==
    /\ pendingWrite > 0 /\ dataPipe < DataCapacity
    /\ pendingWrite' = pendingWrite - 1 /\ daqMode' = FALSE
    /\ cmdPipe' = Append(cmdPipe, "answer")
    /\ UNCHANGED <<deviceOpen, m_handle, disableTriggersOnConnect, upc, attempt, usbResult, connects,
                   dataPipe, cleanupVars, readVars>>

CmdStep == UNCHANGED <<deviceOpen, m_handle, disableTriggersOnConnect, upc, attempt, usbResult, connects,
                       daqMode, dataPipe, dataThread, rData, readVars>>

\* disable_daq_mode(): a register write through the dialog.
WriteDisable ==
    /\ cmdThread = "write"
    /\ cmdThread' = "answer" /\ disableTry' = disableTry + 1
    /\ pendingWrite' = pendingWrite + 1
    /\ UNCHANGED <<cmdPipe, rCmd>> /\ CmdStep

\* Its answer comes, something else comes, the MVLC is blocked, or the
\* connection is gone.
ReadAnswer ==
    /\ cmdThread = "answer"
    /\ \/ cmdPipe # <<>> /\ Head(cmdPipe) = "answer" /\ cmdThread' = "done"
          /\ cmdPipe' = Tail(cmdPipe) /\ UNCHANGED rCmd
       \/ cmdPipe # <<>> /\ Head(cmdPipe) = "stale" /\ cmdThread' = "drain"
          /\ cmdPipe' = Tail(cmdPipe) /\ UNCHANGED rCmd
       \/ cmdPipe = <<>> /\ dataPipe = DataCapacity /\ cmdThread' = "drain"
          /\ UNCHANGED <<cmdPipe, rCmd>>
       \/ cmdThread' = "done" /\ rCmd' = "ConnectionError" /\ UNCHANGED cmdPipe
    /\ UNCHANGED <<disableTry, pendingWrite>> /\ CmdStep

\* Mutant: the pipe is read until something has come.
MutDrainCmd ==
    /\ cmdThread = "drain" /\ cmdPipe # <<>>
    /\ cmdPipe' = <<>>
    /\ cmdThread' = IF disableTry < DisableTriggerRetryCount THEN "write" ELSE "done"
    /\ rCmd' = "Timeout"
    /\ UNCHANGED <<disableTry, pendingWrite>> /\ CmdStep

\* read_pipe_until_empty() on the command pipe; its last read is a timeout.
DrainCmd ==
    /\ cmdThread = "drain"
    /\ cmdPipe' = <<>>
    /\ \/ /\ cmdThread' = IF disableTry < DisableTriggerRetryCount THEN "write" ELSE "done"
          /\ rCmd' = "Timeout"
       \/ cmdThread' = "done" /\ rCmd' = "ConnectionError"
    /\ UNCHANGED <<disableTry, pendingWrite>> /\ CmdStep

\* read_pipe_until_empty() on the data pipe, until a read returns nothing.
ReadData ==
    /\ dataThread = "read"
    /\ \/ dataPipe > 0 /\ dataPipe' = 0 /\ UNCHANGED <<dataThread, rData>>
       \/ dataPipe = 0 /\ dataThread' = "done" /\ rData' = "Timeout" /\ UNCHANGED dataPipe
       \/ dataThread' = "done" /\ rData' = "ConnectionError" /\ UNCHANGED dataPipe
    /\ UNCHANGED <<deviceOpen, m_handle, disableTriggersOnConnect, upc, attempt, usbResult, connects,
                   daqMode, cmdPipe, pendingWrite, cmdThread, disableTry, rCmd, readVars>>

\* The result of the command thread goes first, and a timeout is no error:
\* with it the device stays open, otherwise too.
CleanupResult ==
    LET r == IF rCmd # "ok" THEN rCmd ELSE rData IN IF r = "Timeout" THEN "ok" ELSE r

CleanupEnds ==
    /\ upc = "cleanup" /\ cmdThread = "done" /\ dataThread = "done"
    /\ Return(CleanupResult)
    /\ cmdThread' = "none" /\ dataThread' = "none"
    /\ UNCHANGED <<deviceOpen, m_handle, disableTriggersOnConnect, attempt, connects, pipeVars,
                   disableTry, rCmd, rData, readVars>>

Disconnect ==
    /\ upc = "idle" /\ m_handle
    /\ closeHandle /\ usbResult' = "ok"
    /\ UNCHANGED <<disableTriggersOnConnect, upc, attempt, connects, pipeVars, cleanupVars, readVars>>

-----------------------------------------------------------------------------
\* Mutant: a request larger than the rest of the buffer starts with the transfer.
MutUsbRead(size, n) ==
    LET fresh == [i \in 1..n |-> Len(usbArrived) + i] IN
    /\ usbDelivered' = usbDelivered \o SubSeq(fresh, 1, Min({size, n}))
    /\ readBuffer' = SubSeq(fresh, Min({size, n}) + 1, n)
    /\ usbArrived' = usbArrived \o fresh

\* read() on Windows: what is buffered; if that is not enough one transfer of
\* n units, which may be fewer than asked for and may come with an error.
UsbRead(size, n) ==
    LET fresh == [i \in 1..n |-> Len(usbArrived) + i]
        have == IF Len(readBuffer) >= size THEN readBuffer ELSE readBuffer \o fresh
        k == Min({size, Len(have)})
    IN  /\ usbDelivered' = usbDelivered \o SubSeq(have, 1, k)
        /\ readBuffer' = SubSeq(have, k + 1, Len(have))
        /\ usbArrived' = IF Len(readBuffer) >= size THEN usbArrived ELSE usbArrived \o fresh

Read ==
    /\ upc = "idle" /\ m_handle /\ usbResult = "ok"
    /\ Len(usbArrived) < MaxUsbUnits
    /\ \E size \in UsbReadSizes, n \in TransferSizes : UsbRead(size, n)
    /\ UNCHANGED <<deviceOpen, m_handle, disableTriggersOnConnect, upc, attempt, usbResult, connects,
                   pipeVars, cleanupVars>>

CmdThread == WriteDisable \/ ReadAnswer \/ DrainCmd
Caller == Create \/ Configure \/ CleanupEnds
Next == Connect \/ Caller \/ Produce \/ Answer \/ CmdThread \/ ReadData \/ Disconnect \/ Read

Spec == /\ Init /\ [][Next]_usbVars
        /\ WF_usbVars(Caller) /\ SF_usbVars(Answer) /\ WF_usbVars(CmdThread) /\ WF_usbVars(ReadData)

-----------------------------------------------------------------------------
\* The device is open exactly while the object has a handle: no failure of
\* connect() leaves behind a device that nobody can close (closeHandle()).
HandleKnown == deviceOpen = m_handle

\* Callers of read() get all units of all transfers once and in order,
\* whatever their requests leave in the buffer.
TransfersConserved == usbDelivered \o readBuffer = usbArrived

\* post_connect_cleanup() ends, also when the MVLC is blocked by a full data
\* pipe or keeps producing data until it is told to stop.
CleanupTerminates == (upc = "cleanup") ~> (upc = "idle")
=============================================================================
