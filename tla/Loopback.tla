------------------------------ MODULE Loopback ------------------------------
(***************************************************************************)
(* The loopback stress test WriteReadDMA and its worker                    *)
(* WRLoopbackThreadProc, of both builds: one thread writes a block to the  *)
(* card, reads it back and compares, with one THREAD_PARAMS for each       *)
(* direction.  params[0] (read) is the one the statistics loop, the        *)
(* shutdown and the clean-up of the other commands look at: it is thread 1 *)
(* of TestRun here.  params[1] (write) is the variables below.             *)
(***************************************************************************)
EXTENDS TimedTestRun

ASSUME OneThreadAssumption == NumThreads = 1

VARIABLES
  windows,      \* the build: the Windows one overlaps its transfers
  side,         \* which of the two transfers the worker is at
  statSide,     \* which of the two the statistics loop is at
  readChannel,  \* hReadDMAChannel is open (channel: hWriteDMAChannel)
  writeBuffer,  \* params[WRITE_STRESS].Buffer # NULL
  wRunning,     \* params[WRITE_STRESS].Running
  wTotal,       \* params[WRITE_STRESS].TotalByteCountTransferred
  wErr,         \* params[WRITE_STRESS].iPass
  bytesRead,    \* BytesRead of the Windows worker, kept between blocks
  differed      \* history: some block that was read back was not the same

writeState == <<wRunning, wTotal, wErr>>
setupState == <<readChannel, writeBuffer>>
hostState == <<windows, bytesRead>>
added == <<side, statSide, setupState, writeState, hostState, differed>>
lvars == <<tvars, added>>

LInit ==
  /\ TInit
  /\ windows \in BOOLEAN
  /\ bytesRead = 0
  /\ side = "write"
  /\ statSide = "read"
  /\ readChannel = FALSE
  /\ writeBuffer = FALSE
  /\ wRunning = TRUE
  /\ wTotal = 0
  /\ wErr = "ok"
  /\ differed = FALSE

-----------------------------------------------------------------------------
(* The main thread: what it does differently from WriteDMA and ReadDMA.    *)

(* The write channel, then the read channel; either may not be there.      *)
LOpenChannels ==
  /\ mpc = "parse"
  /\ channel' \in BOOLEAN
  /\ readChannel' \in {FALSE, channel'}
  /\ IF readChannel'
     THEN mpc' = "alloc" /\ UNCHANGED iPass
     ELSE mpc' = "shutdown" /\ iPass' = "noBoard"
  /\ UNCHANGED <<config, seconds, tmpSeconds, interrupted, stats, buffer,
                 outcome, workerVars, side, statSide, writeBuffer, writeState,
                 hostState, differed>>

(* The read buffer, then the write buffer.                                 *)
LAllocBuffers ==
  /\ mpc = "alloc"
  /\ buffer' \in [Thread -> BOOLEAN]
  /\ writeBuffer' \in {FALSE, buffer'[1]}
  /\ IF writeBuffer'
     THEN mpc' = "start" /\ UNCHANGED iPass
     ELSE mpc' = "shutdown" /\ iPass' = "memFailed"
  /\ UNCHANGED <<config, seconds, tmpSeconds, interrupted, stats, channel,
                 outcome, workerVars, side, statSide, readChannel, writeState,
                 hostState, differed>>

(* The one command that looks at StartThread's result: without a thread it *)
(* goes to the clean-up, with no error code.                               *)
LStartThread ==
  /\ mpc = "start"
  /\ \/ wpc' = [wpc EXCEPT ![1] = "begin"] /\ mpc' = "sleep"
     \/ UNCHANGED wpc /\ mpc' = "shutdown"
  /\ UNCHANGED <<config, seconds, tmpSeconds, iPass, interrupted, stats,
                 resources, outcome, running, total, transfer, added>>

LCollectRead ==
  /\ mpc = "collect"
  /\ passBytes' = passBytes + IF statSide = "read" THEN total[1] ELSE wTotal
  /\ mpc' = "clear"
  /\ UNCHANGED <<config, seconds, tmpSeconds, iPass, interrupted, ci, passes,
                 reported, resources, outcome, workerVars, added>>

LCollectClear ==
  /\ mpc = "clear"
  /\ \/ /\ statSide = "read"
        /\ total' = [total EXCEPT ![1] = 0]
        /\ statSide' = "write"
        /\ mpc' = "collect"
        /\ UNCHANGED wTotal
     \/ /\ statSide = "write"
        /\ wTotal' = 0
        /\ statSide' = "read"
        /\ mpc' = "display"
        /\ UNCHANGED total
  /\ UNCHANGED <<config, seconds, tmpSeconds, iPass, interrupted, passBytes, ci,
                 passes, reported, resources, outcome, wpc, running, transfer,
                 side, setupState, wRunning, wErr, hostState,
                 differed>>

(* Mutant: the second CloseHandle closes the first handle again.           *)
CloseWriteOnly == channel' = FALSE /\ UNCHANGED readChannel

CloseChannels == channel' = FALSE /\ readChannel' = FALSE

(* The loop over NumberThreads = 1 frees params[0] only.                   *)
LRelease ==
  /\ mpc = "free"
  /\ FreeBuffers
  /\ CloseChannels
  /\ mpc' = "return"
  /\ UNCHANGED <<config, seconds, tmpSeconds, iPass, interrupted, stats,
                 outcome, workerVars, side, statSide, writeBuffer, writeState,
                 hostState, differed>>

(* The rest it shares: with one thread TestRunControl and                  *)
(* ShutdownTestThreads read and lower the flag of params[0] only.          *)
Shared ==
  /\ \/ RejectSize \/ WakePass \/ DisplayPass \/ ErrorCheck \/ LoadSeconds
     \/ StoreSeconds \/ WakeStop \/ Gather \/ Shutdown \/ WakeShutdown \/ Exit
  /\ UNCHANGED added

LMain ==
  \/ LOpenChannels \/ LAllocBuffers \/ LStartThread
  \/ LCollectRead \/ LCollectClear \/ LRelease \/ Shared

-----------------------------------------------------------------------------
(* WRLoopbackThreadProc.                                                   *)

(* The first write is issued without a look at the flags.                  *)
LBegin ==
  /\ Go(1, "begin", "io")
  /\ UNCHANGED <<running, total, transfer, added>>

(* A write or read returns n bytes: a blocking one (Linux), or the         *)
(* GetOverlappedResult that waits for a pending one (Windows).             *)
LIoOk ==
  /\ Go(1, "io", "load")
  /\ \E n \in 0 .. MaxBytes :
       /\ moved' = [moved EXCEPT ![1] = n]
       /\ bytesRead' = IF windows /\ side = "read" THEN n ELSE bytesRead
       /\ transferred' = transferred + n
  /\ UNCHANGED <<running, total, tmpTotal, left, werr, side, statSide,
                 setupState, writeState, windows, differed>>

(* WriteFile or ReadFile returns TRUE at once (Windows).  Nothing stores a *)
(* count then: the write's was cleared, the read's is the last block's.    *)
LIoAtOnce ==
  /\ windows
  /\ Go(1, "io", "load")
  /\ moved' = [moved EXCEPT ![1] = IF side = "write" THEN 0 ELSE bytesRead]
  /\ \E n \in 0 .. MaxBytes : transferred' = transferred + n
  /\ UNCHANGED <<running, total, tmpTotal, left, werr, added>>

(* The worker leaves its loop after an error: always (Windows), with -e.   *)
Breaks == windows \/ config.stopOnError

(* A failed write counts 0 bytes and on Linux without -e the block is read *)
(* all the same.  Only the Linux build lowers the flag here.               *)
LWriteFail ==
  /\ side = "write"
  /\ Go(1, "io", IF Breaks THEN "finish" ELSE "load")
  /\ wErr' = "ioError"
  /\ moved' = [moved EXCEPT ![1] = 0]
  /\ wRunning' = (wRunning /\ (windows \/ ~config.stopOnError))
  /\ UNCHANGED <<running, total, tmpTotal, left, werr, transferred, side,
                 statSide, setupState, wTotal, hostState, differed>>

(* A failed read counts nothing; side "write" at "check" means that there  *)
(* is no data to compare.                                                  *)
LReadFail ==
  /\ side = "read"
  /\ Go(1, "io", IF Breaks THEN "finish" ELSE "check")
  /\ werr' = [werr EXCEPT ![1] = "ioError"]
  /\ running' = [running EXCEPT ![1] = @ /\ (windows \/ ~config.stopOnError)]
  /\ side' = "write"
  /\ UNCHANGED <<total, tmpTotal, moved, left, transferred, statSide,
                 setupState, writeState, hostState, differed>>

LLoadTotal ==
  /\ Go(1, "load", "account")
  /\ tmpTotal' = [tmpTotal EXCEPT
                    ![1] = IF side = "write" THEN wTotal ELSE total[1]]
  /\ UNCHANGED <<running, total, moved, left, werr, transferred, added>>

LAccountWrite ==
  /\ side = "write"
  /\ Go(1, "account", "io")
  /\ wTotal' = tmpTotal[1] + moved[1]
  /\ side' = "read"
  /\ UNCHANGED <<running, total, transfer, statSide, setupState, wRunning, wErr,
                 hostState, differed>>

LAccountRead ==
  /\ side = "read"
  /\ Go(1, "account", "check")
  /\ total' = [total EXCEPT ![1] = tmpTotal[1] + moved[1]]
  /\ UNCHANGED <<running, transfer, added>>

(* What the comparison of a block finds; "empty" is a TransferSize of 0.   *)
Outcomes == IF side = "read" THEN {"same", "differs", "empty"} ELSE {"none"}

(* Mutant: a block that matches clears the error of an earlier one.        *)
ComparedClears(found, old) ==
  CASE found = "none" -> old [] found = "same" -> "ok" [] OTHER -> "ioError"

(* A mismatch is an error that later matches leave alone.                  *)
Compared(found, old) == IF found \in {"same", "none"} THEN old ELSE "ioError"

(* The comparison, then the only look at the two flags of an iteration.    *)
(* With -e a difference ends the test, an empty block does not.            *)
LCheck ==
  /\ \E found \in Outcomes :
       /\ werr' = [werr EXCEPT ![1] = Compared(found, @)]
       /\ running' = [running EXCEPT
                        ![1] = @ /\ ~(found = "differs" /\ config.stopOnError)]
       /\ differed' = (differed \/ found \in {"differs", "empty"})
  /\ Go(1, "check",
        IF running'[1] /\ wRunning /\ left[1] > 1 THEN "io" ELSE "finish")
  /\ left' = [left EXCEPT ![1] = @ - 1]
  /\ side' = "write"
  /\ UNCHANGED <<total, tmpTotal, moved, transferred, statSide, setupState,
                 writeState, hostState>>

LFinish ==
  /\ Go(1, "finish", "done")
  /\ wRunning' = FALSE
  /\ running' = [running EXCEPT ![1] = FALSE]
  /\ UNCHANGED <<total, transfer, side, statSide, setupState, wTotal, wErr,
                 hostState, differed>>

LWorker ==
  \/ LBegin \/ LIoOk \/ LIoAtOnce \/ LWriteFail \/ LReadFail \/ LLoadTotal
  \/ LAccountWrite \/ LAccountRead \/ LCheck \/ LFinish

-----------------------------------------------------------------------------
(* Time, as in TimedTestRun: each of the two transfers takes up to MaxIo.  *)
LTMain ==
  /\ LMain
  /\ mainLeft = 0
  /\ mainLeft' = SleepTime(mpc')
  /\ UNCHANGED ioLeft

LTWorker ==
  /\ LWorker
  /\ ioLeft' = [ioLeft EXCEPT ![1] = IF wpc'[1] = "io" THEN MaxIo ELSE 0]
  /\ UNCHANGED mainLeft

LNext ==
  \/ LTMain \/ LTWorker
  \/ (TUserStop \/ Tick) /\ UNCHANGED added
  \/ Terminated /\ UNCHANGED <<mainLeft, ioLeft, added>>

LSpec == LInit /\ [][LNext]_lvars

-----------------------------------------------------------------------------
LTypeOK ==
  /\ TTypeOK
  /\ side \in {"write", "read"}
  /\ statSide \in {"write", "read"}
  /\ readChannel \in BOOLEAN
  /\ writeBuffer \in BOOLEAN
  /\ wRunning \in BOOLEAN
  /\ wTotal \in Nat
  /\ wErr \in Code
  /\ windows \in BOOLEAN
  /\ bytesRead \in 0 .. MaxBytes
  /\ differed \in BOOLEAN

(* A loopback test that ran and exits with 0 has moved data in every pass  *)
(* of its statistics loop, and no block it read back differed, not even    *)
(* one that blocks which matched came after.                               *)
SuccessMeansCompared ==
  mpc = "done" /\ status = "ok" /\ endedBy # "running" =>
    passes >= 1 /\ reported >= passes /\ ~differed /\ werr[1] = "ok"

(* Both channels are closed and the read buffer is freed on every path,    *)
(* the ones that open only one of the two channels too.                    *)
ChannelsReleased ==
  mpc = "done" => ~channel /\ ~readChannel /\ ~buffer[1]

=============================================================================
