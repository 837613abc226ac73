------------------------------ MODULE TestRun ------------------------------
(***************************************************************************)
(* One DMA test command of ExpressoCli (WriteDMA or ReadDMA): the main     *)
(* thread, its NumThreads ReadWriteThreadProc workers (Linux build), and   *)
(* the signal handler.  They share the per-thread THREAD_PARAMS records    *)
(* and CFG_PARAMS::Seconds without any lock, so every read-modify-write    *)
(* of a shared word is two steps here.                                     *)
(*                                                                         *)
(* Time is abstracted away: a Sleep may last any time.  TimedTestRun adds  *)
(* the durations of the sleeps and of the transfers.                       *)
(***************************************************************************)
EXTENDS Integers, FiniteSets

CONSTANTS
  NumThreads,         \* pcfgParams->NumberThreads (option -t, 1..MAX_THREADS)
  UIntMod,            \* 2^32 in the code: Seconds and Iterations are UINT32
  MaxBytes,           \* most bytes one transfer moves
  PassCap,            \* bound: the ghost pass counter saturates here
  SecondsChoices,     \* values of option -s
  IterationsChoices,  \* values of option -i
  StopOnErrorChoices  \* option -e absent / present

ASSUME NumThreadsAssumption == NumThreads \in Nat \ {0}
ASSUME UIntModAssumption == UIntMod \in Nat /\ UIntMod > 1
ASSUME MaxBytesAssumption == MaxBytes \in Nat
ASSUME PassCapAssumption == PassCap \in Nat
ASSUME ChoicesAssumption ==
  /\ SecondsChoices \subseteq 0 .. UIntMod - 1
  /\ IterationsChoices \subseteq Nat
  /\ StopOnErrorChoices \subseteq BOOLEAN
ASSUME PassCapCoversSeconds == \A s \in SecondsChoices : s < PassCap

Thread == 1 .. NumThreads

(* The iPass codes and exit codes the properties tell apart.               *)
Code == {"ok", "noBoard", "memFailed", "noData", "ioError", "tooLarge"}

VARIABLES
  config,      \* the parsed options, fixed for the run
  mpc,         \* where the main thread is
  seconds,     \* pcfgParams->Seconds, also written by SignalHandler
  tmpSeconds,  \* register of the read-modify-write --Seconds
  iPass,       \* pcfgParams->iPass
  passBytes,   \* PassStats.BytesTransfered of the current pass
  ci,          \* index of the statistics loop
  buffer,      \* params[i].Buffer # NULL
  channel,     \* hReadDMAChannel / hWriteDMAChannel is open
  result,      \* return value of the command function
  status,      \* exit status of the process
  wpc,         \* where worker i is
  running,     \* params[i].Running
  total,       \* params[i].TotalByteCountTransferred
  tmpTotal,    \* register of the worker's TotalByteCountTransferred += n
  moved,       \* BytesXfer of the worker's last transfer
  left,        \* params[i].Iterations
  werr         \* params[i].iPass

(* History variables: no guard reads them.                                 *)
VARIABLES
  passes,      \* SummaryStats.Samples, saturated at PassCap
  reported,    \* SummaryStats.BytesTransferedTotal
  transferred, \* bytes the transfers really moved
  interrupted, \* SignalHandler has run, not inside --Seconds
  endedBy      \* why the statistics loop ended

stats == <<passBytes, ci, passes, reported>>
resources == <<buffer, channel>>
outcome == <<result, status, endedBy>>
transfer == <<tmpTotal, moved, left, werr, transferred>>
workerVars == <<wpc, running, total, transfer>>
vars == <<config, mpc, seconds, tmpSeconds, iPass, interrupted, stats,
          resources, outcome, workerVars>>

(* The main thread is inside the Sleep of the statistics loop, of          *)
(* TestRunControl, of ShutdownTestThreads.                                 *)
Sleeping == {"sleep", "stopSleep", "shutSleep"}

(* Where a worker still has code to run.                                   *)
Busy == {"begin", "check", "io", "load", "account", "finish"}

-----------------------------------------------------------------------------
(* Transfers per thread: at least one each, else an even share.            *)
NumberTransfers(iterations) ==
  IF iterations < NumThreads THEN NumThreads ELSE iterations \div NumThreads

(* InitThreadParams raises Running and clears every counter; main clears   *)
(* CFG_PARAMS before the options are set.                                  *)
Init ==
  /\ config \in [seconds: SecondsChoices, iterations: IterationsChoices,
                 stopOnError: StopOnErrorChoices]
  /\ mpc = "parse"
  /\ seconds = config.seconds
  /\ tmpSeconds = 0
  /\ iPass = "ok"
  /\ passBytes = 0
  /\ ci = 1
  /\ buffer = [i \in Thread |-> FALSE]
  /\ channel = FALSE
  /\ result = "ok"
  /\ status = "ok"
  /\ wpc = [i \in Thread |-> "none"]
  /\ running = [i \in Thread |-> TRUE]
  /\ total = [i \in Thread |-> 0]
  /\ tmpTotal = [i \in Thread |-> 0]
  /\ moved = [i \in Thread |-> 0]
  /\ left = [i \in Thread |-> NumberTransfers(config.iterations)]
  /\ werr = [i \in Thread |-> "ok"]
  /\ passes = 0
  /\ reported = 0
  /\ transferred = 0
  /\ interrupted = FALSE
  /\ endedBy = "running"

-----------------------------------------------------------------------------
(* Setting a test up.                                                      *)

(* The size argument does not fit in 32 bits: the command returns at once. *)
RejectSize ==
  /\ mpc = "parse"
  /\ result' = "tooLarge"
  /\ mpc' = "return"
  /\ UNCHANGED <<config, seconds, tmpSeconds, iPass, interrupted, stats,
                 resources, status, endedBy, workerVars>>

OpenChannel ==
  /\ mpc = "parse"
  /\ \/ channel' = TRUE /\ mpc' = "alloc" /\ UNCHANGED iPass
     \/ UNCHANGED channel /\ mpc' = "shutdown" /\ iPass' = "noBoard"
  /\ UNCHANGED <<config, seconds, tmpSeconds, interrupted, stats, buffer,
                 outcome, workerVars>>

(* BufferAllocAndSet for each thread in turn; the first failure gives up   *)
(* with the earlier buffers allocated.                                     *)
AllocBuffers ==
  /\ mpc = "alloc"
  /\ \E k \in 0 .. NumThreads :
       /\ buffer' = [i \in Thread |-> i <= k]
       /\ IF k = NumThreads
          THEN mpc' = "start" /\ UNCHANGED iPass
          ELSE mpc' = "shutdown" /\ iPass' = "memFailed"
  /\ UNCHANGED <<config, seconds, tmpSeconds, interrupted, stats, channel,
                 outcome, workerVars>>

(* StartThread for each thread.  Its result is ignored, so any of them may *)
(* have failed and the thread's Running flag stays raised.                 *)
StartThreads ==
  /\ mpc = "start"
  /\ \E S \in SUBSET Thread :
       wpc' = [i \in Thread |-> IF i \in S THEN "begin" ELSE "none"]
  /\ mpc' = "sleep"
  /\ UNCHANGED <<config, seconds, tmpSeconds, iPass, interrupted, stats,
                 resources, outcome, running, total, transfer>>

-----------------------------------------------------------------------------
(* The statistics loop, once a second.                                     *)

WakePass ==
  /\ mpc = "sleep"
  /\ passBytes' = 0
  /\ ci' = 1
  /\ mpc' = "collect"
  /\ UNCHANGED <<config, seconds, tmpSeconds, iPass, interrupted, passes,
                 reported, resources, outcome, workerVars>>

(* Mutant: = in place of +=.                                               *)
CollectedLast(bytes, n) == n

(* PassStats.BytesTransfered += params[i].TotalByteCountTransferred        *)
Collected(bytes, n) == bytes + n

CollectRead ==
  /\ mpc = "collect"
  /\ passBytes' = Collected(passBytes, total[ci])
  /\ mpc' = "clear"
  /\ UNCHANGED <<config, seconds, tmpSeconds, iPass, interrupted, ci, passes,
                 reported, resources, outcome, workerVars>>

(* params[i].TotalByteCountTransferred = 0                                 *)
CollectClear ==
  /\ mpc = "clear"
  /\ total' = [total EXCEPT ![ci] = 0]
  /\ IF ci < NumThreads
     THEN ci' = ci + 1 /\ mpc' = "collect"
     ELSE UNCHANGED ci /\ mpc' = "display"
  /\ UNCHANGED <<config, seconds, tmpSeconds, iPass, interrupted, passBytes,
                 passes, reported, resources, outcome, wpc, running, transfer>>

(* Mutant: a later pass with data clears the error.                        *)
PassResultForgets(bytes, old) == IF bytes = 0 THEN "noData" ELSE "ok"

(* DisplayPassInfo: a pass without data is an error that nothing clears.   *)
PassResult(bytes, old) == IF bytes = 0 THEN "noData" ELSE old

DisplayPass ==
  /\ mpc = "display"
  /\ passes' = IF passes < PassCap THEN passes + 1 ELSE passes
  /\ reported' = reported + passBytes
  /\ iPass' = PassResult(passBytes, iPass)
  /\ mpc' = "control"
  /\ UNCHANGED <<config, seconds, tmpSeconds, interrupted, passBytes, ci,
                 resources, outcome, workerVars>>

-----------------------------------------------------------------------------
(* TestRunControl.                                                         *)

ErrorCheck ==
  /\ mpc = "control"
  /\ seconds' = IF iPass # "ok" /\ config.stopOnError THEN 0 ELSE seconds
  /\ mpc' = "load"
  /\ UNCHANGED <<config, tmpSeconds, iPass, interrupted, stats, resources,
                 outcome, workerVars>>

LoadSeconds ==
  /\ mpc = "load"
  /\ tmpSeconds' = seconds
  /\ mpc' = "store"
  /\ UNCHANGED <<config, seconds, iPass, interrupted, stats, resources,
                 outcome, workerVars>>

(* Mutant: the subtraction without the width of the type.                  *)
DecrementUnbounded(s) == s - 1

(* --Seconds on a UINT32: zero wraps around.                               *)
Decrement(s) == (s - 1) % UIntMod

(* Mutant: the post-decrement Seconds--, which tests the old value.        *)
TimedOutLate(s) == s = 0

TimedOut(s) == Decrement(s) = 0

ClearFlags == running' = [i \in Thread |-> FALSE]

(* Mutant: each flag overwrites what the loop found so far.                *)
LastRunning == running[NumThreads]

AnyRunning == \E i \in Thread : running[i]

(* The store of --Seconds and the branch on it: time out, or go on while   *)
(* some thread runs.  The loops over the flags are one step: workers only  *)
(* ever lower a flag, so the scan gives what one instant of it would give, *)
(* and each worker looks at its own flag only.                             *)
StoreSeconds ==
  /\ mpc = "store"
  /\ seconds' = Decrement(tmpSeconds)
  /\ \/ /\ TimedOut(tmpSeconds)
        /\ ClearFlags
        /\ mpc' = "stopSleep"
        /\ endedBy' = "timeout"
     \/ /\ ~TimedOut(tmpSeconds)
        /\ AnyRunning
        /\ mpc' = "sleep"
        /\ UNCHANGED <<running, endedBy>>
     \/ /\ ~TimedOut(tmpSeconds)
        /\ ~AnyRunning
        /\ mpc' = "gather"
        /\ endedBy' = "workers"
        /\ UNCHANGED running
  /\ UNCHANGED <<config, tmpSeconds, iPass, interrupted, stats, resources,
                 result, status, wpc, total, transfer>>

WakeStop ==
  /\ mpc = "stopSleep"
  /\ mpc' = "gather"
  /\ UNCHANGED <<config, seconds, tmpSeconds, iPass, interrupted, stats,
                 resources, outcome, workerVars>>

(* Mutant: only the first thread's result is looked at.                    *)
FirstCode == IF iPass = "ok" /\ werr[1] # "ok" THEN "ioError" ELSE iPass

(* The result of the first worker with one, if the run has none of its own.*)
(* Its Sleep(500) is never reached: every flag is down by now.             *)
GatheredCode ==
  IF iPass = "ok" /\ \E i \in Thread : werr[i] # "ok" THEN "ioError" ELSE iPass

Gather ==
  /\ mpc = "gather"
  /\ iPass' = GatheredCode
  /\ mpc' = "shutdown"
  /\ UNCHANGED <<config, seconds, tmpSeconds, interrupted, stats, resources,
                 outcome, workerVars>>

-----------------------------------------------------------------------------
(* Tearing the test down, and the end of main.                             *)

(* ShutdownTestThreads lowers every flag and sleeps; no thread is joined.  *)
Shutdown ==
  /\ mpc = "shutdown"
  /\ ClearFlags
  /\ mpc' = "shutSleep"
  /\ UNCHANGED <<config, seconds, tmpSeconds, iPass, interrupted, stats,
                 resources, outcome, wpc, total, transfer>>

(* Mutant: a join without a time limit in place of the sleep.              *)
JoinShutdown ==
  /\ mpc = "shutSleep"
  /\ \A i \in Thread : wpc[i] \notin Busy
  /\ mpc' = "free"
  /\ UNCHANGED <<config, seconds, tmpSeconds, iPass, interrupted, stats,
                 resources, outcome, workerVars>>

WakeShutdown ==
  /\ mpc = "shutSleep"
  /\ mpc' = "free"
  /\ UNCHANGED <<config, seconds, tmpSeconds, iPass, interrupted, stats,
                 resources, outcome, workerVars>>

(* Mutant: the loop frees params[0] only.                                  *)
FreeFirst == buffer' = [buffer EXCEPT ![1] = FALSE]

(* FreeThreadParams for each thread, then CloseHandle.                     *)
FreeBuffers == buffer' = [i \in Thread |-> FALSE]

Release ==
  /\ mpc = "free"
  /\ FreeBuffers
  /\ channel' = FALSE
  /\ mpc' = "return"
  /\ UNCHANGED <<config, seconds, tmpSeconds, iPass, interrupted, stats,
                 outcome, workerVars>>

(* The end of main: the command's own return value only counts when iPass  *)
(* holds no error.  Returning from main ends every thread.                 *)
ExitStatus == IF iPass # "ok" THEN iPass ELSE result

Exit ==
  /\ mpc = "return"
  /\ status' = ExitStatus
  /\ mpc' = "done"
  /\ UNCHANGED <<config, seconds, tmpSeconds, iPass, interrupted, stats,
                 resources, result, endedBy, workerVars>>

Main ==
  \/ RejectSize \/ OpenChannel \/ AllocBuffers \/ StartThreads
  \/ WakePass \/ CollectRead \/ CollectClear \/ DisplayPass
  \/ ErrorCheck \/ LoadSeconds \/ StoreSeconds \/ WakeStop \/ Gather
  \/ Shutdown \/ WakeShutdown \/ Release \/ Exit

-----------------------------------------------------------------------------
(* ReadWriteThreadProc.                                                    *)

mainState == <<config, mpc, seconds, tmpSeconds, iPass, interrupted, stats,
               resources, outcome>>

(* A worker takes a step from one of its places, while the process lives.  *)
Go(i, from, to) ==
  /\ mpc # "done"
  /\ wpc[i] = from
  /\ wpc' = [wpc EXCEPT ![i] = to]
  /\ UNCHANGED mainState

(* params->TotalByteCountTransferred = 0                                   *)
Begin(i) ==
  /\ Go(i, "begin", "check")
  /\ total' = [total EXCEPT ![i] = 0]
  /\ UNCHANGED <<running, transfer>>

(* See if we are still supposed to run.                                    *)
CheckRunning(i) ==
  /\ Go(i, "check", IF running[i] THEN "io" ELSE "finish")
  /\ UNCHANGED <<running, total, transfer>>

(* The blocking read or write returns n bytes.                             *)
IoOk(i) ==
  /\ Go(i, "io", "load")
  /\ \E n \in 0 .. MaxBytes :
       /\ moved' = [moved EXCEPT ![i] = n]
       /\ transferred' = transferred + n
  /\ UNCHANGED <<running, total, tmpTotal, left, werr>>

(* It fails: with -e the worker stops, else the transfer counts 0 bytes.   *)
IoFail(i) ==
  /\ Go(i, "io", IF config.stopOnError THEN "finish" ELSE "load")
  /\ werr' = [werr EXCEPT ![i] = "ioError"]
  /\ moved' = [moved EXCEPT ![i] = 0]
  /\ running' = [running EXCEPT ![i] = @ /\ ~config.stopOnError]
  /\ UNCHANGED <<total, tmpTotal, left, transferred>>

(* TotalByteCountTransferred += BytesXfer, in two steps; after it the      *)
(* thread prepares its next transfer and counts.  *)
LoadTotal(i) ==
  /\ Go(i, "load", "account")
  /\ tmpTotal' = [tmpTotal EXCEPT ![i] = total[i]]
  /\ UNCHANGED <<running, total, moved, left, werr, transferred>>

Account(i) ==
  /\ Go(i, "account", IF left[i] = 1 THEN "finish" ELSE "check")
  /\ total' = [total EXCEPT ![i] = tmpTotal[i] + moved[i]]
  /\ left' = [left EXCEPT ![i] = left[i] - 1]
  /\ UNCHANGED <<running, tmpTotal, moved, werr, transferred>>

(* Both stores of Running = FALSE at the end of the thread.                *)
Finish(i) ==
  /\ Go(i, "finish", "done")
  /\ running' = [running EXCEPT ![i] = FALSE]
  /\ UNCHANGED <<total, transfer>>

Worker(i) ==
  \/ Begin(i) \/ CheckRunning(i) \/ IoOk(i) \/ IoFail(i)
  \/ LoadTotal(i) \/ Account(i) \/ Finish(i)

-----------------------------------------------------------------------------
(* SignalHandler, for SIGINT, SIGTERM and the others main installs it for. *)
(* Between the load and the store of --Seconds its own store gets lost.    *)
UserStop ==
  /\ mpc # "done"
  /\ seconds' = 1
  /\ interrupted' = (interrupted \/ mpc # "store")
  /\ UNCHANGED <<config, mpc, tmpSeconds, iPass, stats, resources, outcome,
                 workerVars>>

Terminated == mpc = "done" /\ UNCHANGED vars

Next == Main \/ (\E i \in Thread : Worker(i)) \/ UserStop \/ Terminated

(* The scheduler runs the main thread and its sleeps end.  Workers may stay*)
(* in the driver for ever and the user may never press Ctrl-C.             *)
Spec == Init /\ [][Next]_vars /\ WF_vars(Main)

-----------------------------------------------------------------------------
(* What every build's workers leave to the main thread to be typed.        *)
MainTypeOK ==
  /\ config \in [seconds: SecondsChoices, iterations: IterationsChoices,
                 stopOnError: StopOnErrorChoices]
  /\ mpc \in {"parse", "alloc", "start", "collect", "clear", "display",
              "control", "load", "store", "gather", "shutdown", "free",
              "return", "done"} \cup Sleeping
  /\ seconds \in 0 .. UIntMod - 1
  /\ tmpSeconds \in 0 .. UIntMod - 1
  /\ iPass \in Code
  /\ passBytes \in Nat
  /\ ci \in Thread
  /\ buffer \in [Thread -> BOOLEAN]
  /\ channel \in BOOLEAN
  /\ result \in Code
  /\ status \in Code
  /\ running \in [Thread -> BOOLEAN]
  /\ total \in [Thread -> Nat]
  /\ tmpTotal \in [Thread -> Nat]
  /\ moved \in [Thread -> 0 .. MaxBytes]
  /\ left \in [Thread -> Int]
  /\ werr \in [Thread -> Code]
  /\ passes \in Nat
  /\ reported \in Nat
  /\ transferred \in Nat
  /\ interrupted \in BOOLEAN
  /\ endedBy \in {"running", "timeout", "workers"}

(* Type correctness of every variable the code and the history keep.       *)
TypeOK == MainTypeOK /\ wpc \in [Thread -> Busy \cup {"none", "done"}]

(* A run without -e and with -s at least 1 takes at most one statistics    *)
(* pass for each second asked for, however workers and Ctrl-C interleave   *)
(* with the countdown (TestRunControl counts Seconds down once a pass).    *)
PassesWithinSeconds ==
  config.seconds >= 1 /\ ~config.stopOnError => passes <= config.seconds

(* When TestRunControl ends the loop because no Running flag is up, every  *)
(* thread was started and has left its transfer loop for good: the flags   *)
(* do the work of a join, and the buffers are freed under no transfer.     *)
NaturalEndIsJoined ==
  endedBy = "workers" => \A i \in Thread : wpc[i] \in {"finish", "done"}

(* After such an end the exit status tells of every error of every worker, *)
(* even of one that came after an error-free pass was displayed.           *)
NaturalEndReportsErrors ==
  mpc = "done" /\ endedBy = "workers" /\ status = "ok" =>
    \A i \in Thread : werr[i] = "ok"

(* Exit status 0 means data moved, and in every pass: a pass that reported *)
(* no byte fails the run for good (DisplayPassInfo), whatever came later.  *)
SuccessMeansData ==
  mpc = "done" /\ status = "ok" =>
    passes >= 1 /\ reported >= passes /\ transferred >= 1

(* At exit nothing is left allocated or open, on the paths that give up    *)
(* half-way through the setup too.                                         *)
NothingLeaks ==
  mpc = "done" => ~channel /\ \A i \in Thread : ~buffer[i]

(* "User requested application stop, shutting down" (ExpressoCli.cpp:88):  *)
(* without -e the loop sleeps at most once more after a Ctrl-C, whenever it*)
(* came, but for the one between the load and the store of --Seconds.      *)
InterruptHonoured ==
  mpc = "sleep" /\ interrupted /\ ~config.stopOnError => seconds = 1

(* Without -e and with -s at least 1 the command ends even when every      *)
(* worker stays in the driver for ever or never started.                   *)
TestEnds ==
  config.seconds >= 1 /\ ~config.stopOnError ~> mpc = "done"

-----------------------------------------------------------------------------
(* What a message of the program says and the code does not do.            *)

(* Option -e "Enables Stop on Error" (ExpressoCli.cpp:453): once the main  *)
(* thread has an error it does not go on to another pass.                  *)
ErrorStopsTest ==
  mpc = "sleep" /\ config.stopOnError => iPass = "ok"

=============================================================================
