-------------------------------- MODULE Fifo --------------------------------
(***************************************************************************)
(* What the two FIFO tests FIFOC2S and FIFOS2C have in common: one buffer  *)
(* for all the threads that the channel is put on, the traffic generator   *)
(* or checker of the board that is the other end, and a clean-up that      *)
(* stops that, drains the channel and takes it off the buffer.  What they  *)
(* share with the other commands is TestRun.  The actions here say nothing *)
(* of the packets, which FifoC2S and FifoS2C add.                          *)
(***************************************************************************)
EXTENDS TestRun

CONSTANT WindowsChoices  \* the builds: TRUE is WIN32, FALSE is Linux

ASSUME WindowsAssumption == WindowsChoices \subseteq BOOLEAN

VARIABLES
  windows,   \* the build
  fpc,       \* which part of "start", "sleep" or "free" the main thread is in
  fifoMode,  \* the channel is in FIFO mode, on params[0].Buffer
  traffic    \* the generator or checker of the channel is on

modeVars == <<windows, fpc, fifoMode, traffic>>

ModeInit ==
  /\ Init
  /\ windows \in WindowsChoices
  /\ fpc = "mode"
  /\ fifoMode = FALSE
  /\ traffic = FALSE

-----------------------------------------------------------------------------
(* Setting up.                                                             *)

(* Only params[0] has a buffer; the other threads share it.                *)
FAllocBuffer ==
  /\ mpc = "alloc"
  /\ \/ buffer' = [buffer EXCEPT ![1] = TRUE] /\ mpc' = "start" /\ UNCHANGED iPass
     \/ UNCHANGED buffer /\ mpc' = "shutdown" /\ iPass' = "memFailed"
  /\ UNCHANGED <<config, seconds, tmpSeconds, interrupted, stats, channel,
                 outcome, workerVars, modeVars>>

(* On a failure the command replaces the error code by errno, which only   *)
(* the Linux system calls set.                                             *)
GiveUp(errnoSet) ==
  /\ iPass' \in IF errnoSet THEN {"ioError"} ELSE {"ok", "ioError"}
  /\ mpc' = "shutdown"
  /\ UNCHANGED fpc

SetupMode ==
  /\ mpc = "start" /\ fpc = "mode"
  /\ \/ fifoMode' = TRUE /\ fpc' = "traffic" /\ UNCHANGED <<mpc, iPass>>
     \/ GiveUp(~windows) /\ UNCHANGED fifoMode
  /\ UNCHANGED <<config, seconds, tmpSeconds, interrupted, stats, resources,
                 outcome, workerVars, windows, traffic>>

(* SetupTrafficGenChk: two register writes; a failure may leave it on.  It *)
(* can also fail on the channel number, before any system call.            *)
SetupTraffic ==
  /\ mpc = "start" /\ fpc = "traffic"
  /\ \/ traffic' = TRUE /\ fpc' = "threads" /\ UNCHANGED <<mpc, iPass>>
     \/ GiveUp(FALSE) /\ traffic' \in BOOLEAN
  /\ UNCHANGED <<config, seconds, tmpSeconds, interrupted, stats, resources,
                 outcome, workerVars, windows, fifoMode>>

FStartThreads ==
  /\ fpc = "threads"
  /\ StartThreads
  /\ fpc' = "loop"
  /\ UNCHANGED <<windows, fifoMode, traffic>>

-----------------------------------------------------------------------------
(* Shutting down.                                                          *)

FWakeShutdown ==
  /\ WakeShutdown
  /\ fpc' = "stop"
  /\ UNCHANGED <<windows, fifoMode, traffic>>

(* SetupTrafficGenChk with Start = FALSE, its result ignored: it goes to   *)
(* the channel in TrafficCtrl, whatever the stack holds when it is not set.*)
StopTraffic ==
  /\ mpc = "free" /\ fpc = "stop"
  /\ traffic' \in {traffic, FALSE}
  /\ fpc' = IF buffer[1] THEN "drain" ELSE "unset"
  /\ UNCHANGED <<vars, windows, fifoMode>>

(* A call of a drain that gets nothing or fails is the last.               *)
DrainOver ==
  /\ mpc = "free" /\ fpc = "drain"
  /\ fpc' = "unset"
  /\ UNCHANGED <<vars, windows, fifoMode, traffic>>

(* Mutant: the result of the shutdown is dropped.                          *)
ModeErrorDropped == UNCHANGED iPass

ModeError == iPass' = "ioError"

(* ShutdownChannelMode; it fails if the channel was never opened.          *)
ShutdownMode ==
  /\ mpc = "free" /\ fpc = "unset"
  /\ \/ channel /\ fifoMode' = FALSE /\ UNCHANGED iPass
     \/ ModeError /\ UNCHANGED fifoMode
  /\ fpc' = "free"
  /\ UNCHANGED <<config, mpc, seconds, tmpSeconds, interrupted, stats,
                 resources, outcome, workerVars, windows, traffic>>

FRelease ==
  /\ fpc = "free"
  /\ Release
  /\ UNCHANGED modeVars

(* The steps of the main thread that touch no packet and are the same in   *)
(* both tests; the statistics loop goes on after fpc is "loop".            *)
ModeMain ==
  \/ FAllocBuffer \/ SetupMode \/ SetupTraffic \/ FStartThreads
  \/ FWakeShutdown \/ StopTraffic \/ DrainOver \/ FRelease
  \/ /\ \/ RejectSize \/ OpenChannel \/ CollectRead \/ CollectClear
        \/ DisplayPass \/ ErrorCheck \/ LoadSeconds \/ WakeStop \/ Gather
        \/ Shutdown \/ Exit
     /\ UNCHANGED modeVars

-----------------------------------------------------------------------------
(* The workers.                                                            *)

(* Without memory for its request the thread returns with its flag up.     *)
FBegin(i) ==
  /\ \E to \in {"check", "done"} : Go(i, "begin", to)
  /\ UNCHANGED <<running, total, transfer, modeVars>>

FCheckRunning(i) ==
  /\ CheckRunning(i)
  /\ UNCHANGED modeVars

FFinish(i) ==
  /\ Finish(i)
  /\ UNCHANGED modeVars

-----------------------------------------------------------------------------
ModeTypeOK ==
  /\ TypeOK
  /\ windows \in BOOLEAN
  /\ fpc \in {"mode", "traffic", "threads", "loop", "idle", "stop", "drain",
              "unset", "free"}
  /\ fifoMode \in BOOLEAN
  /\ traffic \in BOOLEAN

(* At exit the buffer is freed; if the channel is still in FIFO mode on it *)
(* the exit status says so.                                                *)
MappedIsReported ==
  mpc = "done" /\ fifoMode => status # "ok"

=============================================================================
