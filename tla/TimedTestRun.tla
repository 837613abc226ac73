---------------------------- MODULE TimedTestRun ----------------------------
(***************************************************************************)
(* TestRun with time.  The commands never join their threads: they lower   *)
(* the Running flags and sleep, for StopSleep in TestRunControl and for    *)
(* ShutdownSleep in ShutdownTestThreads, and count on every transfer being *)
(* over by then.  Here a sleep lasts at least its duration, unless a       *)
(* signal cuts it short (Sleep is usleep on Linux), a transfer lasts at    *)
(* most MaxIo, and a worker's other steps take no time.                    *)
(***************************************************************************)
EXTENDS TestRun

CONSTANTS
  PassSleep,        \* Sleep(1000) of the statistics loop
  StopSleep,        \* Sleep(100) of TestRunControl
  ShutdownSleep,    \* Sleep(1000) of ShutdownTestThreads
  MaxIo,            \* longest time a read or write stays in the driver
  SignalsShutdown   \* may the user signal in the last two sleeps?

ASSUME DurationAssumption ==
  /\ PassSleep \in Nat
  /\ StopSleep \in Nat
  /\ ShutdownSleep \in Nat
  /\ MaxIo \in Nat
ASSUME SignalsAssumption == SignalsShutdown \in BOOLEAN

VARIABLES
  mainLeft,  \* least time the main thread still sleeps
  ioLeft     \* most time worker i's transfer still takes

tvars == <<vars, mainLeft, ioLeft>>

(* Mutant: ShutdownTestThreads without its Sleep(1000).                    *)
SleepTimeNoShutdown(pc) ==
  CASE pc = "sleep" -> PassSleep
    [] pc = "stopSleep" -> StopSleep
    [] OTHER -> 0

(* Mutant: Sleep passes its milliseconds to usleep as they are.            *)
SleepTimeMicro(pc) == 0

(* Mutant: TestRunControl without its Sleep(100).                          *)
SleepTimeNoStop(pc) ==
  CASE pc = "sleep" -> PassSleep
    [] pc = "shutSleep" -> ShutdownSleep
    [] OTHER -> 0

SleepTime(pc) ==
  CASE pc = "sleep" -> PassSleep
    [] pc = "stopSleep" -> StopSleep
    [] pc = "shutSleep" -> ShutdownSleep
    [] OTHER -> 0

TInit ==
  /\ Init
  /\ mainLeft = 0
  /\ ioLeft = [i \in Thread |-> 0]

(* A step of the main thread: out of a sleep only when it is over.         *)
TMain ==
  /\ Main
  /\ mainLeft = 0
  /\ mainLeft' = SleepTime(mpc')
  /\ UNCHANGED ioLeft

(* A worker's step: a transfer may end at any time up to its limit.        *)
TWorker(i) ==
  /\ Worker(i)
  /\ ioLeft' = [ioLeft EXCEPT ![i] = IF wpc'[i] = "io" THEN MaxIo ELSE 0]
  /\ UNCHANGED mainLeft

(* usleep returns early when the handler runs on the sleeping thread.      *)
SignalWakes == mainLeft' \in {mainLeft, 0}

TUserStop ==
  /\ UserStop
  /\ mpc \in {"stopSleep", "shutSleep"} => SignalsShutdown
  /\ SignalWakes
  /\ UNCHANGED ioLeft

Blocked(i) ==
  \/ wpc[i] \in {"none", "done"}
  \/ wpc[i] = "io" /\ ioLeft[i] > 0

Less(t) == IF t > 0 THEN t - 1 ELSE 0

Tick ==
  /\ mpc # "done"
  /\ \A i \in Thread : Blocked(i)
  /\ mainLeft' = Less(mainLeft)
  /\ ioLeft' = [i \in Thread |-> Less(ioLeft[i])]
  /\ UNCHANGED vars

TNext ==
  \/ TMain \/ TUserStop \/ Tick
  \/ \E i \in Thread : TWorker(i)
  \/ Terminated /\ UNCHANGED <<mainLeft, ioLeft>>

TSpec == TInit /\ [][TNext]_tvars

-----------------------------------------------------------------------------
TTypeOK ==
  /\ TypeOK
  /\ mainLeft \in Nat
  /\ ioLeft \in [Thread -> 0 .. MaxIo]

(* Main's clean-up and what follows it.                                    *)
Released == {"return", "done"}

(* No worker is left at work when its buffer is freed, its channel closed  *)
(* and the THREAD_PARAMS on the command's stack go away                    *)
(* (ShutdownTestThreads: "Allow time for the threads to shutdown").        *)
NoUseAfterFree ==
  mpc \in Released => \A i \in Thread : wpc[i] \notin Busy

(* When exit status is 0 no worker met an error, in the transfer it was in *)
(* when time ran out either (TestRunControl: "collect the result codes     *)
(* from each thread").                                                     *)
StatusReflectsErrors ==
  mpc = "done" /\ status = "ok" => \A i \in Thread : werr[i] = "ok"

(* The command implements the fork-join promise of JoinedTest.             *)
Phase ==
  CASE mpc \in {"parse", "alloc", "start"} -> "setup"
    [] mpc = "return" -> "released"
    [] mpc = "done" -> "over"
    [] OTHER -> "testing"

Joined == INSTANCE JoinedTest WITH
  phase <- Phase,
  active <- {i \in Thread : wpc[i] \in Busy},
  failed <- {i \in Thread : werr[i] # "ok"},
  good <- mpc = "done" /\ status = "ok"

ImplementsJoinedTest == Joined!Spec

=============================================================================
