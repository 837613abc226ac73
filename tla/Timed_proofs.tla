---------------------------- MODULE Timed_proofs ----------------------------
(***************************************************************************)
(* Proofs about the tests with time: first what the DMA and loopback tests *)
(* have in common, and how long the sleeps have to be for the missing join *)
(* to do no harm, for every number of threads and every duration; then the *)
(* loopback test, for every block count, transfer size, duration and choice*)
(* of options, in both builds.                                             *)
(***************************************************************************)
EXTENDS Loopback, TestRun_proofs

(* A step with time is a step of TestRun, or leaves its variables alone.   *)
LEMMA TimedStep == [TNext]_tvars => [Next]_vars
  BY DEF TNext, tvars, TMain, TUserStop, Tick, TWorker, Next

LEMMA TimedTypeNext == TTypeOK /\ [TNext]_tvars => TTypeOK'
<1> SUFFICES ASSUME TTypeOK, [TNext]_tvars PROVE TTypeOK'
  OBVIOUS
<1>1. TypeOK'
  BY TimedStep, TypeNext DEF TTypeOK
<1>2. mainLeft' \in Nat /\ ioLeft' \in [Thread -> 0 .. MaxIo]
  <2> USE DEF TTypeOK
  <2>1. CASE TMain
    BY <2>1, DurationAssumption DEF TMain, SleepTime
  <2>2. ASSUME NEW i \in Thread, TWorker(i)
        PROVE  mainLeft' \in Nat /\ ioLeft' \in [Thread -> 0 .. MaxIo]
    BY <2>2, DurationAssumption DEF TWorker
  <2>3. CASE TUserStop
    BY <2>3 DEF TUserStop, SignalWakes
  <2>4. CASE Tick
    BY <2>4, DurationAssumption DEF Tick, Less
  <2>5. CASE UNCHANGED <<mainLeft, ioLeft>>
    BY <2>5
  <2> QED
    BY <2>1, <2>2, <2>3, <2>4, <2>5 DEF TNext, tvars
<1> QED
  BY <1>1, <1>2 DEF TTypeOK

LEMMA TimedInit == TInit => TTypeOK /\ JoinInv /\ ReportInv
<1>1. TInit => TypeOK
  BY TypeInit DEF TInit
<1> QED
  BY <1>1, DurationAssumption
     DEF TInit, Init, TTypeOK, JoinInv, ReportInv, Setup, Looping, OutOfLoop

(* Every variable of the timed model keeps its type.                       *)
THEOREM TimedTypeCorrect == TSpec => []TTypeOK
<1> QED
  BY TimedInit, TimedTypeNext, PTL DEF TSpec

(* What TestRun never loses, it does not lose with time either.            *)
LEMMA TimedJoin == TSpec => []JoinInv
<1>1. TTypeOK /\ JoinInv /\ [TNext]_tvars => JoinInv'
  BY TimedStep, JoinNext DEF TTypeOK
<1> QED
  BY <1>1, TimedInit, TimedTypeCorrect, PTL DEF TSpec

LEMMA TimedReport == TSpec => []ReportInv
<1>1. TTypeOK /\ JoinInv /\ ReportInv /\ [TNext]_tvars => ReportInv'
  BY TimedStep, ReportNext DEF TTypeOK
<1> QED
  BY <1>1, TimedInit, TimedTypeCorrect, TimedJoin, PTL DEF TSpec

-----------------------------------------------------------------------------
(* A worker still at work will be through before the sleep of main ends.   *)
Draining(i) == ~running[i] /\ (wpc[i] \in Busy => ioLeft[i] < mainLeft)

(* Draining is kept as long as main sleeps on with its flags down: by the  *)
(* worker itself, by the other workers and by time.                        *)
LEMMA DrainingKept ==
  ASSUME TTypeOK, NEW j \in Thread, Draining(j),
         Tick \/ \E i \in Thread : TWorker(i)
  PROVE  Draining(j)'
<1>1. ioLeft[j] \in Nat /\ mainLeft \in Nat
  BY DurationAssumption DEF TTypeOK
<1>2. CASE Tick
  <2>1. running' = running /\ wpc' = wpc
    BY <1>2 DEF Tick, vars, workerVars
  <2>2. mainLeft' = Less(mainLeft) /\ ioLeft'[j] = Less(ioLeft[j])
    BY <1>2 DEF Tick
  <2>3. wpc[j] \in Busy => ioLeft[j] > 0
    BY <1>2 DEF Tick, Blocked, Busy
  <2> QED
    BY <1>1, <2>1, <2>2, <2>3 DEF Draining, Less
<1>3. ASSUME NEW i \in Thread, TWorker(i) PROVE Draining(j)'
  <2>1. mainLeft' = mainLeft
    BY <1>3 DEF TWorker
  <2>2. CASE i # j
    <3>1. wpc'[j] = wpc[j] /\ running'[j] = running[j]
      BY <1>3, <2>2 DEF TTypeOK, TypeOK, MainTypeOK, TWorker, Worker, Begin, CheckRunning,
                        IoOk, IoFail, LoadTotal, Account, Finish, Go
    <3>2. ioLeft'[j] = ioLeft[j]
      BY <1>3, <2>2 DEF TTypeOK, TWorker
    <3> QED
      BY <2>1, <3>1, <3>2 DEF Draining
  <2>3. CASE i = j
    <3>1. wpc[j] \in Busy /\ ~running'[j] /\ wpc'[j] # "io"
      BY <1>3, <2>3 DEF TTypeOK, TypeOK, MainTypeOK, TWorker, Worker, Begin, CheckRunning,
                        IoOk, IoFail, LoadTotal, Account, Finish, Go, Busy,
                        Draining
    <3>2. ioLeft'[j] = 0
      BY <1>3, <2>3, <3>1 DEF TTypeOK, TWorker
    <3> QED
      BY <1>1, <2>1, <3>1, <3>2 DEF Draining
  <2> QED
    BY <2>2, <2>3
<1> QED
  BY <1>2, <1>3

(* A worker that is not at work does nothing.                              *)
LEMMA IdleKept ==
  ASSUME TTypeOK, NEW i \in Thread, TWorker(i),
         NEW j \in Thread, wpc[j] \notin Busy
  PROVE  wpc'[j] = wpc[j] /\ werr'[j] = werr[j]
  BY DEF TTypeOK, TypeOK, MainTypeOK, TWorker, Worker, Begin, CheckRunning, IoOk, IoFail,
         LoadTotal, Account, Finish, Go, Busy, transfer

(* A worker's step leaves the main thread where it is.                     *)
LEMMA WorkerKeepsMain ==
  ASSUME NEW i \in Thread, TWorker(i)
  PROVE  UNCHANGED <<mpc, iPass, endedBy, status>>
  BY DEF TWorker, Worker, Begin, CheckRunning, IoOk, IoFail, LoadTotal,
         Account, Finish, Go, mainState, outcome

-----------------------------------------------------------------------------
(* Through the sleep of ShutdownTestThreads and after it.                  *)
ShutdownInv ==
  /\ mpc = "shutSleep" => \A i \in Thread : Draining(i)
  /\ mpc \in {"free", "return", "done"} => \A i \in Thread : wpc[i] \notin Busy

LEMMA ShutdownNext ==
  ASSUME MaxIo < ShutdownSleep, ~SignalsShutdown,
         TTypeOK, JoinInv, ShutdownInv, [TNext]_tvars
  PROVE  ShutdownInv'
<1>1. CASE TMain
  <2> USE <1>1 DEF TMain, ShutdownInv, Setup, JoinInv, Busy, stats, resources, outcome, transfer, workerVars
  <2>1. CASE RejectSize
    BY <2>1 DEF RejectSize
  <2>2. CASE OpenChannel
    BY <2>2 DEF OpenChannel
  <2>3. CASE AllocBuffers
    BY <2>3 DEF AllocBuffers
  <2>4. CASE StartThreads
    BY <2>4 DEF StartThreads
  <2>5. CASE WakePass
    BY <2>5 DEF WakePass
  <2>6. CASE CollectRead
    BY <2>6 DEF CollectRead, Collected
  <2>7. CASE CollectClear
    BY <2>7 DEF CollectClear
  <2>8. CASE DisplayPass
    BY <2>8 DEF DisplayPass
  <2>9. CASE ErrorCheck
    BY <2>9 DEF ErrorCheck
  <2>10. CASE LoadSeconds
    BY <2>10 DEF LoadSeconds
  <2>11. CASE StoreSeconds
    BY <2>11 DEF StoreSeconds
  <2>12. CASE WakeStop
    BY <2>12 DEF WakeStop
  <2>13. CASE Gather
    BY <2>13 DEF Gather
  <2>14. CASE Shutdown
    <3>1. mpc' = "shutSleep" /\ mainLeft' = ShutdownSleep /\ ioLeft' = ioLeft
      BY <2>14 DEF Shutdown, SleepTime
    <3>2. \A i \in Thread : ~running'[i]
      BY <2>14 DEF Shutdown, ClearFlags
    <3>3. \A i \in Thread : ioLeft[i] < ShutdownSleep
      BY DurationAssumption DEF TTypeOK
    <3> QED
      BY <3>1, <3>2, <3>3 DEF Draining
  <2>15. CASE WakeShutdown
    <3>1. mpc = "shutSleep" /\ mpc' = "free" /\ wpc' = wpc /\ mainLeft = 0
      BY <2>15 DEF WakeShutdown
    <3>2. \A i \in Thread : ioLeft[i] >= 0
      BY DurationAssumption DEF TTypeOK
    <3>3. \A i \in Thread : Draining(i)
      BY <3>1
    <3>4. \A i \in Thread : wpc[i] \notin Busy
      <4>1. SUFFICES ASSUME NEW i \in Thread, wpc[i] \in Busy PROVE FALSE
        OBVIOUS
      <4>2. ioLeft[i] < mainLeft /\ ioLeft[i] >= 0 /\ ioLeft[i] \in Int
        BY <3>2, <3>3, <4>1, DurationAssumption DEF Draining, TTypeOK
      <4> QED
        BY <3>1, <4>2
    <3> QED
      BY <3>1, <3>4
  <2>16. CASE Release
    BY <2>16 DEF Release
  <2>17. CASE Exit
    BY <2>17 DEF Exit
  <2> QED
    BY <2>1, <2>2, <2>3, <2>4, <2>5, <2>6, <2>7, <2>8,
       <2>9, <2>10, <2>11, <2>12, <2>13, <2>14, <2>15, <2>16, <2>17
       DEF Main
<1>2. ASSUME NEW i \in Thread, TWorker(i) PROVE ShutdownInv'
  <2>1. mpc' = mpc
    BY <1>2, WorkerKeepsMain
  <2>2. mpc = "shutSleep" => \A j \in Thread : Draining(j)'
    BY <1>2, DrainingKept DEF ShutdownInv
  <2>3. mpc \in {"free", "return", "done"}
          => \A j \in Thread : wpc'[j] \notin Busy
    BY <1>2, IdleKept DEF ShutdownInv
  <2> QED
    BY <2>1, <2>2, <2>3 DEF ShutdownInv
<1>3. CASE TUserStop
  <2>1. mpc # "shutSleep" /\ mpc' = mpc /\ wpc' = wpc
    BY <1>3 DEF TUserStop, UserStop, workerVars
  <2> QED
    BY <2>1 DEF ShutdownInv
<1>4. CASE Tick
  <2>1. mpc' = mpc /\ wpc' = wpc
    BY <1>4 DEF Tick, vars, workerVars
  <2>2. mpc = "shutSleep" => \A j \in Thread : Draining(j)'
    BY <1>4, DrainingKept DEF ShutdownInv
  <2> QED
    BY <2>1, <2>2 DEF ShutdownInv
<1>5. CASE UNCHANGED tvars
  BY <1>5 DEF tvars, vars, workerVars, ShutdownInv, Draining
<1> QED
  BY <1>1, <1>2, <1>3, <1>4, <1>5 DEF TNext, Terminated, tvars

(* No thread is left at work on what the command frees, if every transfer  *)
(* is shorter than ShutdownTestThreads's sleep and no signal cuts it short.*)
THEOREM NoUseAfterFreeCorrect ==
  ASSUME MaxIo < ShutdownSleep, ~SignalsShutdown
  PROVE  TSpec => []NoUseAfterFree
<1>1. TInit => ShutdownInv
  BY DEF TInit, Init, ShutdownInv
<1>2. TTypeOK /\ JoinInv /\ ShutdownInv /\ [TNext]_tvars => ShutdownInv'
  BY ShutdownNext
<1>3. ShutdownInv => NoUseAfterFree
  BY DEF ShutdownInv, NoUseAfterFree, Released
<1> QED
  BY <1>1, <1>2, <1>3, TimedTypeCorrect, TimedJoin, PTL DEF TSpec

-----------------------------------------------------------------------------
(* Through the sleep of TestRunControl and after it.  Past it the results  *)
(* gathered are final; on the paths that start no thread there are none.   *)
StopInv ==
  /\ mpc = "stopSleep" => endedBy = "timeout" /\ \A i \in Thread : Draining(i)
  /\ endedBy = "timeout" /\ mpc # "stopSleep" => \A i \in Thread : wpc[i] \notin Busy
  /\ endedBy = "timeout" /\ iPass = "ok"
       /\ mpc \in {"shutdown", "shutSleep", "free", "return", "done"}
       => \A i \in Thread : werr[i] = "ok"
  /\ mpc \in Setup \/ (endedBy = "running" /\ mpc \notin Looping)
       => \A i \in Thread : wpc[i] = "none" /\ werr[i] = "ok"

LEMMA StopNext ==
  ASSUME MaxIo < StopSleep, ~SignalsShutdown,
         TTypeOK, JoinInv, StopInv, [TNext]_tvars
  PROVE  StopInv'
<1>1. CASE TMain
  <2> USE <1>1 DEF TMain, StopInv, Setup, Looping, JoinInv, Busy, stats, resources, outcome, transfer, workerVars
  <2>1. CASE RejectSize
    BY <2>1 DEF RejectSize
  <2>2. CASE OpenChannel
    BY <2>2 DEF OpenChannel
  <2>3. CASE AllocBuffers
    BY <2>3 DEF AllocBuffers
  <2>4. CASE StartThreads
    BY <2>4 DEF StartThreads
  <2>5. CASE WakePass
    BY <2>5 DEF WakePass
  <2>6. CASE CollectRead
    BY <2>6 DEF CollectRead, Collected
  <2>7. CASE CollectClear
    BY <2>7 DEF CollectClear
  <2>8. CASE DisplayPass
    BY <2>8 DEF DisplayPass, PassResult
  <2>9. CASE ErrorCheck
    BY <2>9 DEF ErrorCheck
  <2>10. CASE LoadSeconds
    BY <2>10 DEF LoadSeconds
  <2>11. CASE StoreSeconds
    <3>1. endedBy = "running" /\ mpc' \in {"stopSleep", "sleep", "gather"}
      BY <2>11 DEF StoreSeconds
    <3>2. CASE mpc' = "stopSleep"
      <4>1. /\ endedBy' = "timeout" /\ mainLeft' = StopSleep /\ ioLeft' = ioLeft
            /\ \A i \in Thread : ~running'[i]
        BY <2>11, <3>2 DEF StoreSeconds, ClearFlags, SleepTime
      <4>2. \A i \in Thread : ioLeft[i] < StopSleep
        BY DurationAssumption DEF TTypeOK
      <4>3. \A i \in Thread : Draining(i)'
        BY <4>1, <4>2 DEF Draining
      <4> QED
        BY <3>2, <4>1, <4>3
    <3>3. CASE mpc' = "sleep" /\ endedBy' = "running"
      BY <3>3
    <3>4. CASE mpc' = "gather" /\ endedBy' = "workers"
      BY <3>4
    <3> QED
      BY <2>11, <3>1, <3>2, <3>3, <3>4 DEF StoreSeconds
  <2>12. CASE WakeStop
    <3>1. /\ mpc = "stopSleep" /\ mpc' = "gather" /\ mainLeft = 0
          /\ UNCHANGED <<wpc, werr, iPass, endedBy>>
      BY <2>12 DEF WakeStop
    <3>2. \A i \in Thread : wpc[i] \notin Busy
      <4>1. SUFFICES ASSUME NEW i \in Thread, wpc[i] \in Busy PROVE FALSE
        OBVIOUS
      <4>2. ioLeft[i] < mainLeft /\ ioLeft[i] \in Nat
        BY <3>1, <4>1, DurationAssumption DEF Draining, TTypeOK
      <4> QED
        BY <3>1, <4>2
    <3> QED
      BY <3>1, <3>2
  <2>13. CASE Gather
    BY <2>13 DEF Gather, GatheredCode
  <2>14. CASE Shutdown
    BY <2>14 DEF Shutdown, ClearFlags
  <2>15. CASE WakeShutdown
    BY <2>15 DEF WakeShutdown
  <2>16. CASE Release
    BY <2>16 DEF Release
  <2>17. CASE Exit
    BY <2>17 DEF Exit
  <2> QED
    BY <2>1, <2>2, <2>3, <2>4, <2>5, <2>6, <2>7, <2>8,
       <2>9, <2>10, <2>11, <2>12, <2>13, <2>14, <2>15, <2>16, <2>17
       DEF Main
<1>2. ASSUME NEW i \in Thread, TWorker(i) PROVE StopInv'
  <2>1. UNCHANGED <<mpc, iPass, endedBy>>
    BY <1>2, WorkerKeepsMain
  <2>2. mpc = "stopSleep" => \A j \in Thread : Draining(j)'
    BY <1>2, DrainingKept DEF StopInv
  <2>3. \A j \in Thread :
          wpc[j] \notin Busy => wpc'[j] = wpc[j] /\ werr'[j] = werr[j]
    BY <1>2, IdleKept
  <2> QED
    BY <2>1, <2>2, <2>3 DEF StopInv, Setup, Looping, Busy
<1>3. CASE TUserStop
  <2>1. mpc # "stopSleep" /\ UNCHANGED <<mpc, wpc, werr, iPass, endedBy>>
    BY <1>3 DEF TUserStop, UserStop, outcome, workerVars, transfer
  <2> QED
    BY <2>1 DEF StopInv
<1>4. CASE Tick
  <2>1. UNCHANGED <<mpc, wpc, werr, iPass, endedBy>>
    BY <1>4 DEF Tick, vars, outcome, workerVars, transfer
  <2>2. mpc = "stopSleep" => \A j \in Thread : Draining(j)'
    BY <1>4, DrainingKept DEF StopInv
  <2> QED
    BY <2>1, <2>2 DEF StopInv
<1>5. CASE UNCHANGED tvars
  BY <1>5 DEF tvars, vars, workerVars, outcome, transfer, StopInv, Draining
<1> QED
  BY <1>1, <1>2, <1>3, <1>4, <1>5 DEF TNext, Terminated, tvars

LEMMA StopInit == TInit => StopInv /\ ShutdownInv
  BY DEF TInit, Init, StopInv, ShutdownInv, Setup, Looping, Busy

LEMMA StatusFromInv ==
  JoinInv /\ ReportInv /\ StopInv /\ TTypeOK => StatusReflectsErrors
<1> SUFFICES ASSUME JoinInv, ReportInv, StopInv, TTypeOK,
                    mpc = "done", status = "ok"
             PROVE  \A i \in Thread : werr[i] = "ok"
  BY DEF StatusReflectsErrors
<1>1. iPass = "ok"
  BY DEF ReportInv
<1>2. CASE endedBy = "workers"
  BY <1>1, <1>2 DEF ReportInv
<1>3. CASE endedBy = "timeout"
  BY <1>1, <1>3 DEF StopInv
<1>4. CASE endedBy = "running"
  BY <1>4 DEF StopInv, Looping, Setup
<1> QED
  BY <1>2, <1>3, <1>4 DEF TTypeOK, TypeOK, MainTypeOK

(* The exit status tells of every worker's error, if every transfer is     *)
(* shorter than TestRunControl's sleep and no signal cuts it short.        *)
THEOREM StatusCorrect ==
  ASSUME MaxIo < StopSleep, ~SignalsShutdown
  PROVE  TSpec => []StatusReflectsErrors
<1>1. TTypeOK /\ JoinInv /\ StopInv /\ [TNext]_tvars => StopInv'
  BY StopNext
<1> QED
  BY <1>1, StopInit, StatusFromInv, TimedTypeCorrect, TimedJoin, TimedReport,
     PTL DEF TSpec

-----------------------------------------------------------------------------
(* A worker's step is the abstract thread failing, leaving or doing nothing.*)
LEMMA WorkerRefines ==
  ASSUME TTypeOK, NEW i \in Thread, TWorker(i)
  PROVE  [Joined!Next]_(Joined!jvars)
<1> DEFINE active == {j \in Thread : wpc[j] \in Busy}
           failed == {j \in Thread : werr[j] # "ok"}
<1>1. UNCHANGED <<mpc, status>>
  BY WorkerKeepsMain
<1>2. UNCHANGED <<Phase, mpc = "done" /\ status = "ok">>
  BY <1>1 DEF Phase
<1>3. i \in active
  BY DEF TWorker, Worker, Begin, CheckRunning, IoOk, IoFail, LoadTotal, Account,
         Finish, Go, Busy
<1>4. CASE IoFail(i)
  <2>1. active' = active
    BY <1>4 DEF TTypeOK, TypeOK, MainTypeOK, IoFail, Go, Busy
  <2>2. failed' = failed \cup {i}
    BY <1>4 DEF TTypeOK, TypeOK, MainTypeOK, IoFail
  <2>3. Joined!Fail(i)
    BY <1>2, <1>3, <2>1, <2>2 DEF Joined!Fail
  <2> QED
    BY <2>3 DEF Joined!Next
<1>5. CASE Finish(i)
  <2>1. active' = active \ {i}
    BY <1>5 DEF TTypeOK, TypeOK, MainTypeOK, Finish, Go, Busy
  <2>2. failed' = failed
    BY <1>5 DEF Finish, transfer
  <2>3. Joined!Leave(i)
    BY <1>2, <1>3, <2>1, <2>2 DEF Joined!Leave
  <2> QED
    BY <2>3 DEF Joined!Next
<1>6. CASE Begin(i) \/ CheckRunning(i) \/ IoOk(i) \/ LoadTotal(i) \/ Account(i)
  <2>1. active' = active
    BY <1>6 DEF TTypeOK, TypeOK, MainTypeOK, Begin, CheckRunning, IoOk, LoadTotal, Account,
                Go, Busy
  <2>2. failed' = failed
    BY <1>6 DEF Begin, CheckRunning, IoOk, LoadTotal, Account, transfer
  <2> QED
    BY <1>2, <2>1, <2>2 DEF Joined!jvars
<1> QED
  BY <1>4, <1>5, <1>6 DEF TWorker, Worker

(* A step of the main thread launches, releases, judges or does nothing.   *)
LEMMA MainRefines ==
  ASSUME TTypeOK, JoinInv, ShutdownInv, StopInv, StatusReflectsErrors', Main
  PROVE  [Joined!Next]_(Joined!jvars)
<1> DEFINE active == {j \in Thread : wpc[j] \in Busy}
           failed == {j \in Thread : werr[j] # "ok"}
           good == mpc = "done" /\ status = "ok"
<1> USE DEF stats, resources, outcome, transfer, workerVars
<1>1. CASE RejectSize
  <2>1. /\ Phase = "setup" /\ Phase' = "released" /\ good' = good
        /\ active = {} /\ active' = {} /\ failed' = failed
    BY <1>1 DEF RejectSize, Phase, JoinInv, Setup, Busy
  <2> QED
    BY <2>1 DEF Joined!Next, Joined!Release
<1>2. CASE OpenChannel \/ AllocBuffers
  <2>1. /\ Phase = "setup" /\ Phase' \in {"setup", "testing"} /\ good' = good
        /\ active = {} /\ active' = {} /\ failed' = failed
    BY <1>2 DEF OpenChannel, AllocBuffers, Phase, JoinInv, Setup, Busy
  <2> QED
    BY <2>1 DEF Joined!Next, Joined!Launch, Joined!jvars
<1>3. CASE StartThreads
  <2>1. /\ Phase = "setup" /\ Phase' = "testing" /\ good' = good
        /\ active' \in SUBSET Thread /\ failed' = failed
    BY <1>3 DEF StartThreads, Phase
  <2> QED
    BY <2>1 DEF Joined!Next, Joined!Launch
<1>4. CASE Release
  <2>1. /\ Phase = "testing" /\ Phase' = "released" /\ good' = good
        /\ active = {} /\ active' = {} /\ failed' = failed
    BY <1>4 DEF Release, Phase, ShutdownInv
  <2> QED
    BY <2>1 DEF Joined!Next, Joined!Release
<1>5. CASE Exit
  <2>1. /\ Phase = "released" /\ Phase' = "over"
        /\ active' = active /\ failed' = failed
    BY <1>5 DEF Exit, Phase
  <2>2. good' \in BOOLEAN /\ (failed # {} => ~good')
    BY <2>1 DEF StatusReflectsErrors
  <2> QED
    BY <2>1, <2>2 DEF Joined!Next, Joined!Judge
<1>6. CASE \/ WakePass \/ CollectRead \/ CollectClear \/ DisplayPass
           \/ ErrorCheck \/ LoadSeconds \/ StoreSeconds \/ WakeStop
           \/ Gather \/ Shutdown \/ WakeShutdown
  <2>1. Phase = "testing" /\ Phase' = "testing" /\ good' = good
    BY <1>6 DEF WakePass, CollectRead, Collected, CollectClear, DisplayPass, ErrorCheck,
                LoadSeconds, StoreSeconds, WakeStop, Gather, Shutdown,
                WakeShutdown, Phase
  <2>2. wpc' = wpc /\ werr' = werr
    BY <1>6 DEF WakePass, CollectRead, Collected, CollectClear, DisplayPass, ErrorCheck,
                LoadSeconds, StoreSeconds, WakeStop, Gather, Shutdown,
                WakeShutdown
  <2> QED
    BY <2>1, <2>2 DEF Joined!jvars
<1> QED
  BY <1>1, <1>2, <1>3, <1>4, <1>5, <1>6 DEF Main

LEMMA StepRefines ==
  TTypeOK /\ JoinInv /\ ShutdownInv /\ StopInv /\ StatusReflectsErrors'
    /\ [TNext]_tvars => [Joined!Next]_(Joined!jvars)
<1> SUFFICES ASSUME TTypeOK, JoinInv, ShutdownInv, StopInv,
                    StatusReflectsErrors', [TNext]_tvars
             PROVE  [Joined!Next]_(Joined!jvars)
  OBVIOUS
<1>1. CASE TMain
  BY <1>1, MainRefines DEF TMain
<1>2. ASSUME NEW i \in Thread, TWorker(i) PROVE [Joined!Next]_(Joined!jvars)
  BY <1>2, WorkerRefines
<1>3. CASE UNCHANGED <<mpc, wpc, werr, status>>
  BY <1>3 DEF Joined!jvars, Phase
<1>4. TUserStop \/ Tick \/ Terminated \/ UNCHANGED tvars
        => UNCHANGED <<mpc, wpc, werr, status>>
  BY DEF TUserStop, UserStop, Tick, Terminated, tvars, vars, outcome,
         workerVars, transfer
<1> QED
  BY <1>1, <1>2, <1>3, <1>4 DEF TNext

(* The command keeps the promise of JoinedTest without a join, if every    *)
(* transfer is shorter than both of the sleeps that stand in for it and no *)
(* signal cuts these short.                                                *)
THEOREM RefinesJoinedTest ==
  ASSUME MaxIo < StopSleep, MaxIo < ShutdownSleep, ~SignalsShutdown
  PROVE  TSpec => ImplementsJoinedTest
<1>1. TInit => Joined!Init
  BY DEF TInit, Init, Joined!Init, Phase, Busy
<1>2. TTypeOK /\ JoinInv /\ StopInv /\ [TNext]_tvars => StopInv'
  BY StopNext
<1>3. TTypeOK /\ JoinInv /\ ShutdownInv /\ [TNext]_tvars => ShutdownInv'
  BY ShutdownNext
<1> QED
  BY <1>1, <1>2, <1>3, StopInit, StepRefines, StatusFromInv, TimedTypeCorrect,
     TimedJoin, TimedReport, PTL
     DEF TSpec, ImplementsJoinedTest, Joined!Spec

-----------------------------------------------------------------------------
(* The loopback test, which has one thread.                                *)
USE OneThreadAssumption

LEMMA TheThread == Thread = {1}
  BY DEF Thread

(* A step is one of the main thread, of the worker, or one that the other  *)
(* timed tests can take too.                                               *)
LEMMA LStepCases ==
  ASSUME [LNext]_lvars
  PROVE  LTMain \/ LTWorker \/ ([TNext]_tvars /\ UNCHANGED added)
  BY DEF LNext, lvars, TNext

-----------------------------------------------------------------------------
(* The parts of LTypeOK that Loopback adds: truth values, and the others.  *)
LFlagsOK ==
  /\ readChannel \in BOOLEAN
  /\ writeBuffer \in BOOLEAN
  /\ wRunning \in BOOLEAN
  /\ windows \in BOOLEAN
  /\ differed \in BOOLEAN

LDataOK ==
  /\ side \in {"write", "read"}
  /\ statSide \in {"write", "read"}
  /\ wTotal \in Nat
  /\ wErr \in Code
  /\ bytesRead \in 0 .. MaxBytes

AddedTypeOK == LFlagsOK /\ LDataOK

LEMMA LTypeParts == LTypeOK <=> TTypeOK /\ AddedTypeOK
  BY DEF LTypeOK, AddedTypeOK, LFlagsOK, LDataOK

LEMMA LTypeMade == TTypeOK' /\ AddedTypeOK' => LTypeOK'
  BY DEF LTypeOK, AddedTypeOK, LFlagsOK, LDataOK

LEMMA AddedKept == AddedTypeOK /\ UNCHANGED added => AddedTypeOK'
  BY DEF AddedTypeOK, LFlagsOK, LDataOK, added, setupState, writeState, hostState

LEMMA LTypeInit == LInit => LTypeOK
<1> SUFFICES ASSUME LInit PROVE LTypeOK
  OBVIOUS
<1>1. TTypeOK
  BY TimedInit DEF LInit
<1>2. LFlagsOK
  BY DEF LInit, LFlagsOK
<1>3. LDataOK
  BY MaxBytesAssumption DEF LInit, LDataOK, Code
<1> QED
  BY <1>1, <1>2, <1>3, LTypeParts DEF AddedTypeOK

LEMMA LMainType == LTypeOK /\ LMain => MainTypeOK' /\ AddedTypeOK'
<1> SUFFICES ASSUME LTypeOK, LMain PROVE MainTypeOK' /\ AddedTypeOK'
  OBVIOUS
<1>0. MainTypeOK /\ AddedTypeOK /\ LFlagsOK /\ LDataOK
  BY LTypeParts DEF TTypeOK, TypeOK, AddedTypeOK
<1>1. CASE Shared
  <2>1. Main /\ UNCHANGED added
    BY <1>1 DEF Shared, Main
  <2> QED
    BY <1>0, <2>1, MainTypeNext, AddedKept
<1> USE DEF stats, resources, outcome, transfer, workerVars
<1>2. CASE LOpenChannels
  <2>1. /\ channel' \in BOOLEAN
        /\ readChannel' \in BOOLEAN
    BY <1>0, <1>2 DEF LOpenChannels
  <2>2. mpc' \in {"alloc", "shutdown"} /\ iPass' \in Code
    BY <1>0, <1>2 DEF LOpenChannels, MainTypeOK, Code
  <2>3. MainTypeOK'
    BY <1>0, <1>2, <2>1, <2>2 DEF LOpenChannels, MainTypeOK, Sleeping, Code
  <2>4. LFlagsOK' /\ LDataOK'
    <3>1. LFlagsOK'
      BY <1>0, <1>2, <2>1 DEF LOpenChannels, LFlagsOK, writeState, hostState
    <3>2. LDataOK'
      BY <1>0, <1>2 DEF LOpenChannels, LDataOK, writeState, hostState
    <3> QED
      BY <3>1, <3>2
  <2> QED
    BY <2>3, <2>4 DEF AddedTypeOK
<1>3. CASE LAllocBuffers
  <2>1. buffer' \in [Thread -> BOOLEAN] /\ buffer'[1] \in BOOLEAN
    BY <1>3, TheThread DEF LAllocBuffers
  <2>2. writeBuffer' \in BOOLEAN
    BY <1>3, <2>1 DEF LAllocBuffers
  <2>3. mpc' \in {"start", "shutdown"} /\ iPass' \in Code
    BY <1>0, <1>3 DEF LAllocBuffers, MainTypeOK, Code
  <2>4. MainTypeOK'
    BY <1>0, <1>3, <2>1, <2>3 DEF LAllocBuffers, MainTypeOK, Sleeping, Code
  <2>5. LFlagsOK'
    BY <1>0, <1>3, <2>2 DEF LAllocBuffers, LFlagsOK, writeState, hostState
  <2>6. LDataOK'
    BY <1>0, <1>3 DEF LAllocBuffers, LDataOK, writeState, hostState
  <2> QED
    BY <2>4, <2>5, <2>6 DEF AddedTypeOK
<1>4. CASE LStartThread
  <2>1. MainTypeOK'
    BY <1>0, <1>4 DEF LStartThread, MainTypeOK, Sleeping, Code
  <2> QED
    BY <1>0, <1>4, <2>1, AddedKept DEF LStartThread
<1>5. CASE LCollectRead
  <2>1. passBytes' \in Nat
    BY <1>0, <1>5, TheThread DEF LCollectRead, MainTypeOK, LDataOK
  <2>2. MainTypeOK'
    BY <1>0, <1>5, <2>1 DEF LCollectRead, MainTypeOK, Sleeping, Code
  <2> QED
    BY <1>0, <1>5, <2>2, AddedKept DEF LCollectRead
<1>6. CASE LCollectClear
  <2>1. MainTypeOK'
    BY <1>0, <1>6 DEF LCollectClear, MainTypeOK, Sleeping, Code
  <2>2. LFlagsOK'
    BY <1>0, <1>6 DEF LCollectClear, LFlagsOK, setupState, hostState
  <2>3. LDataOK'
    BY <1>0, <1>6 DEF LCollectClear, LDataOK, hostState
  <2> QED
    BY <2>1, <2>2, <2>3 DEF AddedTypeOK
<1>7. CASE LRelease
  <2>1. buffer' \in [Thread -> BOOLEAN] /\ channel' \in BOOLEAN /\ readChannel' \in BOOLEAN
    BY <1>7 DEF LRelease, FreeBuffers, CloseChannels
  <2>2. MainTypeOK'
    <3>1. /\ mpc' = "return"
          /\ UNCHANGED <<config, seconds, tmpSeconds, iPass, interrupted, stats,
                         outcome, workerVars>>
      BY <1>7 DEF LRelease
    <3> QED
      BY <1>0, <2>1, <3>1 DEF MainTypeOK, Sleeping, Code
  <2>3. LFlagsOK'
    BY <1>0, <1>7, <2>1 DEF LRelease, LFlagsOK, writeState, hostState
  <2>4. LDataOK'
    BY <1>0, <1>7 DEF LRelease, LDataOK, writeState, hostState
  <2> QED
    BY <2>2, <2>3, <2>4 DEF AddedTypeOK
<1> QED
  BY <1>1, <1>2, <1>3, <1>4, <1>5, <1>6, <1>7 DEF LMain

LEMMA LWorkerType ==
  ASSUME LTypeOK, LWorker
  PROVE  MainTypeOK' /\ AddedTypeOK' /\ wpc' \in [Thread -> Busy \cup {"none", "done"}]
<1>0. /\ MainTypeOK /\ LFlagsOK /\ LDataOK
      /\ wpc \in [Thread -> Busy \cup {"none", "done"}]
  BY LTypeParts DEF TTypeOK, TypeOK, AddedTypeOK
<1> USE DEF LWorker, LBegin, LIoOk, LIoAtOnce, LWriteFail, LReadFail,
            LLoadTotal, LAccountWrite, LAccountRead, LCheck, LFinish, transfer
<1>1. wpc' \in [Thread -> Busy \cup {"none", "done"}]
  <2>1. \E from \in {"begin", "io", "load", "account", "check", "finish"},
           to \in {"io", "load", "account", "check", "finish", "done"} : Go(1, from, to)
    OBVIOUS
  <2> QED
    BY <1>0, <2>1 DEF Go, Busy
<1>2. UNCHANGED mainState
  BY DEF Go
<1>3. left' \in [Thread -> Int]
  BY <1>0 DEF MainTypeOK
<1>4. running' \in [Thread -> BOOLEAN]
  BY <1>0 DEF MainTypeOK
<1>5. werr' \in [Thread -> Code]
  BY <1>0, TheThread DEF MainTypeOK, Compared, Code
<1>6. moved' \in [Thread -> 0 .. MaxBytes]
  BY <1>0, MaxBytesAssumption DEF MainTypeOK, LDataOK
<1>7. total[1] \in Nat /\ tmpTotal[1] \in Nat /\ moved[1] \in Nat
  BY <1>0, TheThread, MaxBytesAssumption DEF MainTypeOK
<1>8. total' \in [Thread -> Nat] /\ tmpTotal' \in [Thread -> Nat] /\ transferred' \in Nat
  <2>1. total' \in [Thread -> Nat]
    BY <1>0, <1>7 DEF MainTypeOK
  <2>2. tmpTotal' \in [Thread -> Nat]
    BY <1>0, <1>7 DEF MainTypeOK, LDataOK
  <2>3. transferred' \in Nat
    BY <1>0, MaxBytesAssumption DEF MainTypeOK
  <2> QED
    BY <2>1, <2>2, <2>3
<1>9. MainTypeOK'
  BY <1>0, <1>2, <1>3, <1>4, <1>5, <1>6, <1>8
     DEF MainTypeOK, mainState, stats, resources, outcome, Sleeping, Code
<1>10. LFlagsOK'
  BY <1>0 DEF LFlagsOK, added, setupState, writeState, hostState
<1>11. LDataOK'
  BY <1>0, <1>7, MaxBytesAssumption
     DEF LDataOK, added, setupState, writeState, hostState, Code
<1> QED
  BY <1>1, <1>9, <1>10, <1>11 DEF AddedTypeOK

LEMMA LMainPlaces ==
  LTypeOK /\ LMain => wpc' \in [Thread -> Busy \cup {"none", "done"}]
<1> SUFFICES ASSUME LTypeOK, LMain
             PROVE  wpc' \in [Thread -> Busy \cup {"none", "done"}]
  OBVIOUS
<1>0. wpc \in [Thread -> Busy \cup {"none", "done"}]
  BY DEF LTypeOK, TTypeOK, TypeOK
<1>1. CASE Shared
  BY <1>0, <1>1, MainStarts DEF Shared, Main, Busy
<1>2. CASE LStartThread
  BY <1>0, <1>2 DEF LStartThread, Busy
<1> QED
  BY <1>0, <1>1, <1>2 DEF LMain, LOpenChannels, LAllocBuffers, LCollectRead,
                          LCollectClear, LRelease, workerVars

LEMMA LTypeNext == LTypeOK /\ [LNext]_lvars => LTypeOK'
<1> SUFFICES ASSUME LTypeOK, [LNext]_lvars PROVE LTypeOK'
  OBVIOUS
<1>0. /\ mainLeft \in Nat /\ ioLeft \in [Thread -> 0 .. MaxIo]
      /\ TTypeOK /\ TypeOK /\ AddedTypeOK
  BY LTypeParts DEF TTypeOK
<1>1. CASE LTMain
  <2>1. mainLeft' \in Nat /\ ioLeft' = ioLeft
    BY <1>1, DurationAssumption DEF LTMain, SleepTime
  <2>2. MainTypeOK' /\ AddedTypeOK' /\ wpc' \in [Thread -> Busy \cup {"none", "done"}]
    BY <1>1, LMainType, LMainPlaces DEF LTMain
  <2> QED
    BY <1>0, <2>1, <2>2, LTypeMade DEF TTypeOK, TypeOK
<1>2. CASE LTWorker
  <2>1. ioLeft' \in [Thread -> 0 .. MaxIo] /\ mainLeft' = mainLeft
    <3>1. (IF wpc'[1] = "io" THEN MaxIo ELSE 0) \in 0 .. MaxIo
      BY DurationAssumption
    <3> QED
      BY <1>0, <1>2, <3>1 DEF LTWorker
  <2>2. MainTypeOK' /\ AddedTypeOK' /\ wpc' \in [Thread -> Busy \cup {"none", "done"}]
    BY <1>2, LWorkerType DEF LTWorker
  <2> QED
    BY <1>0, <2>1, <2>2, LTypeMade DEF TTypeOK, TypeOK
<1>3. CASE [TNext]_tvars /\ UNCHANGED added
  <2>1. TTypeOK'
    BY <1>0, <1>3, TimedTypeNext
  <2> QED
    BY <1>0, <1>3, <2>1, AddedKept, LTypeMade
<1> QED
  BY <1>1, <1>2, <1>3, LStepCases

(* Every variable of the loopback test keeps its type.                     *)
THEOREM LTypeCorrect == LSpec => []LTypeOK
<1> QED
  BY LTypeInit, LTypeNext, PTL DEF LSpec

-----------------------------------------------------------------------------
(* What is open or allocated outside the life of a test.                   *)
LReleasedInv ==
  mpc \in {"parse", "return", "done"} => ~channel /\ ~readChannel /\ ~buffer[1]

LEMMA LReleasedNext == LTypeOK /\ LReleasedInv /\ [LNext]_lvars => LReleasedInv'
<1> SUFFICES ASSUME LTypeOK, LReleasedInv, [LNext]_lvars PROVE LReleasedInv'
  OBVIOUS
<1> USE DEF LReleasedInv, resources
<1>1. CASE LMain
  <2>1. CASE Shared
    <3>1. CASE RejectSize \/ Exit
      BY <2>1, <3>1 DEF Shared, RejectSize, Exit, added, setupState
    <3>2. CASE ~(RejectSize \/ Exit)
      BY <2>1, <3>2 DEF Shared, WakePass, DisplayPass, ErrorCheck, LoadSeconds,
         StoreSeconds, WakeStop, Gather, Shutdown, WakeShutdown
    <3> QED
      BY <3>1, <3>2
  <2>2. CASE LRelease
    BY <2>2, TheThread DEF LRelease, FreeBuffers, CloseChannels
  <2>3. CASE LOpenChannels \/ LAllocBuffers \/ LStartThread \/ LCollectRead
             \/ LCollectClear
    BY <2>3 DEF LOpenChannels, LAllocBuffers, LStartThread, LCollectRead,
                LCollectClear
  <2> QED
    BY <1>1, <2>1, <2>2, <2>3 DEF LMain
<1>2. CASE LWorker
  <2>1. UNCHANGED <<mpc, channel, buffer, readChannel>>
    BY <1>2 DEF LWorker, LBegin, LIoOk, LIoAtOnce, LWriteFail, LReadFail,
       LLoadTotal, LAccountWrite, LAccountRead, LCheck, LFinish, Go, mainState,
       added, setupState
  <2> QED
    BY <2>1
<1>3. CASE [TNext]_tvars /\ UNCHANGED added /\ ~LMain /\ ~LWorker
  <2>1. UNCHANGED <<mpc, channel, buffer, readChannel>>
    BY <1>3 DEF LNext, lvars, tvars, vars, TUserStop, UserStop, Tick, Terminated,
       LTMain, LTWorker, added, setupState
  <2> QED
    BY <2>1
<1> QED
  BY <1>1, <1>2, <1>3, LStepCases DEF LTMain, LTWorker

(* Both channels are closed and the read buffer is freed on every path.    *)
THEOREM ChannelsReleasedCorrect == LSpec => []ChannelsReleased
<1>1. LInit => LReleasedInv
  BY TheThread DEF LInit, TInit, Init, LReleasedInv
<1>2. LReleasedInv => ChannelsReleased
  BY DEF LReleasedInv, ChannelsReleased
<1> QED
  BY <1>1, <1>2, LReleasedNext, LTypeCorrect, PTL DEF LSpec

-----------------------------------------------------------------------------
(* Places from which the worker can still move data or set a result.       *)
Moving == {"begin", "io", "load", "account", "check"}

(* The longest the worker stays in the driver before it looks at its flags.*)
Due ==
  CASE wpc[1] = "begin" -> 2 * MaxIo
    [] wpc[1] = "io" -> IF side = "write" THEN ioLeft[1] + MaxIo ELSE ioLeft[1]
    [] wpc[1] \in {"load", "account"} -> IF side = "write" THEN MaxIo ELSE 0
    [] OTHER -> 0

(* Up to the sleep of TestRunControl, through it and after it.             *)
LStopInv ==
  /\ mpc \in Setup => wpc[1] = "none"
  /\ mpc \in Looping =>
       endedBy = "running" /\ (~running[1] => wpc[1] \in OutOfLoop)
  /\ mpc = "stopSleep" =>
       endedBy = "timeout" /\ ~running[1] /\ (wpc[1] \in Moving => Due < mainLeft)
  /\ endedBy = "workers" => wpc[1] \in OutOfLoop
  /\ endedBy = "timeout" /\ mpc # "stopSleep" => wpc[1] \notin Moving

(* A block that differed stays reported; what Gather has seen is final.    *)
LReportInv ==
  /\ differed => werr[1] # "ok"
  /\ iPass = "ok" /\ endedBy # "running"
       /\ mpc \in {"shutdown", "shutSleep", "free", "return", "done"}
       => werr[1] = "ok"
  /\ status = "ok" /\ mpc = "done" => iPass = "ok"

(* A run without an error has reported at least a byte per pass.           *)
LPassInv ==
  /\ iPass = "ok" => reported >= passes
  /\ iPass = "ok" /\ mpc \in {"control", "load", "store"} => passes >= 1
  /\ iPass = "ok" /\ endedBy # "running" => passes >= 1

LEMMA LWorkerKeepsMain == LWorker => UNCHANGED mainState
  BY DEF LWorker, LBegin, LIoOk, LIoAtOnce, LWriteFail, LReadFail, LLoadTotal,
         LAccountWrite, LAccountRead, LCheck, LFinish, Go

(* With its flag down the worker only uses up what it is due.              *)
LEMMA DueShrinks ==
  ASSUME LTypeOK, ~running[1], wpc[1] \in Moving, Due < mainLeft, LTWorker
  PROVE  ~running'[1] /\ (wpc'[1] \in Moving => Due' < mainLeft')
<1>0. /\ ioLeft[1] \in Nat /\ mainLeft \in Nat /\ MaxIo \in Nat
      /\ 1 \in DOMAIN wpc /\ 1 \in DOMAIN ioLeft /\ 1 \in DOMAIN running
  BY TheThread, DurationAssumption DEF LTypeOK, TTypeOK, TypeOK, MainTypeOK
<1>1. /\ mainLeft' = mainLeft
      /\ ioLeft'[1] = IF wpc'[1] = "io" THEN MaxIo ELSE 0
  BY <1>0 DEF LTWorker
<1>2. LWorker
  BY DEF LTWorker
<1> USE DEF Due, Moving, Go
<1>3. CASE LBegin
  <2>1. wpc[1] = "begin" /\ wpc'[1] = "io" /\ ~running'[1] /\ side' = side
    BY <1>0, <1>3 DEF LBegin, added
  <2>2. Due = 2 * MaxIo /\ ioLeft'[1] = MaxIo
    BY <1>1, <2>1
  <2>3. Due' = IF side = "write" THEN MaxIo + MaxIo ELSE MaxIo
    BY <2>1, <2>2
  <2> QED
    BY <1>0, <1>1, <2>1, <2>2, <2>3 DEF Moving
<1>4. CASE LIoOk \/ LIoAtOnce
  BY <1>0, <1>1, <1>4 DEF LIoOk, LIoAtOnce, added
<1>5. CASE LWriteFail
  BY <1>0, <1>1, <1>5 DEF LWriteFail
<1>6. CASE LReadFail
  <2>1. wpc[1] = "io" /\ wpc'[1] \in {"finish", "check"}
    BY <1>0, <1>6 DEF LReadFail
  <2>2. ~running'[1]
    BY <1>0, <1>6 DEF LReadFail
  <2>3. Due' = 0 /\ Due \in Nat
    BY <1>0, <2>1
  <2> QED
    BY <1>0, <1>1, <2>1, <2>2, <2>3
<1>7. CASE LLoadTotal
  BY <1>0, <1>1, <1>7 DEF LLoadTotal, added
<1>8. CASE LAccountWrite
  BY <1>0, <1>1, <1>8 DEF LAccountWrite
<1>9. CASE LAccountRead
  BY <1>0, <1>1, <1>9 DEF LAccountRead, added
<1>10. CASE LCheck
  BY <1>0, <1>1, <1>10 DEF LCheck
<1>11. CASE LFinish
  BY <1>0, <1>11 DEF LFinish
<1> QED
  BY <1>2, <1>3, <1>4, <1>5, <1>6, <1>7, <1>8, <1>9, <1>10, <1>11 DEF LWorker

LEMMA LStopNext ==
  ASSUME 2 * MaxIo < StopSleep, ~SignalsShutdown,
         LTypeOK, LStopInv, [LNext]_lvars
  PROVE  LStopInv'
<1>0. /\ ioLeft[1] \in 0 .. MaxIo /\ mainLeft \in Nat /\ MaxIo \in Nat
      /\ 1 \in DOMAIN wpc /\ 1 \in DOMAIN running
  BY TheThread, DurationAssumption DEF LTypeOK, TTypeOK, TypeOK, MainTypeOK
<1> USE DEF LStopInv, Setup, Looping, OutOfLoop, Moving
<1>1. CASE LTMain
  <2> USE <1>1 DEF LTMain, stats, resources, outcome, transfer, workerVars
  <2>1. CASE LOpenChannels \/ LAllocBuffers \/ LCollectRead \/ LCollectClear
    BY <2>1 DEF LOpenChannels, LAllocBuffers, LCollectRead, LCollectClear
  <2>2. CASE LStartThread
    BY <1>0, <2>2 DEF LStartThread
  <2>3. CASE LRelease
    BY <2>3 DEF LRelease
  <2>4. CASE Shared
    <3>1. CASE RejectSize \/ WakePass \/ DisplayPass \/ ErrorCheck \/ LoadSeconds
      BY <3>1 DEF RejectSize, WakePass, DisplayPass, ErrorCheck, LoadSeconds
    <3>2. CASE StoreSeconds
      <4>1. CASE mpc' = "stopSleep"
        <5>1. endedBy' = "timeout" /\ ~running'[1] /\ mainLeft' = StopSleep
          BY <3>2, <4>1, TheThread DEF StoreSeconds, ClearFlags, SleepTime
        <5>2. UNCHANGED <<wpc, ioLeft, side>>
          BY <2>4, <3>2 DEF Shared, StoreSeconds, added
        <5>3. Due <= 2 * MaxIo
          BY <1>0 DEF Due
        <5>4. Due' = Due
          BY <5>2 DEF Due
        <5>5. Due \in Nat /\ StopSleep \in Nat
          BY <1>0, DurationAssumption DEF Due
        <5> QED
          BY <1>0, <4>1, <5>1, <5>3, <5>4, <5>5
      <4>2. CASE mpc' = "sleep" /\ running' = running /\ endedBy' = endedBy
        BY <3>2, <4>2 DEF StoreSeconds
      <4>3. CASE mpc' = "gather" /\ endedBy' = "workers"
        <5>1. ~running[1]
          BY <3>2, <4>3, TheThread DEF StoreSeconds, AnyRunning
        <5> QED
          BY <3>2, <4>3, <5>1 DEF StoreSeconds
      <4> QED
        BY <3>2, <4>1, <4>2, <4>3 DEF StoreSeconds
    <3>3. CASE WakeStop
      <4>1. wpc[1] \notin Moving
        <5>1. Due \in Nat
          BY <1>0 DEF Due
        <5> QED
          BY <3>3, <5>1 DEF WakeStop
      <4> QED
        BY <3>3, <4>1 DEF WakeStop
    <3>4. CASE Gather \/ Shutdown \/ WakeShutdown \/ Exit
      BY <3>4 DEF Gather, Shutdown, WakeShutdown, Exit
    <3> QED
      BY <2>4, <3>1, <3>2, <3>3, <3>4 DEF Shared
  <2> QED
    BY <2>1, <2>2, <2>3, <2>4 DEF LMain
<1>2. CASE LTWorker
  <2>1. LWorker /\ UNCHANGED <<mpc, endedBy>>
    BY <1>2, LWorkerKeepsMain DEF LTWorker, mainState, outcome
  <2>2. wpc[1] \notin {"none", "done"}
    BY <2>1 DEF LWorker, LBegin, LIoOk, LIoAtOnce, LWriteFail, LReadFail,
       LLoadTotal, LAccountWrite, LAccountRead, LCheck, LFinish, Go
  <2>3. wpc[1] \in OutOfLoop => wpc'[1] \in OutOfLoop
    BY <1>0, <2>1 DEF LWorker, LBegin, LIoOk, LIoAtOnce, LWriteFail, LReadFail,
       LLoadTotal, LAccountWrite, LAccountRead, LCheck, LFinish, Go
  <2>4. ~running'[1] => ~running[1] \/ wpc'[1] \in OutOfLoop
    BY <1>0, <2>1 DEF LWorker, LBegin, LIoOk, LIoAtOnce, LWriteFail, LReadFail,
       LLoadTotal, LAccountWrite, LAccountRead, LCheck, LFinish, Go, Breaks
  <2>5. wpc[1] \in OutOfLoop \cup Moving
    BY <1>0, <2>2, TheThread DEF LTypeOK, TTypeOK, TypeOK, Busy
  <2>6. mpc = "stopSleep" => ~running'[1] /\ (wpc'[1] \in Moving => Due' < mainLeft')
    <3>1. CASE wpc[1] \in Moving
      BY <1>2, <3>1, DueShrinks
    <3>2. CASE wpc[1] \in OutOfLoop
      <4>1. ~running[1] /\ mpc = "stopSleep" => ~running'[1]
        BY <1>0, <2>1, <3>2 DEF LWorker, LBegin, LIoOk, LIoAtOnce, LWriteFail,
           LReadFail, LLoadTotal, LAccountWrite, LAccountRead, LCheck, LFinish, Go
      <4> QED
        BY <2>3, <3>2, <4>1
    <3> QED
      BY <2>5, <3>1, <3>2
  <2> QED
    BY <2>1, <2>2, <2>3, <2>4, <2>5, <2>6
<1>3. CASE TUserStop /\ UNCHANGED added
  BY <1>3 DEF TUserStop, UserStop, outcome, workerVars
<1>4. CASE Tick /\ UNCHANGED added
  <2>1. UNCHANGED <<mpc, endedBy, running, wpc, side>>
    BY <1>4 DEF Tick, vars, outcome, workerVars, added
  <2>2. ASSUME mpc = "stopSleep", wpc[1] \in Moving PROVE Due' < mainLeft'
    <3>1. Blocked(1) /\ 1 \in DOMAIN ioLeft' /\ ioLeft'[1] = Less(ioLeft[1])
      BY <1>4, TheThread DEF Tick
    <3>2. wpc[1] = "io" /\ ioLeft[1] > 0
      BY <2>2, <3>1 DEF Blocked
    <3>3. Due < mainLeft
      BY <2>2
    <3>4. mainLeft' = Less(mainLeft)
      BY <1>4 DEF Tick
    <3> QED
      BY <1>0, <2>1, <3>1, <3>2, <3>3, <3>4 DEF Due, Less
  <2> QED
    BY <2>1, <2>2
<1>5. CASE UNCHANGED lvars
  BY <1>5 DEF lvars, tvars, vars, outcome, workerVars, added, Due
<1> QED
  BY <1>1, <1>2, <1>3, <1>4, <1>5 DEF LNext, Terminated, lvars, tvars

LEMMA LReportNext ==
  ASSUME LTypeOK, LStopInv, LReportInv, [LNext]_lvars
  PROVE  LReportInv'
<1>0. /\ 1 \in DOMAIN wpc /\ 1 \in DOMAIN werr
      /\ wpc[1] \in Busy \cup {"none", "done"}
      /\ endedBy \in {"running", "timeout", "workers"}
  BY TheThread DEF LTypeOK, TTypeOK, TypeOK, MainTypeOK
<1> USE DEF LReportInv
<1>1. CASE LTMain
  <2> USE <1>1 DEF LTMain, stats, resources, outcome, transfer, workerVars
  <2>1. CASE LOpenChannels \/ LAllocBuffers \/ LStartThread \/ LCollectRead
             \/ LCollectClear \/ LRelease
    <3>1. CASE LOpenChannels \/ LAllocBuffers \/ LStartThread
      <4>1. mpc \in Setup /\ mpc' # "done"
        BY <3>1 DEF LOpenChannels, LAllocBuffers, LStartThread, Setup
      <4>2. UNCHANGED <<differed, werr, endedBy>>
        BY <3>1 DEF LOpenChannels, LAllocBuffers, LStartThread, added
      <4> QED
        BY <4>1, <4>2 DEF LStopInv, Looping
    <3>2. CASE LCollectRead \/ LCollectClear \/ LRelease
      BY <3>2 DEF LCollectRead, LCollectClear, LRelease, added
    <3> QED
      BY <2>1, <3>1, <3>2
  <2>2. CASE Shared
    <3>1. CASE RejectSize \/ WakePass \/ ErrorCheck \/ LoadSeconds \/ WakeStop
      BY <2>2, <3>1 DEF Shared, RejectSize, WakePass, ErrorCheck, LoadSeconds,
         WakeStop, added, LStopInv, Looping, Setup
    <3>2. CASE DisplayPass
      BY <2>2, <3>2 DEF Shared, DisplayPass, PassResult, added
    <3>3. CASE StoreSeconds
      BY <2>2, <3>3 DEF Shared, StoreSeconds, added
    <3>4. CASE Gather
      BY <2>2, <3>4, TheThread DEF Shared, Gather, GatheredCode, added
    <3>5. CASE Shutdown \/ WakeShutdown
      BY <2>2, <3>5 DEF Shared, Shutdown, WakeShutdown, added
    <3>6. CASE Exit
      BY <2>2, <3>6 DEF Shared, Exit, ExitStatus, added
    <3> QED
      BY <2>2, <3>1, <3>2, <3>3, <3>4, <3>5, <3>6 DEF Shared
  <2> QED
    BY <2>1, <2>2 DEF LMain
<1>2. CASE LTWorker
  <2>1. LWorker /\ UNCHANGED <<mpc, iPass, status, endedBy>>
    BY <1>2, LWorkerKeepsMain DEF LTWorker, mainState, outcome
  <2>2. differed' => werr'[1] # "ok"
    BY <1>0, <2>1 DEF LWorker, LBegin, LIoOk, LIoAtOnce, LWriteFail, LReadFail,
       LLoadTotal, LAccountWrite, LAccountRead, LCheck, LFinish, Outcomes,
       Compared, transfer, added
  <2>3. wpc[1] \notin Moving => werr'[1] = werr[1]
    BY <1>0, <2>1 DEF LWorker, LBegin, LIoOk, LIoAtOnce, LWriteFail, LReadFail,
       LLoadTotal, LAccountWrite, LAccountRead, LCheck, LFinish, Go, transfer,
       Moving
  <2>4. endedBy # "running" /\ mpc # "stopSleep" => wpc[1] \notin Moving
    BY <1>0 DEF LStopInv, OutOfLoop, Moving
  <2> QED
    BY <2>1, <2>2, <2>3, <2>4
<1>3. CASE (TUserStop \/ Tick \/ UNCHANGED tvars) /\ UNCHANGED added
  BY <1>3 DEF TUserStop, UserStop, Tick, tvars, vars, outcome, workerVars,
     transfer, added
<1> QED
  BY <1>1, <1>2, <1>3 DEF LNext, Terminated, lvars, tvars

LEMMA LPassNext ==
  ASSUME LTypeOK, LStopInv, LPassInv, [LNext]_lvars
  PROVE  LPassInv'
<1>0. /\ passBytes \in Nat /\ passes \in Nat /\ reported \in Nat
      /\ PassCap \in Nat /\ PassCap >= 1
  BY ConfigTyped, PassCapAssumption DEF LTypeOK, TTypeOK, TypeOK, MainTypeOK
<1> USE DEF LPassInv
<1>1. CASE LTMain
  <2> USE <1>1 DEF LTMain, stats, resources, outcome, transfer, workerVars
  <2>1. CASE LOpenChannels \/ LAllocBuffers \/ LStartThread \/ LCollectRead
             \/ LCollectClear \/ LRelease
    BY <2>1 DEF LOpenChannels, LAllocBuffers, LStartThread, LCollectRead,
                LCollectClear, LRelease, LStopInv, Looping, Setup
  <2>2. CASE DisplayPass
    <3>1. /\ reported' = reported + passBytes
          /\ iPass' = PassResult(passBytes, iPass)
          /\ passes' = IF passes < PassCap THEN passes + 1 ELSE passes
          /\ UNCHANGED endedBy
          /\ mpc' = "control"
      BY <2>2 DEF DisplayPass
    <3>2. iPass' = "ok" => iPass = "ok" /\ passBytes >= 1
      BY <1>0, <3>1 DEF PassResult
    <3>3. passes' <= passes + 1 /\ passes' >= 1 /\ passes' \in Nat
      BY <1>0, <3>1
    <3> QED
      BY <1>0, <3>1, <3>2, <3>3
  <2>3. CASE Shared /\ ~DisplayPass
    BY <2>3 DEF Shared, RejectSize, WakePass, ErrorCheck, LoadSeconds,
       StoreSeconds, WakeStop, Gather, GatheredCode, Shutdown, WakeShutdown, Exit
  <2> QED
    BY <2>1, <2>2, <2>3 DEF LMain
<1>2. CASE LTWorker
  <2>1. UNCHANGED mainState
    BY <1>2, LWorkerKeepsMain DEF LTWorker
  <2> QED
    BY <2>1 DEF mainState, stats, outcome
<1>3. CASE (TUserStop \/ Tick \/ UNCHANGED tvars) /\ UNCHANGED added
  BY <1>3 DEF TUserStop, UserStop, Tick, tvars, vars, stats, outcome
<1> QED
  BY <1>1, <1>2, <1>3 DEF LNext, Terminated, lvars, tvars

(* When a write and a read together are shorter than TestRunControl's      *)
(* sleep, and no signal cuts it short, exit status 0 of a test that ran    *)
(* means that data moved in every pass and no block differed.              *)
THEOREM ComparedCorrect ==
  ASSUME 2 * MaxIo < StopSleep, ~SignalsShutdown
  PROVE  LSpec => []SuccessMeansCompared
<1>1. LInit => LStopInv /\ LReportInv /\ LPassInv
  BY TheThread DEF LInit, TInit, Init, LStopInv, LReportInv, LPassInv, Setup,
     Looping, OutOfLoop
<1>2. LTypeOK /\ LStopInv /\ [LNext]_lvars => LStopInv'
  BY LStopNext
<1>3. LTypeOK /\ LStopInv /\ LReportInv /\ [LNext]_lvars => LReportInv'
  BY LReportNext
<1>4. LTypeOK /\ LStopInv /\ LPassInv /\ [LNext]_lvars => LPassInv'
  BY LPassNext
<1>5. LReportInv /\ LPassInv => SuccessMeansCompared
  BY DEF LReportInv, LPassInv, SuccessMeansCompared
<1> QED
  BY <1>1, <1>2, <1>3, <1>4, <1>5, LTypeCorrect, PTL DEF LSpec

-----------------------------------------------------------------------------
(* The loopback test and the promise of JoinedTest.                        *)

(* Through the sleep of ShutdownTestThreads and after it.                  *)
LShutdownInv ==
  /\ mpc = "shutSleep" => ~running[1] /\ (wpc[1] \in Busy => Due < mainLeft)
  /\ mpc \in {"free", "return", "done"} => wpc[1] \notin Busy

(* A test whose loop did not end has no worker, which has no error.        *)
LIdleInv ==
  /\ wpc[1] = "none" => werr[1] = "ok"
  /\ mpc = "gather" => endedBy # "running"
  /\ endedBy = "running" /\ mpc \in {"shutdown", "shutSleep", "free", "return", "done"}
       => wpc[1] = "none"

LEMMA LTyped ==
  ASSUME LTypeOK
  PROVE  /\ ioLeft[1] \in 0 .. MaxIo /\ mainLeft \in Nat /\ MaxIo \in Nat
         /\ 1 \in DOMAIN wpc /\ 1 \in DOMAIN running /\ 1 \in DOMAIN werr
         /\ 1 \in DOMAIN ioLeft
         /\ wpc[1] \in Busy \cup {"none", "done"}
         /\ Due \in 0 .. 2 * MaxIo
<1>1. /\ ioLeft[1] \in 0 .. MaxIo /\ mainLeft \in Nat /\ MaxIo \in Nat
      /\ 1 \in DOMAIN wpc /\ 1 \in DOMAIN running /\ 1 \in DOMAIN werr
      /\ 1 \in DOMAIN ioLeft
      /\ wpc[1] \in Busy \cup {"none", "done"}
  BY TheThread, DurationAssumption DEF LTypeOK, TTypeOK, TypeOK, MainTypeOK
<1>2. Due \in 0 .. 2 * MaxIo
  BY <1>1 DEF Due
<1> QED BY <1>1, <1>2

(* The worker moves from where it is at work, to such a place or the end.  *)
LEMMA LWorkerPlaces ==
  ASSUME LTypeOK, LWorker
  PROVE  /\ wpc[1] \in Busy
         /\ wpc'[1] \in Busy \/ (wpc[1] = "finish" /\ wpc'[1] = "done")
         /\ wpc[1] = "finish" => wpc'[1] = "done" /\ werr'[1] = werr[1]
         /\ ~ running[1] => ~ running'[1]
<1>1. 1 \in DOMAIN wpc /\ 1 \in DOMAIN running
  BY LTyped
<1> USE DEF Go, Busy
<1>2. CASE LBegin \/ LLoadTotal \/ LAccountRead
  BY <1>1, <1>2 DEF LBegin, LLoadTotal, LAccountRead
<1>3. CASE LIoOk \/ LIoAtOnce
  BY <1>1, <1>3 DEF LIoOk, LIoAtOnce
<1>4. CASE LWriteFail
  BY <1>1, <1>4 DEF LWriteFail
<1>5. CASE LReadFail
  BY <1>1, <1>5 DEF LReadFail
<1>6. CASE LAccountWrite
  BY <1>1, <1>6 DEF LAccountWrite
<1>7. CASE LCheck
  BY <1>1, <1>7 DEF LCheck
<1>8. CASE LFinish
  BY <1>1, <1>8 DEF LFinish, transfer
<1> QED BY <1>2, <1>3, <1>4, <1>5, <1>6, <1>7, <1>8 DEF LWorker

LEMMA LShutdownNext ==
  ASSUME 2 * MaxIo < ShutdownSleep, ~SignalsShutdown,
         LTypeOK, LStopInv, LShutdownInv, [LNext]_lvars
  PROVE  LShutdownInv'
<1> USE DEF LShutdownInv
<1>1. CASE LTMain
  <2> USE <1>1 DEF LTMain, stats, resources, outcome, transfer, workerVars
  <2>1. CASE LOpenChannels \/ LAllocBuffers \/ LCollectRead \/ LCollectClear
    BY <2>1 DEF LOpenChannels, LAllocBuffers, LCollectRead, LCollectClear
  <2>2. CASE LStartThread
    BY <2>2 DEF LStartThread
  <2>3. CASE LRelease
    BY <2>3 DEF LRelease
  <2>4. CASE RejectSize
    BY <2>4 DEF RejectSize, LStopInv, Setup, Busy
  <2>5. CASE WakePass \/ DisplayPass \/ ErrorCheck \/ LoadSeconds \/ StoreSeconds
             \/ WakeStop \/ Gather
    BY <2>5 DEF WakePass, DisplayPass, ErrorCheck, LoadSeconds, StoreSeconds, WakeStop,
      Gather
  <2>6. CASE Shutdown /\ UNCHANGED added
    <3>1. /\ mpc' = "shutSleep" /\ ~running'[1] /\ mainLeft' = ShutdownSleep
          /\ UNCHANGED <<wpc, ioLeft, side>>
      BY <2>6, TheThread DEF Shutdown, ClearFlags, SleepTime, added
    <3>2. Due' = Due
      BY <3>1 DEF Due
    <3>3. Due \in 0 .. 2 * MaxIo /\ MaxIo \in Nat /\ ShutdownSleep \in Nat
      BY LTyped, DurationAssumption
    <3>4. Due' < mainLeft'
      BY <3>1, <3>2, <3>3
    <3> QED BY <3>1, <3>4
  <2>7. CASE WakeShutdown
    <3>1. mpc = "shutSleep" /\ mpc' = "free" /\ wpc' = wpc /\ mainLeft = 0
      BY <2>7 DEF WakeShutdown
    <3>2. Due \in 0 .. 2 * MaxIo /\ MaxIo \in Nat
      BY LTyped
    <3>3. wpc[1] \notin Busy
      BY <3>1, <3>2
    <3> QED BY <3>1, <3>3
  <2>8. CASE Exit
    BY <2>8 DEF Exit
  <2> QED
    BY <2>1, <2>2, <2>3, <2>4, <2>5, <2>6, <2>7, <2>8 DEF LMain, Shared
<1>2. CASE LTWorker
  <2>1. LWorker /\ UNCHANGED <<mpc, mainLeft>>
    BY <1>2, LWorkerKeepsMain DEF LTWorker, mainState
  <2>2. /\ wpc[1] \in Busy
        /\ wpc'[1] \in Busy \/ wpc'[1] = "done"
        /\ ~ running[1] => ~ running'[1]
        /\ wpc[1] = "finish" => wpc'[1] = "done"
    BY <2>1, LWorkerPlaces
  <2>3. mpc = "shutSleep" /\ wpc'[1] \in Busy => Due' < mainLeft'
    <3> SUFFICES ASSUME mpc = "shutSleep", wpc'[1] \in Busy PROVE Due' < mainLeft'
      OBVIOUS
    <3>1. wpc[1] \in Moving /\ ~ running[1] /\ Due < mainLeft
      BY <2>2 DEF Moving, Busy
    <3>2. wpc'[1] \in Moving => Due' < mainLeft'
      BY <1>2, <3>1, DueShrinks
    <3>3. wpc'[1] \notin Moving => Due' = 0
      BY DEF Due, Moving
    <3>4. mainLeft \in Nat /\ Due \in 0 .. 2 * MaxIo /\ MaxIo \in Nat
      BY LTyped
    <3> QED BY <2>1, <3>1, <3>2, <3>3, <3>4
  <2> QED BY <2>1, <2>2, <2>3
<1>3. CASE TUserStop /\ UNCHANGED added
  <2>1. mpc # "shutSleep" /\ UNCHANGED <<mpc, wpc>>
    BY <1>3 DEF TUserStop, UserStop, workerVars
  <2> QED BY <2>1
<1>4. CASE Tick /\ UNCHANGED added
  <2>1. UNCHANGED <<mpc, running, wpc, side>>
    BY <1>4 DEF Tick, vars, workerVars, added
  <2>2. ASSUME mpc = "shutSleep", wpc[1] \in Busy PROVE Due' < mainLeft'
    <3>1. Blocked(1) /\ ioLeft'[1] = Less(ioLeft[1]) /\ mainLeft' = Less(mainLeft)
      BY <1>4, TheThread DEF Tick
    <3>2. wpc[1] = "io" /\ ioLeft[1] > 0
      BY <2>2, <3>1 DEF Blocked, Busy
    <3>3. Due < mainLeft
      BY <2>2
    <3>4. ioLeft[1] \in 0 .. MaxIo /\ mainLeft \in Nat /\ MaxIo \in Nat
      BY LTyped
    <3> QED BY <2>1, <3>1, <3>2, <3>3, <3>4 DEF Due, Less
  <2> QED BY <2>1, <2>2
<1>5. CASE UNCHANGED lvars \/ (Terminated /\ UNCHANGED added)
  BY <1>5 DEF lvars, tvars, vars, workerVars, added, Terminated, Due
<1> QED BY <1>1, <1>2, <1>3, <1>4, <1>5 DEF LNext

LEMMA LIdleNext ==
  ASSUME LTypeOK, LStopInv, LIdleInv, [LNext]_lvars
  PROVE  LIdleInv'
<1> USE DEF LIdleInv
<1>1. CASE LTMain
  <2> USE <1>1 DEF LTMain, stats, resources, outcome, transfer, workerVars
  <2>1. CASE LOpenChannels \/ LAllocBuffers \/ LStartThread
    BY <2>1, LTyped DEF LOpenChannels, LAllocBuffers, LStartThread, LStopInv, Setup
  <2>2. CASE LCollectRead \/ LCollectClear \/ LRelease
    BY <2>2 DEF LCollectRead, LCollectClear, LRelease
  <2>3. CASE RejectSize
    BY <2>3 DEF RejectSize, LStopInv, Setup
  <2>4. CASE WakePass \/ DisplayPass \/ ErrorCheck \/ LoadSeconds \/ StoreSeconds
    BY <2>4 DEF WakePass, DisplayPass, ErrorCheck, LoadSeconds, StoreSeconds
  <2>5. CASE WakeStop
    BY <2>5 DEF WakeStop, LStopInv
  <2>6. CASE Gather \/ Shutdown \/ WakeShutdown \/ Exit
    BY <2>6 DEF Gather, Shutdown, WakeShutdown, Exit
  <2> QED BY <2>1, <2>2, <2>3, <2>4, <2>5, <2>6 DEF LMain, Shared
<1>2. CASE LTWorker
  <2>1. LWorker /\ UNCHANGED <<mpc, endedBy>>
    BY <1>2, LWorkerKeepsMain DEF LTWorker, mainState, outcome
  <2>2. wpc[1] \in Busy /\ wpc'[1] \in Busy \cup {"done"}
    BY <2>1, LWorkerPlaces
  <2> QED BY <2>1, <2>2 DEF Busy
<1>3. CASE (TUserStop \/ Tick \/ Terminated \/ UNCHANGED tvars) /\ UNCHANGED added
  BY <1>3 DEF TUserStop, UserStop, Tick, Terminated, tvars, vars, outcome, workerVars,
    transfer
<1> QED BY <1>1, <1>2, <1>3 DEF LNext, lvars, tvars

LEMMA LStatusReflects ==
  ASSUME LTypeOK, LReportInv, LIdleInv
  PROVE  StatusReflectsErrors
<1> SUFFICES ASSUME mpc = "done", status = "ok" PROVE werr[1] = "ok"
  BY TheThread DEF StatusReflectsErrors
<1>1. iPass = "ok"
  BY DEF LReportInv
<1>2. CASE endedBy # "running"
  BY <1>1, <1>2 DEF LReportInv
<1>3. CASE endedBy = "running"
  BY <1>3 DEF LIdleInv
<1> QED BY <1>2, <1>3

(* A step of the worker is the abstract thread failing, leaving or nothing.*)
LEMMA LWorkerRefines ==
  ASSUME LTypeOK, LWorker
  PROVE  [Joined!Next]_(Joined!jvars)
<1> DEFINE active == {j \in Thread : wpc[j] \in Busy}
           failed == {j \in Thread : werr[j] # "ok"}
<1>0. /\ Thread = {1} /\ 1 \in DOMAIN wpc /\ 1 \in DOMAIN werr
      /\ UNCHANGED <<Phase, mpc = "done" /\ status = "ok">>
  <2>1. UNCHANGED <<mpc, status>>
    BY LWorkerKeepsMain DEF mainState, outcome
  <2> QED BY <2>1, LTyped, TheThread DEF Phase
<1>1. wpc[1] \in Busy /\ 1 \in active
  BY <1>0, LWorkerPlaces
<1>2. CASE LReadFail \/ LCheck
  <2>1. wpc'[1] \in Busy
    BY <1>0, <1>2 DEF LReadFail, LCheck, Go, Busy
  <2>2. active' = active
    BY <1>0, <1>1, <2>1
  <2>3. werr'[1] \in {werr[1], "ioError"}
    BY <1>0, <1>2 DEF LReadFail, LCheck, Compared
  <2>4. failed' = failed \/ failed' = failed \cup {1}
    BY <1>0, <2>3
  <2>5. CASE failed' = failed \cup {1}
    <3>1. Joined!Fail(1)
      BY <1>0, <1>1, <2>2, <2>5 DEF Joined!Fail
    <3> QED BY <1>0, <3>1 DEF Joined!Next
  <2>6. CASE failed' = failed
    BY <1>0, <2>2, <2>6 DEF Joined!jvars
  <2> QED BY <2>4, <2>5, <2>6
<1>3. CASE LFinish
  <2>1. wpc'[1] \notin Busy /\ werr' = werr
    BY <1>0, <1>3 DEF LFinish, Go, Busy, transfer
  <2>2. active' = active \ {1} /\ failed' = failed
    BY <1>0, <2>1
  <2>3. Joined!Leave(1)
    BY <1>0, <1>1, <2>2 DEF Joined!Leave
  <2> QED BY <1>0, <2>3 DEF Joined!Next
<1>4. CASE LBegin \/ LIoOk \/ LIoAtOnce \/ LWriteFail \/ LLoadTotal \/ LAccountWrite
           \/ LAccountRead
  <2>1. wpc'[1] \in Busy /\ werr' = werr
    BY <1>0, <1>4 DEF LBegin, LIoOk, LIoAtOnce, LWriteFail, LLoadTotal, LAccountWrite,
      LAccountRead, Go, Busy, transfer
  <2>2. active' = active /\ failed' = failed
    BY <1>0, <1>1, <2>1
  <2> QED BY <1>0, <2>2 DEF Joined!jvars
<1> QED BY <1>2, <1>3, <1>4 DEF LWorker

(* A step of the main thread launches, releases, judges or does nothing.   *)
LEMMA LMainRefines ==
  ASSUME LTypeOK, LStopInv, LShutdownInv, StatusReflectsErrors', LMain
  PROVE  [Joined!Next]_(Joined!jvars)
<1> DEFINE active == {j \in Thread : wpc[j] \in Busy}
           failed == {j \in Thread : werr[j] # "ok"}
           good == mpc = "done" /\ status = "ok"
<1> USE DEF stats, resources, outcome, transfer, workerVars
<1>1. CASE RejectSize
  <2>1. /\ Phase = "setup" /\ Phase' = "released" /\ good' = good
        /\ active = {} /\ active' = {} /\ failed' = failed
    BY <1>1, TheThread DEF RejectSize, Phase, LStopInv, Setup, Busy
  <2> QED BY <2>1 DEF Joined!Next, Joined!Release
<1>2. CASE LOpenChannels \/ LAllocBuffers
  <2>1. /\ Phase = "setup" /\ Phase' \in {"setup", "testing"} /\ good' = good
        /\ active = {} /\ active' = {} /\ failed' = failed
    BY <1>2, TheThread DEF LOpenChannels, LAllocBuffers, Phase, LStopInv, Setup, Busy
  <2> QED BY <2>1 DEF Joined!Next, Joined!Launch, Joined!jvars
<1>3. CASE LStartThread
  <2>1. /\ Phase = "setup" /\ Phase' = "testing" /\ good' = good
        /\ active' \in SUBSET Thread /\ failed' = failed
    BY <1>3 DEF LStartThread, Phase
  <2> QED BY <2>1 DEF Joined!Next, Joined!Launch
<1>4. CASE LRelease
  <2>1. /\ Phase = "testing" /\ Phase' = "released" /\ good' = good
        /\ active = {} /\ active' = {} /\ failed' = failed
    BY <1>4, TheThread DEF LRelease, Phase, LShutdownInv
  <2> QED BY <2>1 DEF Joined!Next, Joined!Release
<1>5. CASE Exit
  <2>1. /\ Phase = "released" /\ Phase' = "over"
        /\ active' = active /\ failed' = failed
    BY <1>5 DEF Exit, Phase
  <2>2. good' \in BOOLEAN /\ (failed # {} => ~good')
    BY <2>1 DEF StatusReflectsErrors
  <2> QED BY <2>1, <2>2 DEF Joined!Next, Joined!Judge
<1>6. CASE LCollectRead \/ LCollectClear \/ (Shared /\ ~ RejectSize /\ ~ Exit)
  <2>1. Phase = "testing" /\ Phase' = "testing" /\ good' = good
    BY <1>6 DEF LCollectRead, LCollectClear, Shared, WakePass, DisplayPass, ErrorCheck,
      LoadSeconds, StoreSeconds, WakeStop, Gather, Shutdown, WakeShutdown, Phase
  <2>2. wpc' = wpc /\ werr' = werr
    BY <1>6 DEF LCollectRead, LCollectClear, Shared, WakePass, DisplayPass, ErrorCheck,
      LoadSeconds, StoreSeconds, WakeStop, Gather, Shutdown, WakeShutdown
  <2> QED BY <2>1, <2>2 DEF Joined!jvars
<1> QED BY <1>1, <1>2, <1>3, <1>4, <1>5, <1>6 DEF LMain

LEMMA LStepRefines ==
  LTypeOK /\ LStopInv /\ LShutdownInv /\ StatusReflectsErrors' /\ [LNext]_lvars
    => [Joined!Next]_(Joined!jvars)
<1> SUFFICES ASSUME LTypeOK, LStopInv, LShutdownInv, StatusReflectsErrors', [LNext]_lvars
             PROVE  [Joined!Next]_(Joined!jvars)
  OBVIOUS
<1>1. CASE LTMain
  BY <1>1, LMainRefines DEF LTMain
<1>2. CASE LTWorker
  BY <1>2, LWorkerRefines DEF LTWorker
<1>3. CASE UNCHANGED <<mpc, wpc, werr, status>>
  BY <1>3 DEF Joined!jvars, Phase
<1>4. TUserStop \/ Tick \/ Terminated \/ UNCHANGED lvars
        => UNCHANGED <<mpc, wpc, werr, status>>
  BY DEF TUserStop, UserStop, Tick, Terminated, lvars, tvars, vars, outcome, workerVars,
         transfer
<1> QED BY <1>1, <1>2, <1>3, <1>4 DEF LNext

(* The loopback test keeps the promise of JoinedTest too, in both builds,  *)
(* if a write and a read together are shorter than both of the sleeps and  *)
(* no signal cuts these short.                                             *)
THEOREM LoopbackRefinesJoinedTest ==
  ASSUME 2 * MaxIo < StopSleep, 2 * MaxIo < ShutdownSleep, ~SignalsShutdown
  PROVE  LSpec => ImplementsJoinedTest
<1>1. LInit => Joined!Init
  BY DEF LInit, TInit, Init, Joined!Init, Phase, Busy
<1>2. LInit => LStopInv /\ LReportInv /\ LShutdownInv /\ LIdleInv
  BY TheThread DEF LInit, TInit, Init, LStopInv, LReportInv, LShutdownInv, LIdleInv,
    Setup, Looping, OutOfLoop
<1>3. LTypeOK /\ LStopInv /\ [LNext]_lvars => LStopInv'
  BY LStopNext
<1>4. LTypeOK /\ LStopInv /\ LReportInv /\ [LNext]_lvars => LReportInv'
  BY LReportNext
<1>5. LTypeOK /\ LStopInv /\ LShutdownInv /\ [LNext]_lvars => LShutdownInv'
  BY LShutdownNext
<1>6. LTypeOK /\ LStopInv /\ LIdleInv /\ [LNext]_lvars => LIdleInv'
  BY LIdleNext
<1>7. LTypeOK /\ LReportInv /\ LIdleInv => StatusReflectsErrors
  BY LStatusReflects
<1> QED
  BY <1>1, <1>2, <1>3, <1>4, <1>5, <1>6, <1>7, LStepRefines, LTypeCorrect, PTL
     DEF LSpec, ImplementsJoinedTest, Joined!Spec

=============================================================================
