--------------------------- MODULE TestRun_proofs ---------------------------
(***************************************************************************)
(* Proofs about TestRun, for every number of threads, width of UINT32,     *)
(* transfer size and choice of options.                                    *)
(***************************************************************************)
EXTENDS TestRun, TLAPS

USE NumThreadsAssumption, UIntModAssumption, MaxBytesAssumption,
    PassCapAssumption, ChoicesAssumption

(* Decrementing a UINT32 stays in range, and only zero wraps around.       *)
LEMMA DecrementInRange ==
  ASSUME NEW s \in 0 .. UIntMod - 1
  PROVE  /\ Decrement(s) \in 0 .. UIntMod - 1
         /\ s >= 1 => Decrement(s) = s - 1
  BY DEF Decrement

(* Each thread gets a natural number of transfers, at least one.           *)
LEMMA NumberTransfersPositive ==
  ASSUME NEW n \in Nat
  PROVE  NumberTransfers(n) \in Nat \ {0}
  BY Z3 DEF NumberTransfers

-----------------------------------------------------------------------------
LEMMA TypeInit == Init => TypeOK
<1> SUFFICES ASSUME Init PROVE TypeOK
  OBVIOUS
<1>1. config.iterations \in Nat /\ config.seconds \in 0 .. UIntMod - 1
  <2>1. config.iterations \in IterationsChoices /\ config.seconds \in SecondsChoices
    BY DEF Init
  <2> QED
    BY <2>1
<1>2. left \in [Thread -> Int]
  <2>1. NumberTransfers(config.iterations) \in Int
    BY <1>1, NumberTransfersPositive
  <2> QED
    BY <2>1 DEF Init
<1>3. 1 \in Thread
  BY DEF Thread
<1>4. /\ seconds \in 0 .. UIntMod - 1
      /\ tmpSeconds \in 0 .. UIntMod - 1
      /\ moved \in [Thread -> 0 .. MaxBytes]
  BY <1>1 DEF Init
<1> QED
  BY <1>2, <1>3, <1>4 DEF Init, TypeOK, MainTypeOK, Sleeping, Busy, Code

(* The main thread and the handler keep the types, in every build.         *)
LEMMA MainTypeNext == MainTypeOK /\ (Main \/ UserStop) => MainTypeOK'
<1> SUFFICES ASSUME MainTypeOK, Main \/ UserStop PROVE MainTypeOK'
  OBVIOUS
<1> USE DEF MainTypeOK, stats, resources, outcome, transfer, workerVars,
            Sleeping, Code
<1>1. CASE RejectSize
  BY <1>1 DEF RejectSize
<1>2. CASE OpenChannel
  <2>1. channel' \in BOOLEAN
    BY <1>2 DEF OpenChannel
  <2>2. mpc' \in {"alloc", "shutdown"} /\ iPass' \in Code
    BY <1>2 DEF OpenChannel
  <2> QED
    BY <1>2, <2>1, <2>2 DEF OpenChannel
<1>3. CASE AllocBuffers
  BY <1>3 DEF AllocBuffers
<1>4. CASE StartThreads
  BY <1>4 DEF StartThreads
<1>5. CASE WakePass
  <2>1. ci' \in Thread
    BY <1>5 DEF WakePass, Thread
  <2> QED
    BY <1>5, <2>1 DEF WakePass
<1>6. CASE CollectRead
  BY <1>6 DEF CollectRead, Collected
<1>7. CASE CollectClear
  <2>1. total' \in [Thread -> Nat]
    BY <1>7 DEF CollectClear
  <2>2. ci' \in Thread /\ mpc' \in {"collect", "display"}
    <3>1. CASE ci < NumThreads
      <4>1. ci' = ci + 1 /\ mpc' = "collect"
        BY <1>7, <3>1 DEF CollectClear
      <4>2. ci \in 1 .. NumThreads /\ NumThreads \in Nat
        BY NumThreadsAssumption DEF Thread
      <4> QED
        BY <3>1, <4>1, <4>2 DEF Thread
    <3>2. CASE ~(ci < NumThreads)
      BY <1>7, <3>2 DEF CollectClear
    <3> QED
      BY <3>1, <3>2
  <2>3. UNCHANGED <<config, seconds, tmpSeconds, iPass, interrupted, passBytes,
                    passes, reported, resources, outcome, wpc, running,
                    transfer>>
    BY <1>7 DEF CollectClear
  <2> QED
    BY <2>1, <2>2, <2>3
<1>8. CASE DisplayPass
  BY <1>8 DEF DisplayPass, PassResult
<1>9. CASE ErrorCheck
  BY <1>9 DEF ErrorCheck
<1>10. CASE LoadSeconds
  BY <1>10 DEF LoadSeconds
<1>11. CASE StoreSeconds
  <2>1. seconds' \in 0 .. UIntMod - 1
    BY <1>11, DecrementInRange DEF StoreSeconds
  <2>2. /\ mpc' \in {"stopSleep", "sleep", "gather"}
        /\ running' \in [Thread -> BOOLEAN]
        /\ endedBy' \in {"running", "timeout", "workers"}
    BY <1>11 DEF StoreSeconds, ClearFlags
  <2> QED
    BY <1>11, <2>1, <2>2 DEF StoreSeconds
<1>12. CASE WakeStop
  BY <1>12 DEF WakeStop
<1>13. CASE Gather
  BY <1>13 DEF Gather, GatheredCode
<1>14. CASE Shutdown
  BY <1>14 DEF Shutdown, ClearFlags
<1>15. CASE WakeShutdown
  BY <1>15 DEF WakeShutdown
<1>16. CASE Release
  <2>1. buffer' \in [Thread -> BOOLEAN]
    BY <1>16 DEF Release, FreeBuffers
  <2>2. channel' \in BOOLEAN /\ mpc' = "return"
    BY <1>16 DEF Release
  <2> QED
    BY <1>16, <2>1, <2>2 DEF Release
<1>17. CASE Exit
  BY <1>17 DEF Exit, ExitStatus
<1>18. CASE UserStop
  BY <1>18 DEF UserStop
<1> QED
  BY <1>1, <1>2, <1>3, <1>4, <1>5, <1>6, <1>7, <1>8, <1>9, <1>10, <1>11,
     <1>12, <1>13, <1>14, <1>15, <1>16, <1>17, <1>18 DEF Main

(* Of the places of the workers the main thread only sets the first.       *)
LEMMA MainStarts ==
  ASSUME Main \/ UserStop
  PROVE  wpc' = wpc \/ wpc' \in [Thread -> {"none", "begin"}]
<1> USE DEF workerVars
<1>1. CASE RejectSize \/ OpenChannel \/ AllocBuffers
  BY <1>1 DEF RejectSize, OpenChannel, AllocBuffers
<1>2. CASE StartThreads
  BY <1>2 DEF StartThreads
<1>3. CASE WakePass \/ CollectRead \/ CollectClear \/ DisplayPass
  BY <1>3 DEF WakePass, CollectRead, Collected, CollectClear, DisplayPass
<1>4. CASE ErrorCheck \/ LoadSeconds \/ StoreSeconds \/ WakeStop
  BY <1>4 DEF ErrorCheck, LoadSeconds, StoreSeconds, WakeStop
<1>5. CASE Gather \/ Shutdown \/ WakeShutdown \/ Release \/ Exit \/ UserStop
  BY <1>5 DEF Gather, Shutdown, WakeShutdown, Release, Exit, UserStop
<1> QED
  BY <1>1, <1>2, <1>3, <1>4, <1>5 DEF Main

LEMMA TypeNext == TypeOK /\ [Next]_vars => TypeOK'
<1> SUFFICES ASSUME TypeOK, [Next]_vars PROVE TypeOK'
  OBVIOUS
<1>1. CASE Main \/ UserStop
  <2>1. wpc' \in [Thread -> Busy \cup {"none", "done"}]
    BY <1>1, MainStarts DEF TypeOK, Busy
  <2> QED
    BY <1>1, <2>1, MainTypeNext DEF TypeOK
<1>2. ASSUME NEW i \in Thread, Worker(i) PROVE TypeOK'
  <2> USE DEF TypeOK, MainTypeOK, stats, resources, outcome, transfer,
              workerVars, Sleeping, Busy, Code
  <2> USE DEF Go, mainState
  <2>1. CASE Begin(i)
    BY <2>1 DEF Begin
  <2>2. CASE CheckRunning(i)
    BY <2>2 DEF CheckRunning
  <2>3. CASE IoOk(i)
    BY <2>3 DEF IoOk
  <2>4. CASE IoFail(i)
    BY <2>4 DEF IoFail
  <2>5. CASE LoadTotal(i)
    BY <2>5 DEF LoadTotal
  <2>6. CASE Account(i)
    BY <2>6 DEF Account
  <2>7. CASE Finish(i)
    BY <2>7 DEF Finish
  <2> QED
    BY <1>2, <2>1, <2>2, <2>3, <2>4, <2>5, <2>6, <2>7 DEF Worker
<1>3. CASE UNCHANGED vars
  BY <1>3 DEF vars, stats, resources, outcome, transfer, workerVars, TypeOK,
              MainTypeOK
<1> QED
  BY <1>1, <1>2, <1>3 DEF Next, Terminated

(* Every variable keeps its type, for every value of the constants.        *)
THEOREM TypeCorrect == Spec => []TypeOK
<1> QED
  BY TypeInit, TypeNext, PTL DEF Spec

-----------------------------------------------------------------------------
(* A run whose length option -s bounds.                                    *)
Bounded == config.seconds >= 1 /\ ~config.stopOnError

(* What is left of Seconds pays for the passes still to come.  After       *)
(* DisplayPass the pass just counted is still to be deducted, from Seconds *)
(* and then from the register; a signal can only make Seconds smaller.     *)
CountdownInv ==
  Bounded =>
    /\ mpc \in {"parse", "alloc", "start", "sleep", "collect", "clear", "display"}
         => seconds >= 1 /\ passes + seconds <= config.seconds
    /\ mpc \in {"control", "load"}
         => seconds >= 1 /\ passes + seconds <= config.seconds + 1
    /\ mpc = "store"
         => tmpSeconds >= 1 /\ passes + tmpSeconds <= config.seconds + 1
    /\ passes <= config.seconds

(* The places of the main thread up to the end of the statistics loop.     *)
Setup == {"parse", "alloc", "start"}
Looping == Setup \cup {"sleep", "collect", "clear", "display", "control",
                       "load", "store"}

OutOfLoop == {"finish", "done"}

(* Until main lowers a flag, a lowered flag means its worker lowered it.   *)
JoinInv ==
  /\ mpc \in Setup => \A i \in Thread : wpc[i] = "none"
  /\ mpc \in Looping =>
       /\ endedBy = "running"
       /\ \A i \in Thread : ~running[i] => wpc[i] \in OutOfLoop
  /\ endedBy = "workers" => \A i \in Thread : wpc[i] \in OutOfLoop

(* Gather has looked at results that no longer change.                     *)
ReportInv ==
  /\ endedBy = "workers" /\ iPass = "ok"
       /\ mpc \in {"shutdown", "shutSleep", "free", "return", "done"}
       => \A i \in Thread : werr[i] = "ok"
  /\ mpc = "done" /\ status = "ok" => iPass = "ok"

(* Every positive count goes back to a transfer, and an error-free run has *)
(* reported at least a byte per pass.                                      *)
DataInv ==
  /\ \A i \in Thread : total[i] > 0 \/ tmpTotal[i] > 0 \/ moved[i] > 0
                          => transferred >= 1
  /\ passBytes > 0 \/ reported > 0 => transferred >= 1
  /\ iPass = "ok" => reported >= passes
  /\ iPass = "ok" /\ mpc \in {"control", "load", "store", "stopSleep",
                              "gather", "shutdown", "shutSleep", "free"}
       => passes >= 1
  /\ iPass = "ok" /\ result = "ok" /\ mpc = "return" => passes >= 1
  /\ status = "ok" /\ mpc = "done" => iPass = "ok" /\ passes >= 1

(* What is open or allocated outside the life of a test.                   *)
LeakInv ==
  mpc \in {"parse", "return", "done"} => ~channel /\ \A i \in Thread : ~buffer[i]

LEMMA ConfigTyped ==
  ASSUME TypeOK
  PROVE  /\ config.seconds \in SecondsChoices
         /\ config.seconds \in 0 .. UIntMod - 1
         /\ config.seconds < PassCap
         /\ config.stopOnError \in BOOLEAN
<1>1. config.seconds \in SecondsChoices /\ config.stopOnError \in StopOnErrorChoices
  BY DEF TypeOK, MainTypeOK
<1> QED
  BY <1>1, PassCapCoversSeconds

LEMMA CountdownNext == TypeOK /\ CountdownInv /\ [Next]_vars => CountdownInv'
<1> SUFFICES ASSUME TypeOK /\ CountdownInv, [Next]_vars PROVE CountdownInv'
  OBVIOUS
<1> USE DEF Bounded, CountdownInv, stats, resources, outcome, transfer, workerVars
<1>1. CASE RejectSize
  BY <1>1 DEF RejectSize
<1>2. CASE OpenChannel
  BY <1>2 DEF OpenChannel
<1>3. CASE AllocBuffers
  BY <1>3 DEF AllocBuffers
<1>4. CASE StartThreads
  BY <1>4 DEF StartThreads
<1>5. CASE WakePass
  BY <1>5 DEF WakePass
<1>6. CASE CollectRead
  BY <1>6 DEF CollectRead, Collected
<1>7. CASE CollectClear
  BY <1>7 DEF CollectClear
<1>8. CASE DisplayPass
  <2>1. /\ mpc = "display" /\ mpc' = "control"
        /\ passes' = passes + 1 \/ passes' = passes
        /\ UNCHANGED <<config, seconds>>
    BY <1>8 DEF DisplayPass
  <2>2. passes \in Nat /\ seconds \in Nat /\ config.seconds \in Nat
    BY ConfigTyped DEF TypeOK, MainTypeOK
  <2> QED
    BY <2>1, <2>2
<1>9. CASE ErrorCheck
  BY <1>9 DEF ErrorCheck
<1>10. CASE LoadSeconds
  BY <1>10 DEF LoadSeconds
<1>11. CASE StoreSeconds
  <2>1. /\ seconds' = Decrement(tmpSeconds)
        /\ mpc' \in {"stopSleep", "sleep", "gather"}
        /\ UNCHANGED <<config, passes>>
    BY <1>11 DEF StoreSeconds
  <2>2. Bounded => tmpSeconds >= 1 /\ passes + tmpSeconds <= config.seconds + 1
    BY <1>11 DEF StoreSeconds
  <2>3. /\ Bounded => seconds' = tmpSeconds - 1
        /\ passes \in Nat /\ tmpSeconds \in Nat /\ config.seconds \in Nat
    BY <2>1, <2>2, DecrementInRange, ConfigTyped DEF TypeOK, MainTypeOK
  <2>4. mpc' = "sleep" => seconds' # 0
    BY <1>11, <2>1 DEF StoreSeconds, TimedOut
  <2> QED
    BY <2>1, <2>2, <2>3, <2>4
<1>12. CASE WakeStop
  BY <1>12 DEF WakeStop
<1>13. CASE Gather
  BY <1>13 DEF Gather
<1>14. CASE Shutdown
  BY <1>14 DEF Shutdown
<1>15. CASE WakeShutdown
  BY <1>15 DEF WakeShutdown
<1>16. CASE Release
  BY <1>16 DEF Release
<1>17. CASE Exit
  BY <1>17 DEF Exit
<1>18. ASSUME NEW i \in Thread, Worker(i) PROVE CountdownInv'
  <2> USE DEF Go, mainState
  <2>1. CASE Begin(i)
    BY <2>1 DEF Begin
  <2>2. CASE CheckRunning(i)
    BY <2>2 DEF CheckRunning
  <2>3. CASE IoOk(i)
    BY <2>3 DEF IoOk
  <2>4. CASE IoFail(i)
    BY <2>4 DEF IoFail
  <2>5. CASE LoadTotal(i)
    BY <2>5 DEF LoadTotal
  <2>6. CASE Account(i)
    BY <2>6 DEF Account
  <2>7. CASE Finish(i)
    BY <2>7 DEF Finish
  <2> QED
    BY <1>18, <2>1, <2>2, <2>3, <2>4, <2>5, <2>6, <2>7 DEF Worker
<1>19. CASE UserStop
  <2>1. UNCHANGED <<config, mpc, tmpSeconds, passes>> /\ seconds' = 1
    BY <1>19 DEF UserStop
  <2>2. /\ passes \in Nat /\ seconds \in Nat /\ config.seconds \in Nat
        /\ tmpSeconds \in Nat
    BY ConfigTyped DEF TypeOK, MainTypeOK
  <2> QED
    BY <2>1, <2>2
<1>20. CASE UNCHANGED vars
  BY <1>20 DEF vars
<1> QED
  BY <1>1, <1>2, <1>3, <1>4, <1>5, <1>6, <1>7, <1>8, <1>9, <1>10, <1>11,
     <1>12, <1>13, <1>14, <1>15, <1>16, <1>17, <1>18, <1>19, <1>20
     DEF Next, Main, Terminated

(* Without -e and with -s at least 1, the number of passes is bounded by   *)
(* the seconds asked for, whatever the workers and the user do.            *)
THEOREM CountdownCorrect == Spec => []PassesWithinSeconds
<1>1. Init => CountdownInv
  <2> SUFFICES ASSUME Init PROVE CountdownInv
    OBVIOUS
  <2>1. config.seconds \in 0 .. UIntMod - 1
    BY TypeInit, ConfigTyped
  <2> QED
    BY <2>1 DEF Init, CountdownInv, Bounded
<1>2. CountdownInv => PassesWithinSeconds
  BY DEF CountdownInv, PassesWithinSeconds, Bounded
<1> QED
  BY <1>1, <1>2, CountdownNext, TypeCorrect, PTL DEF Spec

-----------------------------------------------------------------------------
LEMMA JoinNext == TypeOK /\ JoinInv /\ [Next]_vars => JoinInv'
<1> SUFFICES ASSUME TypeOK /\ JoinInv, [Next]_vars PROVE JoinInv'
  OBVIOUS
<1> USE DEF TypeOK, MainTypeOK, JoinInv, Setup, Looping, OutOfLoop, stats, resources, outcome, transfer, workerVars
<1>1. CASE RejectSize
  BY <1>1 DEF RejectSize
<1>2. CASE OpenChannel
  BY <1>2 DEF OpenChannel
<1>3. CASE AllocBuffers
  BY <1>3 DEF AllocBuffers
<1>4. CASE StartThreads
  BY <1>4 DEF StartThreads
<1>5. CASE WakePass
  BY <1>5 DEF WakePass
<1>6. CASE CollectRead
  BY <1>6 DEF CollectRead, Collected
<1>7. CASE CollectClear
  BY <1>7 DEF CollectClear
<1>8. CASE DisplayPass
  BY <1>8 DEF DisplayPass
<1>9. CASE ErrorCheck
  BY <1>9 DEF ErrorCheck
<1>10. CASE LoadSeconds
  BY <1>10 DEF LoadSeconds
<1>11. CASE StoreSeconds
  BY <1>11 DEF StoreSeconds, ClearFlags, AnyRunning
<1>12. CASE WakeStop
  BY <1>12 DEF WakeStop
<1>13. CASE Gather
  BY <1>13 DEF Gather
<1>14. CASE Shutdown
  BY <1>14 DEF Shutdown, ClearFlags
<1>15. CASE WakeShutdown
  BY <1>15 DEF WakeShutdown
<1>16. CASE Release
  BY <1>16 DEF Release
<1>17. CASE Exit
  BY <1>17 DEF Exit
<1>18. ASSUME NEW i \in Thread, Worker(i) PROVE JoinInv'
  <2> USE DEF Go, mainState
  <2>1. CASE Begin(i)
    BY <2>1 DEF Begin
  <2>2. CASE CheckRunning(i)
    BY <2>2 DEF CheckRunning
  <2>3. CASE IoOk(i)
    BY <2>3 DEF IoOk
  <2>4. CASE IoFail(i)
    BY <2>4 DEF IoFail
  <2>5. CASE LoadTotal(i)
    BY <2>5 DEF LoadTotal
  <2>6. CASE Account(i)
    BY <2>6 DEF Account
  <2>7. CASE Finish(i)
    BY <2>7 DEF Finish
  <2> QED
    BY <1>18, <2>1, <2>2, <2>3, <2>4, <2>5, <2>6, <2>7 DEF Worker
<1>19. CASE UserStop
  BY <1>19 DEF UserStop
<1>20. CASE UNCHANGED vars
  BY <1>20 DEF vars
<1> QED
  BY <1>1, <1>2, <1>3, <1>4, <1>5, <1>6, <1>7, <1>8, <1>9, <1>10, <1>11,
     <1>12, <1>13, <1>14, <1>15, <1>16, <1>17, <1>18, <1>19, <1>20
     DEF Next, Main, Terminated

(* After a natural end no worker is left in its transfer loop.             *)
THEOREM NaturalEndCorrect == Spec => []NaturalEndIsJoined
<1>1. Init => JoinInv
  BY DEF Init, JoinInv, Setup, Looping, OutOfLoop
<1>2. JoinInv => NaturalEndIsJoined
  BY DEF JoinInv, NaturalEndIsJoined, OutOfLoop
<1> QED
  BY <1>1, <1>2, JoinNext, TypeCorrect, PTL DEF Spec

-----------------------------------------------------------------------------
LEMMA ReportNext == TypeOK /\ JoinInv /\ ReportInv /\ [Next]_vars => ReportInv'
<1> SUFFICES ASSUME TypeOK /\ JoinInv /\ ReportInv, [Next]_vars PROVE ReportInv'
  OBVIOUS
<1> USE DEF TypeOK, MainTypeOK, JoinInv, ReportInv, Looping, Setup, OutOfLoop, stats, resources, outcome, transfer, workerVars
<1>1. CASE RejectSize
  BY <1>1 DEF RejectSize
<1>2. CASE OpenChannel
  BY <1>2 DEF OpenChannel
<1>3. CASE AllocBuffers
  BY <1>3 DEF AllocBuffers
<1>4. CASE StartThreads
  BY <1>4 DEF StartThreads
<1>5. CASE WakePass
  BY <1>5 DEF WakePass
<1>6. CASE CollectRead
  BY <1>6 DEF CollectRead, Collected
<1>7. CASE CollectClear
  BY <1>7 DEF CollectClear
<1>8. CASE DisplayPass
  BY <1>8 DEF DisplayPass, PassResult
<1>9. CASE ErrorCheck
  BY <1>9 DEF ErrorCheck
<1>10. CASE LoadSeconds
  BY <1>10 DEF LoadSeconds
<1>11. CASE StoreSeconds
  BY <1>11 DEF StoreSeconds
<1>12. CASE WakeStop
  BY <1>12 DEF WakeStop
<1>13. CASE Gather
  BY <1>13 DEF Gather, GatheredCode
<1>14. CASE Shutdown
  BY <1>14 DEF Shutdown
<1>15. CASE WakeShutdown
  BY <1>15 DEF WakeShutdown
<1>16. CASE Release
  BY <1>16 DEF Release
<1>17. CASE Exit
  BY <1>17 DEF Exit, ExitStatus
<1>18. ASSUME NEW i \in Thread, Worker(i) PROVE ReportInv'
  <2> USE DEF Go, mainState
  <2>1. CASE Begin(i)
    BY <2>1 DEF Begin
  <2>2. CASE CheckRunning(i)
    BY <2>2 DEF CheckRunning
  <2>3. CASE IoOk(i)
    BY <2>3 DEF IoOk
  <2>4. CASE IoFail(i)
    BY <2>4 DEF IoFail
  <2>5. CASE LoadTotal(i)
    BY <2>5 DEF LoadTotal
  <2>6. CASE Account(i)
    BY <2>6 DEF Account
  <2>7. CASE Finish(i)
    BY <2>7 DEF Finish
  <2> QED
    BY <1>18, <2>1, <2>2, <2>3, <2>4, <2>5, <2>6, <2>7 DEF Worker
<1>19. CASE UserStop
  BY <1>19 DEF UserStop
<1>20. CASE UNCHANGED vars
  BY <1>20 DEF vars
<1> QED
  BY <1>1, <1>2, <1>3, <1>4, <1>5, <1>6, <1>7, <1>8, <1>9, <1>10, <1>11,
     <1>12, <1>13, <1>14, <1>15, <1>16, <1>17, <1>18, <1>19, <1>20
     DEF Next, Main, Terminated

(* After a natural end a zero exit status means no worker met an error.    *)
THEOREM NaturalEndReportCorrect == Spec => []NaturalEndReportsErrors
<1>1. Init => JoinInv /\ ReportInv
  BY DEF Init, JoinInv, ReportInv, Setup, Looping, OutOfLoop
<1>2. ReportInv => NaturalEndReportsErrors
  BY DEF ReportInv, NaturalEndReportsErrors
<1> QED
  BY <1>1, <1>2, JoinNext, ReportNext, TypeCorrect, PTL DEF Spec

-----------------------------------------------------------------------------
LEMMA DataNext == TypeOK /\ DataInv /\ [Next]_vars => DataInv'
<1> SUFFICES ASSUME TypeOK /\ DataInv, [Next]_vars PROVE DataInv'
  OBVIOUS
<1> USE DEF TypeOK, MainTypeOK, DataInv, stats, resources, outcome, transfer, workerVars
<1>1. CASE RejectSize
  BY <1>1 DEF RejectSize
<1>2. CASE OpenChannel
  BY <1>2 DEF OpenChannel
<1>3. CASE AllocBuffers
  BY <1>3 DEF AllocBuffers
<1>4. CASE StartThreads
  BY <1>4 DEF StartThreads
<1>5. CASE WakePass
  BY <1>5 DEF WakePass
<1>6. CASE CollectRead
  BY <1>6 DEF CollectRead, Collected
<1>7. CASE CollectClear
  BY <1>7 DEF CollectClear
<1>8. CASE DisplayPass
  <2>1. /\ mpc' = "control"
        /\ reported' = reported + passBytes
        /\ iPass' = PassResult(passBytes, iPass)
        /\ passes' = IF passes < PassCap THEN passes + 1 ELSE passes
        /\ UNCHANGED <<passBytes, total, tmpTotal, moved, transferred, result,
                       status>>
    BY <1>8 DEF DisplayPass
  <2>2. passBytes \in Nat /\ passes \in Nat /\ reported \in Nat
    OBVIOUS
  <2>3. passes' \in Nat /\ passes' <= passes + 1 /\ passes' >= 1
    <3>1. PassCap \in Nat /\ PassCap >= 1
      BY ConfigTyped, PassCapAssumption
    <3> QED
      BY <2>1, <2>2, <3>1
  <2>4. iPass' = "ok" => iPass = "ok" /\ passBytes >= 1
    BY <2>1, <2>2 DEF PassResult
  <2>5. iPass' = "ok" => reported' >= passes' /\ passes' >= 1
    BY <2>1, <2>2, <2>3, <2>4
  <2>6. passBytes' > 0 \/ reported' > 0 => transferred' >= 1
    BY <2>1, <2>2
  <2>7. \A i \in Thread : total'[i] > 0 \/ tmpTotal'[i] > 0 \/ moved'[i] > 0
                           => transferred' >= 1
    BY <2>1
  <2> QED
    BY <2>1, <2>5, <2>6, <2>7
<1>9. CASE ErrorCheck
  BY <1>9 DEF ErrorCheck
<1>10. CASE LoadSeconds
  BY <1>10 DEF LoadSeconds
<1>11. CASE StoreSeconds
  BY <1>11 DEF StoreSeconds
<1>12. CASE WakeStop
  BY <1>12 DEF WakeStop
<1>13. CASE Gather
  BY <1>13 DEF Gather, GatheredCode
<1>14. CASE Shutdown
  BY <1>14 DEF Shutdown
<1>15. CASE WakeShutdown
  BY <1>15 DEF WakeShutdown
<1>16. CASE Release
  BY <1>16 DEF Release
<1>17. CASE Exit
  BY <1>17 DEF Exit, ExitStatus
<1>18. ASSUME NEW i \in Thread, Worker(i) PROVE DataInv'
  <2> USE DEF Go, mainState
  <2>1. CASE Begin(i)
    BY <2>1 DEF Begin
  <2>2. CASE CheckRunning(i)
    BY <2>2 DEF CheckRunning
  <2>3. CASE IoOk(i)
    BY <2>3 DEF IoOk
  <2>4. CASE IoFail(i)
    BY <2>4 DEF IoFail
  <2>5. CASE LoadTotal(i)
    BY <2>5 DEF LoadTotal
  <2>6. CASE Account(i)
    BY <2>6 DEF Account
  <2>7. CASE Finish(i)
    BY <2>7 DEF Finish
  <2> QED
    BY <1>18, <2>1, <2>2, <2>3, <2>4, <2>5, <2>6, <2>7 DEF Worker
<1>19. CASE UserStop
  BY <1>19 DEF UserStop
<1>20. CASE UNCHANGED vars
  BY <1>20 DEF vars
<1> QED
  BY <1>1, <1>2, <1>3, <1>4, <1>5, <1>6, <1>7, <1>8, <1>9, <1>10, <1>11,
     <1>12, <1>13, <1>14, <1>15, <1>16, <1>17, <1>18, <1>19, <1>20
     DEF Next, Main, Terminated

(* A zero exit status means that data moved in every pass.                 *)
THEOREM SuccessCorrect == Spec => []SuccessMeansData
<1>1. Init => DataInv
  BY DEF Init, DataInv
<1>2. TypeOK /\ DataInv => SuccessMeansData
  <2> SUFFICES ASSUME TypeOK, DataInv, mpc = "done", status = "ok"
               PROVE  passes >= 1 /\ reported >= passes /\ transferred >= 1
    BY DEF SuccessMeansData
  <2> QED
    BY DEF DataInv, TypeOK, MainTypeOK
<1> QED
  BY <1>1, <1>2, DataNext, TypeCorrect, PTL DEF Spec

-----------------------------------------------------------------------------
LEMMA LeakNext == TypeOK /\ LeakInv /\ [Next]_vars => LeakInv'
<1> SUFFICES ASSUME TypeOK /\ LeakInv, [Next]_vars PROVE LeakInv'
  OBVIOUS
<1> USE DEF TypeOK, MainTypeOK, LeakInv, stats, resources, outcome, transfer, workerVars
<1>1. CASE RejectSize
  BY <1>1 DEF RejectSize
<1>2. CASE OpenChannel
  BY <1>2 DEF OpenChannel
<1>3. CASE AllocBuffers
  BY <1>3 DEF AllocBuffers
<1>4. CASE StartThreads
  BY <1>4 DEF StartThreads
<1>5. CASE WakePass
  BY <1>5 DEF WakePass
<1>6. CASE CollectRead
  BY <1>6 DEF CollectRead, Collected
<1>7. CASE CollectClear
  BY <1>7 DEF CollectClear
<1>8. CASE DisplayPass
  BY <1>8 DEF DisplayPass
<1>9. CASE ErrorCheck
  BY <1>9 DEF ErrorCheck
<1>10. CASE LoadSeconds
  BY <1>10 DEF LoadSeconds
<1>11. CASE StoreSeconds
  BY <1>11 DEF StoreSeconds
<1>12. CASE WakeStop
  BY <1>12 DEF WakeStop
<1>13. CASE Gather
  BY <1>13 DEF Gather
<1>14. CASE Shutdown
  BY <1>14 DEF Shutdown
<1>15. CASE WakeShutdown
  BY <1>15 DEF WakeShutdown
<1>16. CASE Release
  BY <1>16 DEF Release, FreeBuffers
<1>17. CASE Exit
  BY <1>17 DEF Exit
<1>18. ASSUME NEW i \in Thread, Worker(i) PROVE LeakInv'
  <2> USE DEF Go, mainState
  <2>1. CASE Begin(i)
    BY <2>1 DEF Begin
  <2>2. CASE CheckRunning(i)
    BY <2>2 DEF CheckRunning
  <2>3. CASE IoOk(i)
    BY <2>3 DEF IoOk
  <2>4. CASE IoFail(i)
    BY <2>4 DEF IoFail
  <2>5. CASE LoadTotal(i)
    BY <2>5 DEF LoadTotal
  <2>6. CASE Account(i)
    BY <2>6 DEF Account
  <2>7. CASE Finish(i)
    BY <2>7 DEF Finish
  <2> QED
    BY <1>18, <2>1, <2>2, <2>3, <2>4, <2>5, <2>6, <2>7 DEF Worker
<1>19. CASE UserStop
  BY <1>19 DEF UserStop
<1>20. CASE UNCHANGED vars
  BY <1>20 DEF vars
<1> QED
  BY <1>1, <1>2, <1>3, <1>4, <1>5, <1>6, <1>7, <1>8, <1>9, <1>10, <1>11,
     <1>12, <1>13, <1>14, <1>15, <1>16, <1>17, <1>18, <1>19, <1>20
     DEF Next, Main, Terminated

(* Nothing is allocated or open at exit, on any path.                      *)
THEOREM LeakFree == Spec => []NothingLeaks
<1>1. Init => LeakInv
  BY DEF Init, LeakInv
<1>2. LeakInv => NothingLeaks
  BY DEF LeakInv, NothingLeaks
<1> QED
  BY <1>1, <1>2, LeakNext, TypeCorrect, PTL DEF Spec

-----------------------------------------------------------------------------
(* After a signal the second to come is the last, until --Seconds is done  *)
(* with it; a signal that --Seconds loses is not counted.                  *)
InterruptInv ==
  interrupted /\ ~config.stopOnError =>
    /\ mpc \in Looping \ {"store"} => seconds = 1
    /\ mpc = "store" => tmpSeconds = 1

LEMMA InterruptNext == TypeOK /\ InterruptInv /\ [Next]_vars => InterruptInv'
<1> SUFFICES ASSUME TypeOK /\ InterruptInv, [Next]_vars PROVE InterruptInv'
  OBVIOUS
<1> USE DEF InterruptInv, Setup, Looping, stats, resources, outcome, transfer, workerVars
<1>1. CASE RejectSize \/ OpenChannel \/ AllocBuffers \/ StartThreads
  BY <1>1 DEF RejectSize, OpenChannel, AllocBuffers, StartThreads
<1>2. CASE WakePass \/ CollectRead \/ CollectClear \/ DisplayPass
  BY <1>2 DEF WakePass, CollectRead, Collected, CollectClear, DisplayPass
<1>3. CASE ErrorCheck \/ LoadSeconds
  BY <1>3 DEF ErrorCheck, LoadSeconds
<1>4. CASE StoreSeconds
  <2>1. /\ mpc = "store" /\ mpc' \in {"stopSleep", "sleep", "gather"}
        /\ mpc' # "stopSleep" => ~TimedOut(tmpSeconds)
        /\ mpc' = "gather" \/ mpc' = "sleep" \/ mpc' = "stopSleep"
        /\ UNCHANGED <<config, interrupted>>
    BY <1>4 DEF StoreSeconds
  <2>2. tmpSeconds = 1 => TimedOut(tmpSeconds)
    BY UIntModAssumption DEF TimedOut, Decrement
  <2> QED
    BY <2>1, <2>2
<1>5. CASE WakeStop \/ Gather \/ Shutdown \/ WakeShutdown \/ Release \/ Exit
  BY <1>5 DEF WakeStop, Gather, Shutdown, WakeShutdown, Release, Exit
<1>6. ASSUME NEW i \in Thread, Worker(i) PROVE InterruptInv'
  BY <1>6 DEF Worker, Begin, CheckRunning, IoOk, IoFail, LoadTotal, Account,
              Finish, Go, mainState
<1>7. CASE UserStop
  BY <1>7 DEF UserStop
<1>8. CASE UNCHANGED vars
  BY <1>8 DEF vars
<1> QED
  BY <1>1, <1>2, <1>3, <1>4, <1>5, <1>6, <1>7, <1>8 DEF Next, Main, Terminated

(* A Ctrl-C is followed by one more pass at most, whatever the workers do  *)
(* and whatever -s is, unless it came in the middle of --Seconds.          *)
THEOREM InterruptCorrect == Spec => []InterruptHonoured
<1>1. Init => InterruptInv
  BY DEF Init, InterruptInv
<1>2. InterruptInv => InterruptHonoured
  BY DEF InterruptInv, InterruptHonoured, Looping
<1> QED
  BY <1>1, <1>2, InterruptNext, TypeCorrect, PTL DEF Spec

=============================================================================
