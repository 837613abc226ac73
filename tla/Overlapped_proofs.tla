-------------------------- MODULE Overlapped_proofs --------------------------
(***************************************************************************)
(* Proofs about Overlapped, for every number of threads, option value and  *)
(* transfer size, with slow drivers and without.                           *)
(***************************************************************************)
EXTENDS Overlapped, TestRun_proofs

USE SlowAssumption

(* A step of the main thread or the handler leaves the workers' overlapped *)
(* state alone.                                                            *)
LEMMA WStepCases ==
  ASSUME [WNext]_wvars
  PROVE  \/ (Main \/ UserStop) /\ UNCHANGED overlap
         \/ \E i \in Thread : WWorker(i)
         \/ \E i \in Thread : Cancel(i)
         \/ UNCHANGED wvars
  BY DEF WNext, Terminated, wvars

-----------------------------------------------------------------------------
LEMMA WTypeInit == WInit => WTypeOK
<1> SUFFICES ASSUME WInit PROVE WTypeOK
  OBVIOUS
<1>1. TypeOK
  BY TypeInit DEF WInit
<1>2. slow \in BOOLEAN
  BY DEF WInit
<1> QED
  BY <1>1, <1>2 DEF WInit, WTypeOK, TypeOK

LEMMA WTypeNext == WTypeOK /\ [WNext]_wvars => WTypeOK'
<1> SUFFICES ASSUME WTypeOK, [WNext]_wvars PROVE WTypeOK'
  OBVIOUS
<1>1. CASE (Main \/ UserStop) /\ UNCHANGED overlap
  <2>1. MainTypeOK'
    BY <1>1, MainTypeNext DEF WTypeOK
  <2>2. wpc' \in [Thread -> Busy \cup {"none", "issue", "done"}]
    BY <1>1, MainStarts DEF WTypeOK, Busy
  <2> QED
    BY <1>1, <2>1, <2>2 DEF WTypeOK, overlap
<1>2. ASSUME NEW i \in Thread, WWorker(i) PROVE WTypeOK'
  <2> USE DEF WTypeOK, MainTypeOK, Go, Return, mainState, stats, resources,
              outcome, transfer, overlap, Busy, Code, Sleeping
  <2>1. CASE WBegin(i)
    BY <2>1, MaxBytesAssumption DEF WBegin
  <2>2. CASE Complete(i)
    BY <2>2 DEF Complete
  <2>3. CASE CompleteError(i)
    BY <2>3, MaxBytesAssumption DEF CompleteError
  <2>4. CASE WLoadTotal(i)
    BY <2>4 DEF WLoadTotal, LoadTotal
  <2>5. CASE WAddTotal(i)
    BY <2>5 DEF WAddTotal
  <2>6. CASE Issue(i)
    BY <2>6 DEF Issue
  <2>7. CASE IssueFails(i)
    BY <2>7 DEF IssueFails
  <2>8. CASE LastCallback(i)
    BY <2>8 DEF LastCallback
  <2>9. CASE WCheckRunning(i)
    BY <2>9 DEF WCheckRunning, CheckRunning
  <2>10. CASE WaitServed(i)
    BY <2>10 DEF WaitServed
  <2>11. CASE WaitTimeout(i)
    BY <2>11 DEF WaitTimeout, AfterTimeout
  <2>12. CASE WaitFailed(i)
    BY <2>12 DEF WaitFailed
  <2>13. CASE WFinish(i)
    BY <2>13 DEF WFinish, Finish
  <2> QED
    BY <1>2, <2>1, <2>2, <2>3, <2>4, <2>5, <2>6, <2>7, <2>8, <2>9, <2>10,
       <2>11, <2>12, <2>13 DEF WWorker
<1>3. ASSUME NEW i \in Thread, Cancel(i) PROVE WTypeOK'
  BY <1>3 DEF Cancel, WTypeOK, MainTypeOK, vars, stats, resources, outcome,
              workerVars, transfer
<1>4. CASE UNCHANGED wvars
  BY <1>4 DEF wvars, overlap, WTypeOK, MainTypeOK, vars, stats, resources,
              outcome, workerVars, transfer
<1> QED
  BY <1>1, <1>2, <1>3, <1>4, WStepCases

(* Every variable of the Windows test keeps its type.                      *)
THEOREM WTypeCorrect == WSpec => []WTypeOK
<1> QED
  BY WTypeInit, WTypeNext, PTL DEF WSpec

-----------------------------------------------------------------------------
(* What a thread may have left with the driver when it is out of its loop. *)
Settled(i) == pending[i] => slow \/ werr[i] # "ok"

(* A worker that has lowered its flag issues nothing more and waits for    *)
(* nothing: it is on its way out.                                          *)
Quiet(i) ==
  \/ wpc[i] = "io" /\ served[i] /\ ~pending[i]
  \/ wpc[i] = "check" /\ ~pending[i]
  \/ wpc[i] \in OutOfLoop /\ Settled(i)

(* Until the main thread lowers a flag, a lowered flag is a quiet worker.  *)
QuietInv ==
  /\ mpc \in Setup => \A i \in Thread : wpc[i] = "none"
  /\ \A i \in Thread :
       wpc[i] \in {"none", "begin", "load", "account", "issue"} => ~pending[i]
  /\ mpc \in Looping =>
       /\ endedBy = "running"
       /\ \A i \in Thread : ~running[i] => Quiet(i)
       /\ \A i \in Thread : wpc[i] \in OutOfLoop => Settled(i)
  /\ endedBy = "workers" => \A i \in Thread : ~running[i] /\ Quiet(i)

LEMMA QuietNext == WTypeOK /\ QuietInv /\ [WNext]_wvars => QuietInv'
<1> SUFFICES ASSUME WTypeOK, QuietInv, [WNext]_wvars PROVE QuietInv'
  OBVIOUS
<1> USE DEF WTypeOK, MainTypeOK, QuietInv, Quiet, Settled, Setup, Looping,
            OutOfLoop, stats, resources, outcome, transfer, workerVars
<1>1. CASE (Main \/ UserStop) /\ UNCHANGED overlap
  <2> USE DEF overlap
  <2>1. CASE RejectSize \/ OpenChannel \/ AllocBuffers
    BY <1>1, <2>1 DEF RejectSize, OpenChannel, AllocBuffers
  <2>2. CASE StartThreads
    BY <1>1, <2>2 DEF StartThreads
  <2>3. CASE WakePass \/ CollectRead \/ CollectClear \/ DisplayPass
    BY <1>1, <2>3 DEF WakePass, CollectRead, Collected, CollectClear, DisplayPass, PassResult
  <2>4. CASE ErrorCheck \/ LoadSeconds \/ WakeStop
    BY <1>1, <2>4 DEF ErrorCheck, LoadSeconds, WakeStop
  <2>5. CASE StoreSeconds
    BY <1>1, <2>5 DEF StoreSeconds, AnyRunning, ClearFlags
  <2>6. CASE Gather
    BY <1>1, <2>6 DEF Gather, GatheredCode
  <2>7. CASE Shutdown \/ WakeShutdown \/ Release
    BY <1>1, <2>7 DEF Shutdown, ClearFlags, WakeShutdown, Release
  <2>8. CASE Exit \/ UserStop
    BY <1>1, <2>8, SMTT(30) DEF Exit, ExitStatus, UserStop
  <2> QED
    BY <1>1, <2>1, <2>2, <2>3, <2>4, <2>5, <2>6, <2>7, <2>8 DEF Main
<1>2. ASSUME NEW i \in Thread, WWorker(i) PROVE QuietInv'
  <2> USE DEF Go, Return, ToGo, mainState, overlap
  <2>1. CASE WBegin(i)
    BY <1>2, <2>1 DEF WBegin
  <2>2. CASE Complete(i)
    BY <1>2, <2>2 DEF Complete
  <2>3. CASE CompleteError(i)
    BY <1>2, <2>3 DEF CompleteError
  <2>4. CASE WLoadTotal(i)
    BY <1>2, <2>4 DEF WLoadTotal, LoadTotal
  <2>5. CASE WAddTotal(i)
    BY <1>2, <2>5 DEF WAddTotal
  <2>6. CASE Issue(i)
    BY <1>2, <2>6 DEF Issue
  <2>7. CASE IssueFails(i)
    BY <1>2, <2>7 DEF IssueFails
  <2>8. CASE LastCallback(i)
    BY <1>2, <2>8 DEF LastCallback
  <2>9. CASE WCheckRunning(i)
    BY <1>2, <2>9 DEF WCheckRunning, CheckRunning
  <2>10. CASE WaitServed(i)
    BY <1>2, <2>10 DEF WaitServed
  <2>11. CASE WaitTimeout(i)
    BY <1>2, <2>11 DEF WaitTimeout, AfterTimeout
  <2>12. CASE WaitFailed(i)
    BY <1>2, <2>12 DEF WaitFailed
  <2>13. CASE WFinish(i)
    BY <1>2, <2>13 DEF WFinish, Finish
  <2> QED
    BY <1>2, <2>1, <2>2, <2>3, <2>4, <2>5, <2>6, <2>7,
       <2>8, <2>9, <2>10, <2>11, <2>12, <2>13 DEF WWorker
<1>3. ASSUME NEW i \in Thread, Cancel(i) PROVE QuietInv'
  BY <1>3 DEF Cancel, vars
<1>4. CASE UNCHANGED wvars
  BY <1>4 DEF wvars, overlap, vars
<1> QED
  BY <1>1, <1>2, <1>3, <1>4, WStepCases

(* After a natural end the driver holds no transfer of a worker that had   *)
(* neither a slow transfer nor an error.                                   *)
THEOREM NaturalEndQuietCorrect == WSpec => []NaturalEndIsQuiet
<1>1. WInit => QuietInv
  BY DEF WInit, Init, QuietInv, Setup, Looping, OutOfLoop
<1>2. QuietInv => NaturalEndIsQuiet
  BY DEF QuietInv, NaturalEndIsQuiet, Quiet, Settled, OutOfLoop
<1> QED
  BY <1>1, <1>2, QuietNext, WTypeCorrect, PTL DEF WSpec

-----------------------------------------------------------------------------
(* Why a worker may be without work: it has issued all its transfers, or   *)
(* something went wrong.                                                   *)
Idle(i) ==
  left[i] = -1 \/ werr[i] # "ok" \/ (refused[i] /\ config.stopOnError)

(* The callbacks count: what is issued and what is left make up the share  *)
(* of the thread, as long as no issue failed; a worker that is without a   *)
(* transfer or out of its loop is idle, or its transfer is slow.           *)
IssuedInv ==
  /\ \A i \in Thread : left[i] >= -1
  /\ \A i \in Thread :
       left[i] = -1 => ~pending[i] /\ wpc[i] \in {"io", "check"} \cup OutOfLoop
  /\ \A i \in Thread :
       werr[i] = "ok" =>
         issued[i] + left[i] =
           NumberTransfers(config.iterations) - IF left[i] = -1 THEN 1 ELSE 0
  /\ \A i \in Thread :
       wpc[i] \in {"io", "check"} /\ ~pending[i] => Idle(i)
  /\ mpc \in Looping =>
       \A i \in Thread : ~running[i] \/ wpc[i] \in OutOfLoop => Idle(i) \/ slow
  /\ endedBy = "workers" => \A i \in Thread : Idle(i) \/ slow

LEMMA ShareTyped ==
  ASSUME WTypeOK
  PROVE  NumberTransfers(config.iterations) \in Nat \ {0}
<1>1. config.iterations \in Nat
  <2>1. config.iterations \in IterationsChoices
    BY DEF WTypeOK, MainTypeOK
  <2> QED
    BY <2>1, ChoicesAssumption
<1> QED
  BY <1>1, NumberTransfersPositive

LEMMA IssuedNext == WTypeOK /\ QuietInv /\ IssuedInv /\ [WNext]_wvars => IssuedInv'
<1> SUFFICES ASSUME WTypeOK, QuietInv, IssuedInv, [WNext]_wvars PROVE IssuedInv'
  OBVIOUS
<1> DEFINE N == NumberTransfers(config.iterations)
<1>0. N \in Nat
  BY ShareTyped
<1>01. config' = config => NumberTransfers(config'.iterations) = N
  OBVIOUS
<1> HIDE DEF N
<1> USE <1>0, <1>01
<1> USE DEF WTypeOK, MainTypeOK, QuietInv, IssuedInv, Quiet, Settled, Idle, Setup,
            Looping, OutOfLoop, stats, resources, outcome, transfer, workerVars
<1>1. CASE (Main \/ UserStop) /\ UNCHANGED overlap
  <2> USE DEF overlap
  <2>1. CASE RejectSize \/ OpenChannel \/ AllocBuffers
    BY <1>1, <2>1 DEF RejectSize, OpenChannel, AllocBuffers
  <2>2. CASE StartThreads
    BY <1>1, <2>2 DEF StartThreads
  <2>3. CASE WakePass \/ CollectRead \/ CollectClear \/ DisplayPass
    BY <1>1, <2>3 DEF WakePass, CollectRead, Collected, CollectClear, DisplayPass, PassResult
  <2>4. CASE ErrorCheck \/ LoadSeconds \/ WakeStop
    BY <1>1, <2>4 DEF ErrorCheck, LoadSeconds, WakeStop
  <2>5. CASE StoreSeconds
    BY <1>1, <2>5 DEF StoreSeconds, AnyRunning, ClearFlags
  <2>6. CASE Gather
    BY <1>1, <2>6 DEF Gather, GatheredCode
  <2>7. CASE Shutdown \/ WakeShutdown \/ Release
    BY <1>1, <2>7 DEF Shutdown, ClearFlags, WakeShutdown, Release
  <2>8. CASE Exit \/ UserStop
    BY <1>1, <2>8, SMTT(30) DEF Exit, ExitStatus, UserStop
  <2> QED
    BY <1>1, <2>1, <2>2, <2>3, <2>4, <2>5, <2>6, <2>7, <2>8 DEF Main
<1>2. ASSUME NEW i \in Thread, WWorker(i) PROVE IssuedInv'
  <2> USE DEF Go, Return, ToGo, mainState, overlap
  <2>1. CASE WBegin(i)
    BY <1>2, <2>1 DEF WBegin
  <2>2. CASE Complete(i)
    BY <1>2, <2>2 DEF Complete
  <2>3. CASE CompleteError(i)
    BY <1>2, <2>3 DEF CompleteError
  <2>4. CASE WLoadTotal(i)
    BY <1>2, <2>4 DEF WLoadTotal, LoadTotal
  <2>5. CASE WAddTotal(i)
    BY <1>2, <2>5 DEF WAddTotal
  <2>6. CASE Issue(i)
    <3>1. /\ left[i] > 0
          /\ left' = [left EXCEPT ![i] = left[i] - 1]
          /\ issued' = [issued EXCEPT ![i] = issued[i] + 1]
          /\ pending' = [pending EXCEPT ![i] = TRUE]
          /\ wpc[i] = "issue" /\ wpc' = [wpc EXCEPT ![i] = IF served[i] THEN "io" ELSE "check"]
          /\ UNCHANGED <<mpc, endedBy, running, werr, refused, slow, config>>
      BY <1>2, <2>6 DEF Issue
    <3>2. \A j \in Thread : left'[j] >= -1
      BY <3>1
    <3>3. \A j \in Thread :
            left'[j] = -1 => ~pending'[j] /\ wpc'[j] \in {"io", "check"} \cup OutOfLoop
      BY <3>1
    <3>4. \A j \in Thread :
            werr'[j] = "ok" =>
              issued'[j] + left'[j] =
                NumberTransfers(config'.iterations) - IF left'[j] = -1 THEN 1 ELSE 0
      BY <3>1, SMTT(30)
    <3>5. \A j \in Thread :
            wpc'[j] \in {"io", "check"} /\ ~pending'[j] => Idle(j)'
      BY <3>1
    <3>6. mpc' \in Looping =>
            \A j \in Thread : ~running'[j] \/ wpc'[j] \in OutOfLoop => Idle(j)' \/ slow'
      BY <3>1
    <3>7. endedBy' = "workers" => \A j \in Thread : Idle(j)' \/ slow'
      BY <3>1
    <3> QED
      BY <3>2, <3>3, <3>4, <3>5, <3>6, <3>7
  <2>7. CASE IssueFails(i)
    BY <1>2, <2>7, SMTT(30) DEF IssueFails
  <2>8. CASE LastCallback(i)
    BY <1>2, <2>8 DEF LastCallback
  <2>9. CASE WCheckRunning(i)
    BY <1>2, <2>9 DEF WCheckRunning, CheckRunning
  <2>10. CASE WaitServed(i)
    BY <1>2, <2>10 DEF WaitServed
  <2>11. CASE WaitTimeout(i)
    BY <1>2, <2>11 DEF WaitTimeout, AfterTimeout
  <2>12. CASE WaitFailed(i)
    BY <1>2, <2>12 DEF WaitFailed
  <2>13. CASE WFinish(i)
    BY <1>2, <2>13 DEF WFinish, Finish
  <2> QED
    BY <1>2, <2>1, <2>2, <2>3, <2>4, <2>5, <2>6, <2>7,
       <2>8, <2>9, <2>10, <2>11, <2>12, <2>13 DEF WWorker
<1>3. ASSUME NEW i \in Thread, Cancel(i) PROVE IssuedInv'
  BY <1>3 DEF Cancel, vars
<1>4. CASE UNCHANGED wvars
  BY <1>4 DEF wvars, overlap, vars
<1> QED
  BY <1>1, <1>2, <1>3, <1>4, WStepCases

(* Codes are final when they are gathered after a natural end.             *)
LEMMA WReportNext == WTypeOK /\ QuietInv /\ ReportInv /\ [WNext]_wvars => ReportInv'
<1> SUFFICES ASSUME WTypeOK, QuietInv, ReportInv, [WNext]_wvars PROVE ReportInv'
  OBVIOUS
<1> USE DEF WTypeOK, MainTypeOK, QuietInv, ReportInv, Quiet, Settled, Setup,
            Looping, OutOfLoop, stats, resources, outcome, transfer, workerVars
<1>1. CASE (Main \/ UserStop) /\ UNCHANGED overlap
  <2> USE DEF overlap
  <2>1. CASE RejectSize \/ OpenChannel \/ AllocBuffers
    BY <1>1, <2>1 DEF RejectSize, OpenChannel, AllocBuffers
  <2>2. CASE StartThreads
    BY <1>1, <2>2 DEF StartThreads
  <2>3. CASE WakePass \/ CollectRead \/ CollectClear \/ DisplayPass
    BY <1>1, <2>3 DEF WakePass, CollectRead, Collected, CollectClear, DisplayPass, PassResult
  <2>4. CASE ErrorCheck \/ LoadSeconds \/ WakeStop
    BY <1>1, <2>4 DEF ErrorCheck, LoadSeconds, WakeStop
  <2>5. CASE StoreSeconds
    BY <1>1, <2>5 DEF StoreSeconds, AnyRunning, ClearFlags
  <2>6. CASE Gather
    BY <1>1, <2>6 DEF Gather, GatheredCode
  <2>7. CASE Shutdown \/ WakeShutdown \/ Release
    BY <1>1, <2>7 DEF Shutdown, ClearFlags, WakeShutdown, Release
  <2>8. CASE Exit \/ UserStop
    BY <1>1, <2>8 DEF Exit, ExitStatus, UserStop
  <2> QED
    BY <1>1, <2>1, <2>2, <2>3, <2>4, <2>5, <2>6, <2>7, <2>8 DEF Main
<1>2. ASSUME NEW i \in Thread, WWorker(i) PROVE ReportInv'
  <2> USE DEF Go, Return, ToGo, mainState, overlap
  <2>1. CASE WBegin(i)
    BY <1>2, <2>1 DEF WBegin
  <2>2. CASE Complete(i)
    BY <1>2, <2>2 DEF Complete
  <2>3. CASE CompleteError(i)
    BY <1>2, <2>3 DEF CompleteError
  <2>4. CASE WLoadTotal(i)
    BY <1>2, <2>4 DEF WLoadTotal, LoadTotal
  <2>5. CASE WAddTotal(i)
    BY <1>2, <2>5 DEF WAddTotal
  <2>6. CASE Issue(i)
    BY <1>2, <2>6 DEF Issue
  <2>7. CASE IssueFails(i)
    BY <1>2, <2>7 DEF IssueFails
  <2>8. CASE LastCallback(i)
    BY <1>2, <2>8 DEF LastCallback
  <2>9. CASE WCheckRunning(i)
    BY <1>2, <2>9 DEF WCheckRunning, CheckRunning
  <2>10. CASE WaitServed(i)
    BY <1>2, <2>10 DEF WaitServed
  <2>11. CASE WaitTimeout(i)
    BY <1>2, <2>11 DEF WaitTimeout, AfterTimeout
  <2>12. CASE WaitFailed(i)
    BY <1>2, <2>12 DEF WaitFailed
  <2>13. CASE WFinish(i)
    BY <1>2, <2>13 DEF WFinish, Finish
  <2> QED
    BY <1>2, <2>1, <2>2, <2>3, <2>4, <2>5, <2>6, <2>7,
       <2>8, <2>9, <2>10, <2>11, <2>12, <2>13 DEF WWorker
<1>3. ASSUME NEW i \in Thread, Cancel(i) PROVE ReportInv'
  BY <1>3 DEF Cancel, vars
<1>4. CASE UNCHANGED wvars
  BY <1>4 DEF wvars, overlap, vars
<1> QED
  BY <1>1, <1>2, <1>3, <1>4, WStepCases

(* Exit status 0 after a natural end without slow transfers means that     *)
(* every thread has issued its whole share, but for the one error nobody   *)
(* records.                                                                *)
THEOREM AllIssuedCorrect == WSpec => []SuccessMeansAllIssued
<1>1. WInit => QuietInv /\ IssuedInv /\ ReportInv
  <2> SUFFICES ASSUME WInit PROVE QuietInv /\ IssuedInv /\ ReportInv
    OBVIOUS
  <2>1. QuietInv /\ ReportInv
    BY DEF WInit, Init, QuietInv, ReportInv, Setup, Looping, OutOfLoop
  <2>2. NumberTransfers(config.iterations) \in Nat \ {0}
    BY WTypeInit, ShareTyped
  <2>3. IssuedInv
    BY <2>2 DEF WInit, Init, IssuedInv, Setup, Looping, OutOfLoop
  <2> QED
    BY <2>1, <2>3
<1>2. WTypeOK /\ IssuedInv /\ ReportInv => SuccessMeansAllIssued
  <2> SUFFICES ASSUME WTypeOK, IssuedInv, ReportInv, mpc = "done", status = "ok",
                      endedBy = "workers", ~slow, NEW i \in Thread
               PROVE  \/ issued[i] = NumberTransfers(config.iterations)
                      \/ refused[i] /\ config.stopOnError
    BY DEF SuccessMeansAllIssued
  <2>1. werr[i] = "ok" /\ Idle(i)
    BY DEF ReportInv, IssuedInv
  <2>2. CASE left[i] = -1
    <3>1. issued[i] + left[i] = NumberTransfers(config.iterations) - 1
      BY <2>1, <2>2 DEF IssuedInv
    <3>2. issued[i] \in Nat /\ NumberTransfers(config.iterations) \in Nat
      BY ShareTyped DEF WTypeOK
    <3> QED
      BY <2>2, <3>1, <3>2
  <2>3. CASE left[i] # -1
    BY <2>1, <2>3 DEF Idle
  <2> QED
    BY <2>2, <2>3
<1> QED
  BY <1>1, <1>2, QuietNext, IssuedNext, WReportNext, WTypeCorrect, PTL DEF WSpec

=============================================================================
