----------------------------- MODULE Overlapped -----------------------------
(***************************************************************************)
(* WriteDMA and ReadDMA in the Windows build.  A worker there keeps one    *)
(* overlapped transfer going: its completion callback, which runs inside   *)
(* the alertable wait of the thread, counts the bytes and issues the next  *)
(* transfer.  The wait has a time limit of a second.  The main thread is   *)
(* that of TestRun.                                                        *)
(*                                                                         *)
(* hDoneEvent is not part of the model: it is set only in a callback that  *)
(* has lowered Running, and a wait in which a callback ran returns         *)
(* WAIT_IO_COMPLETION and looks at Running first, whatever the event is.   *)
(***************************************************************************)
EXTENDS TestRun

CONSTANT SlowChoices  \* may a transfer outlast the time limit of the wait?

ASSUME SlowAssumption == SlowChoices \subseteq BOOLEAN

VARIABLES
  slow,     \* a transfer may outlast the time limit, fixed for the run
  pending,  \* a transfer of worker i is with the driver
  served    \* worker i's wait has run a callback; FALSE when it is primed

(* History variables.                                                      *)
VARIABLES
  issued,   \* transfers worker i has issued
  refused   \* a transfer of worker i completed with an error

overlap == <<slow, pending, served, issued, refused>>
wvars == <<vars, overlap>>

WInit ==
  /\ Init
  /\ slow \in SlowChoices
  /\ pending = [i \in Thread |-> FALSE]
  /\ served = [i \in Thread |-> FALSE]
  /\ issued = [i \in Thread |-> 0]
  /\ refused = [i \in Thread |-> FALSE]

-----------------------------------------------------------------------------
(* The callback, from the bytes it is given to where it returns.           *)

(* Prime the pump: the thread calls the callback itself, with no bytes.    *)
WBegin(i) ==
  /\ Go(i, "begin", "load")
  /\ moved' = [moved EXCEPT ![i] = 0]
  /\ UNCHANGED <<running, total, tmpTotal, left, werr, transferred, overlap>>

(* A transfer completes with n bytes, in the wait.                         *)
Complete(i) ==
  /\ pending[i]
  /\ Go(i, "io", "load")
  /\ \E n \in 0 .. MaxBytes :
       /\ moved' = [moved EXCEPT ![i] = n]
       /\ transferred' = transferred + n
  /\ pending' = [pending EXCEPT ![i] = FALSE]
  /\ served' = [served EXCEPT ![i] = TRUE]
  /\ UNCHANGED <<running, total, tmpTotal, left, werr, slow, issued, refused>>

(* It completes with an error, which is printed; with -e the worker stops. *)
CompleteError(i) ==
  /\ pending[i]
  /\ Go(i, "io", IF config.stopOnError THEN "io" ELSE "load")
  /\ moved' = [moved EXCEPT ![i] = 0]
  /\ running' = [running EXCEPT ![i] = @ /\ ~config.stopOnError]
  /\ pending' = [pending EXCEPT ![i] = FALSE]
  /\ served' = [served EXCEPT ![i] = TRUE]
  /\ refused' = [refused EXCEPT ![i] = TRUE]
  /\ UNCHANGED <<total, tmpTotal, left, werr, transferred, slow, issued>>

WLoadTotal(i) == LoadTotal(i) /\ UNCHANGED overlap

WAddTotal(i) ==
  /\ Go(i, "account", "issue")
  /\ total' = [total EXCEPT ![i] = tmpTotal[i] + moved[i]]
  /\ UNCHANGED <<running, tmpTotal, moved, left, werr, transferred, overlap>>

(* Back in the wait, or in the thread that primed it.                      *)
Return(i) == Go(i, "issue", IF served[i] THEN "io" ELSE "check")

(* Mutant: the pre-decrement, which loses the last transfer.               *)
ToGoEarly(i) == left[i] # 1

(* if (Iterations--)                                                       *)
ToGo(i) == left[i] # 0

(* Mutant: Running is lowered with the last transfer issued, not completed.*)
IssueLastLowers(i) ==
  /\ Return(i)
  /\ ToGo(i)
  /\ left' = [left EXCEPT ![i] = @ - 1]
  /\ pending' = [pending EXCEPT ![i] = TRUE]
  /\ issued' = [issued EXCEPT ![i] = @ + 1]
  /\ running' = [running EXCEPT ![i] = @ /\ left[i] # 1]
  /\ UNCHANGED <<total, tmpTotal, moved, werr, transferred, slow, served,
                 refused>>

(* PrepareTransfer, then ReadFileEx or WriteFileEx.  The callback does not *)
(* ask whether the thread is still to run.                                 *)
Issue(i) ==
  /\ Return(i)
  /\ ToGo(i)
  /\ left' = [left EXCEPT ![i] = @ - 1]
  /\ pending' = [pending EXCEPT ![i] = TRUE]
  /\ issued' = [issued EXCEPT ![i] = @ + 1]
  /\ UNCHANGED <<running, total, tmpTotal, moved, werr, transferred, slow,
                 served, refused>>

IssueFails(i) ==
  /\ Return(i)
  /\ ToGo(i)
  /\ left' = [left EXCEPT ![i] = @ - 1]
  /\ werr' = [werr EXCEPT ![i] = "ioError"]
  /\ running' = [running EXCEPT ![i] = @ /\ ~config.stopOnError]
  /\ UNCHANGED <<total, tmpTotal, moved, transferred, overlap>>

(* Iterations, a UINT32, has wrapped; nothing reads it any more.           *)
LastCallback(i) ==
  /\ Return(i)
  /\ ~ToGo(i)
  /\ left' = [left EXCEPT ![i] = @ - 1]
  /\ running' = [running EXCEPT ![i] = FALSE]
  /\ UNCHANGED <<total, tmpTotal, moved, werr, transferred, overlap>>

-----------------------------------------------------------------------------
(* The thread's loop.                                                      *)

WCheckRunning(i) ==
  /\ CheckRunning(i)
  /\ served' = [served EXCEPT ![i] = FALSE]
  /\ UNCHANGED <<slow, pending, issued, refused>>

(* WAIT_IO_COMPLETION: a callback, or several in a row, ran in the wait.   *)
WaitServed(i) ==
  /\ served[i]
  /\ Go(i, "io", "check")
  /\ UNCHANGED <<running, total, transfer, overlap>>

(* Mutant: the loop goes on after WAIT_TIMEOUT too.                        *)
AfterTimeoutCheck == "check"

(* Where WAIT_TIMEOUT leads.                                               *)
AfterTimeout == "finish"

(* WAIT_TIMEOUT, when no transfer completes in a second.                   *)
WaitTimeout(i) ==
  /\ ~served[i]
  /\ pending[i] => slow
  /\ Go(i, "io", AfterTimeout)
  /\ UNCHANGED <<running, total, transfer, overlap>>

(* WAIT_FAILED                                                             *)
WaitFailed(i) ==
  /\ ~served[i]
  /\ Go(i, "io", "finish")
  /\ werr' = [werr EXCEPT ![i] = "ioError"]
  /\ running' = [running EXCEPT ![i] = FALSE]
  /\ UNCHANGED <<total, tmpTotal, moved, left, transferred, overlap>>

WFinish(i) == Finish(i) /\ UNCHANGED overlap

(* The system cancels what a thread that has ended left with the driver.   *)
Cancel(i) ==
  /\ mpc # "done"
  /\ wpc[i] = "done" /\ pending[i]
  /\ pending' = [pending EXCEPT ![i] = FALSE]
  /\ UNCHANGED <<vars, slow, served, issued, refused>>

WWorker(i) ==
  \/ WBegin(i) \/ Complete(i) \/ CompleteError(i) \/ WLoadTotal(i)
  \/ WAddTotal(i) \/ Issue(i) \/ IssueFails(i) \/ LastCallback(i)
  \/ WCheckRunning(i) \/ WaitServed(i) \/ WaitTimeout(i) \/ WaitFailed(i)
  \/ WFinish(i)

WNext ==
  \/ (Main \/ UserStop \/ Terminated) /\ UNCHANGED overlap
  \/ \E i \in Thread : WWorker(i) \/ Cancel(i)

(* No wait of these workers is without a limit, so the scheduler that runs *)
(* them brings them on; a driver may still keep a transfer for ever.       *)
WSpec ==
  /\ WInit /\ [][WNext]_wvars
  /\ WF_wvars(Main /\ UNCHANGED overlap)
  /\ \A i \in Thread : WF_wvars(WWorker(i))

-----------------------------------------------------------------------------
WTypeOK ==
  /\ MainTypeOK
  /\ wpc \in [Thread -> Busy \cup {"none", "issue", "done"}]
  /\ slow \in BOOLEAN
  /\ pending \in [Thread -> BOOLEAN]
  /\ served \in [Thread -> BOOLEAN]
  /\ issued \in [Thread -> Nat]
  /\ refused \in [Thread -> BOOLEAN]

(* When TestRunControl ends the loop because no Running flag is up, the    *)
(* driver holds no transfer into a buffer that is about to be freed, unless*)
(* one outlasted the time limit or a wait failed, and no callback will     *)
(* issue another: the flag still does the work of a join, though it is     *)
(* lowered in a callback, before the thread is out of its wait.            *)
NaturalEndIsQuiet ==
  endedBy = "workers" =>
    \A i \in Thread :
      /\ wpc[i] \in {"io", "check", "finish", "done"}
      /\ pending[i] => slow \/ werr[i] # "ok"

(* After such an end exit status 0 means that every thread has issued all  *)
(* its transfers.  Two things only cut a thread short without a result     *)
(* code: with -e a transfer that completes with an error, which the        *)
(* callback prints and nothing more, and one that outlasts the time limit. *)
SuccessMeansAllIssued ==
  mpc = "done" /\ status = "ok" /\ endedBy = "workers" /\ ~slow =>
    \A i \in Thread :
      \/ issued[i] = NumberTransfers(config.iterations)
      \/ refused[i] /\ config.stopOnError

(* No worker stays for ever, even when the driver never completes its      *)
(* transfer: the wait is limited and the callbacks are counted.            *)
WorkersEnd ==
  \A i \in Thread : wpc[i] = "begin" ~> wpc[i] = "done" \/ mpc = "done"

=============================================================================
