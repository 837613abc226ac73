------------------------------ MODULE FifoC2S ------------------------------
(***************************************************************************)
(* The FIFO receive test FIFOC2S with its workers FIFOc2sThreadProc and    *)
(* DrainFIFOc2s.  The board fills the elements of the buffer, which the    *)
(* driver lends to the threads; a thread hands back what it has read as a  *)
(* count, ReleaseCount, on its next call.  A packet here is one element of *)
(* one byte.                                                               *)
(***************************************************************************)
EXTENDS Fifo, Sequences

CONSTANTS
  RingSize,  \* elements of the buffer
  MaxBatch   \* MAX_NUMBER_FIFO_ENTRIES

ASSUME RingAssumption == RingSize \in Nat \ {0} /\ MaxBatch \in Nat \ {0}

VARIABLES
  loopCount,  \* LoopCount
  ready,      \* packets the board has received and the driver has not lent
  lent,       \* who has the elements that were lent, oldest first; 0 is main
  batch,      \* packets of worker i's last call that it has not read yet
  release     \* ReleaseElementCount of worker i

ring == <<ready, lent>>
hand == <<batch, release>>
c2sVars == <<loopCount, ring, hand>>
fvars == <<vars, modeVars, c2sVars>>

FInit ==
  /\ ModeInit
  /\ loopCount = 2
  /\ ready = 0
  /\ lent = <<>>
  /\ batch = [i \in Thread |-> 0]
  /\ release = [i \in Thread |-> 0]

-----------------------------------------------------------------------------
(* The board and the driver.                                               *)

Arrive ==
  /\ fifoMode /\ traffic
  /\ ready + Len(lent) < RingSize
  /\ ready' = ready + 1
  /\ UNCHANGED <<vars, modeVars, loopCount, lent, hand>>

(* Release the n oldest elements that are lent.                            *)
Freed(n) == SubSeq(lent, IF n < Len(lent) THEN n + 1 ELSE Len(lent) + 1, Len(lent))

(* Lend k ready packets to thread i, after the release of n elements.      *)
Lend(i, n, k) ==
  /\ fifoMode
  /\ k <= ready
  /\ ready' = ready - k
  /\ lent' = Freed(n) \o [j \in 1 .. k |-> i]

-----------------------------------------------------------------------------
(* FIFOC2S.                                                                *)

FWakePass ==
  /\ fpc = "loop"
  /\ WakePass
  /\ UNCHANGED <<modeVars, c2sVars>>

(* When TestRunControl says go on, the idle passes are counted.            *)
FStoreSeconds ==
  /\ StoreSeconds
  /\ fpc' = IF mpc' = "sleep" THEN "idle" ELSE fpc
  /\ UNCHANGED <<windows, fifoMode, traffic, c2sVars>>

(* Mutant: a pass without data does not count.                             *)
LoopsLeftAlways(bytes, old) == 2

(* Two passes in a row without data end the loop.                          *)
LoopsLeft(bytes, old) == IF bytes # 0 THEN 2 ELSE old - 1

CheckIdle ==
  /\ mpc = "sleep" /\ fpc = "idle"
  /\ loopCount' = LoopsLeft(passBytes, loopCount)
  /\ mpc' = IF loopCount' = 0 THEN "shutdown" ELSE "sleep"
  /\ fpc' = "loop"
  /\ UNCHANGED <<config, seconds, tmpSeconds, iPass, interrupted, stats,
                 resources, outcome, workerVars, windows, fifoMode, traffic,
                 ring, hand>>

(* Mutant: the drain hands an element back with each call.                 *)
DrainOneForOne == 1

(* The drain's ReleaseCount.                                               *)
DrainRelease == 0

(* DrainFIFOc2s takes one packet at a time.                                *)
DrainFIFOc2s ==
  /\ mpc = "free" /\ fpc = "drain"
  /\ ready > 0
  /\ Lend(0, DrainRelease, 1)
  /\ UNCHANGED <<vars, modeVars, loopCount, hand>>

(* The driver takes the buffer back with all it lent.                      *)
FShutdownMode ==
  /\ ShutdownMode
  /\ IF fifoMode' THEN UNCHANGED ring ELSE ready' = 0 /\ lent' = <<>>
  /\ UNCHANGED <<loopCount, hand>>

FMain ==
  \/ ModeMain /\ UNCHANGED c2sVars
  \/ FWakePass \/ FStoreSeconds \/ CheckIdle \/ DrainFIFOc2s \/ FShutdownMode

-----------------------------------------------------------------------------
(* FIFOc2sThreadProc.                                                      *)

(* The call succeeds.  The Linux build leaves the loop right here.         *)
FIoctl(i) ==
  /\ \E k \in 0 .. MaxBatch :
       /\ Lend(i, release[i], k)
       /\ Go(i, "io", IF ~windows THEN "finish"
                      ELSE IF k > 0 THEN "load"
                      ELSE IF left[i] = 1 THEN "finish" ELSE "check")
       /\ batch' = [batch EXCEPT ![i] = k]
       /\ left' = [left EXCEPT ![i] = IF windows /\ k = 0 THEN @ - 1 ELSE @]
  /\ release' = [release EXCEPT ![i] = 0]
  /\ UNCHANGED <<running, total, tmpTotal, moved, werr, transferred, modeVars,
                 loopCount>>

(* It fails: the thread leaves, with a result code only in the Windows     *)
(* build and only if it had been told to stop already.                     *)
FIoctlFail(i) ==
  /\ Go(i, "io", "finish")
  /\ running' = [running EXCEPT ![i] = @ /\ ~windows]
  /\ werr' = [werr EXCEPT ![i] = IF windows /\ ~running[i] THEN "ioError" ELSE @]
  /\ UNCHANGED <<total, tmpTotal, moved, left, transferred, modeVars, c2sVars>>

(* With -z and -e the Windows build leaves at a channel status, without    *)
(* reading the batch; ReleaseElementCount is not used again.               *)
FChannelStatus(i) ==
  /\ windows /\ config.stopOnError
  /\ Go(i, "io", "finish")
  /\ running' = [running EXCEPT ![i] = FALSE]
  /\ \E k \in 0 .. MaxBatch :
       /\ Lend(i, release[i], k)
       /\ batch' = [batch EXCEPT ![i] = k]
  /\ release' = [release EXCEPT ![i] = 0]
  /\ UNCHANGED <<total, tmpTotal, moved, left, werr, transferred, modeVars,
                 loopCount>>

(* The iteration ends when the batch is read, or with -e at an error.      *)
NextEntry(i, from, bad) ==
  LET over == batch'[i] = 0 \/ (bad /\ config.stopOnError) IN
    /\ Go(i, from, IF ~over THEN "load" ELSE IF left[i] = 1 THEN "finish" ELSE "check")
    /\ left' = [left EXCEPT ![i] = IF over THEN @ - 1 ELSE @]
    /\ running' = [running EXCEPT ![i] = @ /\ ~(bad /\ config.stopOnError)]
    /\ werr' = [werr EXCEPT ![i] = IF bad THEN "ioError" ELSE @]

Entry(i) ==
  /\ release' = [release EXCEPT ![i] = @ + 1]
  /\ batch' = [batch EXCEPT ![i] = @ - 1]

(* An entry with an error status, length 0 or an offset out of range.      *)
EntryInvalid(i) ==
  /\ Entry(i)
  /\ NextEntry(i, "load", TRUE)
  /\ UNCHANGED <<total, tmpTotal, moved, transferred, modeVars, loopCount, ring>>

EntryLoad(i) ==
  /\ Go(i, "load", "account")
  /\ Entry(i)
  /\ tmpTotal' = [tmpTotal EXCEPT ![i] = total[i]]
  /\ UNCHANGED <<running, total, moved, left, werr, transferred, modeVars,
                 loopCount, ring>>

(* What ValidateDataBuffer may find: the packet differs from the pattern,  *)
(* or it does not, or there is no pattern to compare it with.              *)
Mismatch == BOOLEAN

(* Count the bytes, then ValidateDataBuffer.                               *)
EntryAccount(i) ==
  /\ total' = [total EXCEPT ![i] = tmpTotal[i] + 1]
  /\ UNCHANGED hand
  /\ \E bad \in Mismatch : NextEntry(i, "account", bad)
  /\ UNCHANGED <<tmpTotal, moved, transferred, modeVars, loopCount, ring>>

FWorker(i) ==
  \/ FIoctl(i) \/ FIoctlFail(i) \/ FChannelStatus(i)
  \/ EntryInvalid(i) \/ EntryLoad(i) \/ EntryAccount(i)
  \/ (FBegin(i) \/ FCheckRunning(i) \/ FFinish(i)) /\ UNCHANGED c2sVars

FNext ==
  \/ FMain \/ Arrive
  \/ \E i \in Thread : FWorker(i)
  \/ (UserStop \/ Terminated) /\ UNCHANGED <<modeVars, c2sVars>>

FSpec == FInit /\ [][FNext]_fvars /\ WF_fvars(FMain)

-----------------------------------------------------------------------------
FTypeOK ==
  /\ ModeTypeOK
  /\ loopCount \in 0 .. 2
  /\ ready \in 0 .. RingSize
  /\ lent \in Seq(0 .. NumThreads) /\ ready + Len(lent) <= RingSize
  /\ batch \in [Thread -> 0 .. MaxBatch]
  /\ release \in [Thread -> 0 .. MaxBatch]

(* Packets thread i has to read yet, the one it is at included.            *)
Unread(i) == batch[i] + IF wpc[i] = "account" THEN 1 ELSE 0

(* While the channel is in FIFO mode every packet a thread still has to    *)
(* read is in an element that is lent to it: neither its own releases nor  *)
(* the drain of a main thread that has not waited for it hands the element *)
(* back to the board.                                                      *)
UnreadIsLent ==
  fifoMode =>
    \A i \in Thread :
      Unread(i) <= Cardinality({j \in DOMAIN lent : lent[j] = i})

(* The command always ends, -s 0, -e and a generator that cannot be        *)
(* stopped included: idle passes end the loop and the drain, which hands   *)
(* nothing back, runs out of elements.                                     *)
FTestEnds == <>(mpc = "done")

=============================================================================
