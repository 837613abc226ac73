------------------------------ MODULE FifoS2C ------------------------------
(***************************************************************************)
(* The FIFO send test FIFOS2C with its workers FIFOs2cThreadProc and       *)
(* DrainFIFOs2c.  A thread asks the driver to send NumEntries entries of   *)
(* Length bytes, one after the other around the buffer; the driver takes   *)
(* as many as it has elements for, and the checker of the board, while it  *)
(* is on, takes them from there.                                           *)
(***************************************************************************)
EXTENDS Fifo, FiniteSetsExt

CONSTANTS
  AllocSize,   \* bytes of the buffer
  Length,      \* params->MaxTransferSize
  NumEntries,  \* MAX_NUMBER_FIFOS2C_ENTRIES
  PoolSize     \* elements of the driver

ASSUME PoolAssumption ==
  /\ Length \in Nat \ {0}
  /\ AllocSize \in Nat /\ Length <= AllocSize
  /\ NumEntries \in Nat \ {0}
  /\ PoolSize \in Nat

VARIABLES
  offset,  \* Offset of worker i
  sent,    \* entries of worker i's last request that it has not counted yet
  queued   \* entries in the driver

s2cVars == <<offset, sent, queued>>
svars == <<vars, modeVars, s2cVars>>

SInit ==
  /\ ModeInit
  /\ offset = [i \in Thread |-> 0]
  /\ sent = [i \in Thread |-> 0]
  /\ queued = 0

-----------------------------------------------------------------------------
(* The board and the driver.                                               *)

Consume ==
  /\ fifoMode /\ traffic
  /\ queued > 0
  /\ queued' = queued - 1
  /\ UNCHANGED <<vars, modeVars, offset, sent>>

(* Take k of the n entries of a request.                                   *)
Queue(n, k) ==
  /\ fifoMode
  /\ k \in 0 .. Min({n, PoolSize - queued})
  /\ queued' = queued + k

-----------------------------------------------------------------------------
(* FIFOS2C.                                                                *)

(* After FIFO mode and traffic are set up the loop is that of WriteDMA.    *)
SLoop ==
  /\ fpc = "loop"
  /\ WakePass \/ StoreSeconds
  /\ UNCHANGED <<modeVars, s2cVars>>

(* The drain's own requests: one entry in the Windows build.               *)
DrainEntries == IF windows THEN 1 ELSE NumEntries

(* DrainFIFOs2c sends until a call takes no entry.                         *)
DrainFIFOs2c ==
  /\ mpc = "free" /\ fpc = "drain"
  /\ \E k \in 1 .. DrainEntries : Queue(DrainEntries, k)
  /\ UNCHANGED <<vars, modeVars, offset, sent>>

SShutdownMode ==
  /\ ShutdownMode
  /\ queued' = IF fifoMode' THEN queued ELSE 0
  /\ UNCHANGED <<offset, sent>>

SMain ==
  \/ ModeMain /\ UNCHANGED s2cVars
  \/ SLoop \/ DrainFIFOs2c \/ SShutdownMode

-----------------------------------------------------------------------------
(* FIFOs2cThreadProc.                                                      *)

(* The entry after the one at o.                                           *)
NextOffset(o) == IF o + Length > AllocSize THEN 0 ELSE o + Length

(* The offsets of n entries that follow each other, the first at o, and    *)
(* where the entry after them is.                                          *)
Offsets(o, n) ==
  LET at[k \in 0 .. n] == IF k = 0 THEN o ELSE NextOffset(at[k - 1])
  IN at

(* Mutant: the bytes of every entry are counted, sent or not.              *)
CountedAll(k) == NumEntries

(* The entries whose bytes are counted: those of NumEntriesSent.           *)
Counted(k) == k

(* A request of which k entries are sent; what is not sent is not tried    *)
(* again.                                                                  *)
SIoctl(i) ==
  /\ \E k \in 0 .. NumEntries :
       /\ Queue(NumEntries, k)
       /\ sent' = [sent EXCEPT ![i] = Counted(k)]
       /\ transferred' = transferred + k * Length
  /\ Go(i, "io", IF sent'[i] > 0 THEN "load"
                 ELSE IF left[i] = 1 THEN "finish" ELSE "check")
  /\ left' = [left EXCEPT ![i] = IF sent'[i] = 0 THEN @ - 1 ELSE @]
  /\ offset' = [offset EXCEPT ![i] = Offsets(@, NumEntries)[NumEntries]]
  /\ UNCHANGED <<running, total, tmpTotal, moved, werr, modeVars>>

(* It fails: a thread that should be running leaves with no result code,   *)
(* another with one in the Windows build only, in the Linux build it goes  *)
(* on to look at its flag.                                                 *)
SIoctlFail(i) ==
  /\ Go(i, "io", IF running[i] \/ windows \/ left[i] = 1 THEN "finish" ELSE "check")
  /\ running' = [running EXCEPT ![i] = FALSE]
  /\ werr' = [werr EXCEPT ![i] = IF windows /\ ~running[i] THEN "ioError" ELSE @]
  /\ left' = [left EXCEPT ![i] = IF running[i] \/ windows THEN @ ELSE @ - 1]
  /\ offset' = [offset EXCEPT ![i] = Offsets(@, NumEntries)[NumEntries]]
  /\ UNCHANGED <<total, tmpTotal, moved, transferred, modeVars, sent, queued>>

SLoad(i) ==
  /\ Go(i, "load", "account")
  /\ tmpTotal' = [tmpTotal EXCEPT ![i] = total[i]]
  /\ UNCHANGED <<running, total, moved, left, werr, transferred, modeVars,
                 s2cVars>>

(* The bytes of one entry; after the last the iteration ends.              *)
SAccount(i) ==
  /\ Go(i, "account", IF sent[i] > 1 THEN "load"
                      ELSE IF left[i] = 1 THEN "finish" ELSE "check")
  /\ total' = [total EXCEPT ![i] = tmpTotal[i] + Length]
  /\ sent' = [sent EXCEPT ![i] = @ - 1]
  /\ left' = [left EXCEPT ![i] = IF sent[i] = 1 THEN @ - 1 ELSE @]
  /\ UNCHANGED <<running, tmpTotal, moved, werr, transferred, modeVars, offset,
                 queued>>

SWorker(i) ==
  \/ SIoctl(i) \/ SIoctlFail(i) \/ SLoad(i) \/ SAccount(i)
  \/ (FBegin(i) \/ FCheckRunning(i) \/ FFinish(i)) /\ UNCHANGED s2cVars

SNext ==
  \/ SMain \/ Consume
  \/ \E i \in Thread : SWorker(i)
  \/ (UserStop \/ Terminated) /\ UNCHANGED <<modeVars, s2cVars>>

SSpec == SInit /\ [][SNext]_svars /\ WF_svars(SMain)

-----------------------------------------------------------------------------
STypeOK ==
  /\ ModeTypeOK
  /\ offset \in [Thread -> 0 .. AllocSize]
  /\ sent \in [Thread -> 0 .. NumEntries]
  /\ queued \in 0 .. PoolSize

(* A send test whose loop ran and that exits with 0 has reported bytes in  *)
(* every pass, and the driver has really taken some: what is counted is    *)
(* what it says it sent, not what it was asked to send.  A test that gave  *)
(* up in the set-up may exit with 0, see GiveUp.                           *)
SendSuccessMeansSent ==
  mpc = "done" /\ status = "ok" /\ passes > 0 =>
    reported >= passes /\ transferred >= 1

(* Without -e and with -s at least 1 the test ends, though its workers may *)
(* hang, if the checker is off by the time of the drain: the drain, which  *)
(* sends packets itself, then fills the driver, and with the checker on it *)
(* could go on for ever.                                                   *)
STestEnds ==
  config.seconds >= 1 /\ ~config.stopOnError /\ [](fpc = "drain" => ~traffic)
    => <>(mpc = "done")

-----------------------------------------------------------------------------
(* What a comment of the program says and the code does not do.            *)

(* "Offset into buffer pool" (ExpressoIoctl.h:404): every entry a thread   *)
(* asks the driver to send lies within the buffer.                         *)
EntriesInBuffer ==
  \A i \in Thread :
    wpc[i] = "io" =>
      \A k \in 0 .. NumEntries - 1 :
        Offsets(offset[i], NumEntries)[k] + Length <= AllocSize

=============================================================================
