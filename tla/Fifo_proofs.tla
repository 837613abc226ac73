----------------------------- MODULE Fifo_proofs -----------------------------
(***************************************************************************)
(* Proofs about the two FIFO tests: first what they keep in the steps they *)
(* have in common; then the receive test, for every size of the ring and of*)
(* a batch and any number of packets; then the send test, for every size of*)
(* the buffer, of an entry and of a request and any room in the driver.    *)
(* All of them for both builds.                                            *)
(***************************************************************************)
EXTENDS FifoC2S, FifoS2C, TestRun_proofs, FiniteSetTheorems, SequenceTheorems,
        NaturalLemmas

(* The parts of ModeTypeOK that Fifo adds to TestRun's TypeOK.             *)
ModeOK ==
  /\ windows \in BOOLEAN
  /\ fifoMode \in BOOLEAN
  /\ traffic \in BOOLEAN
  /\ fpc \in {"mode", "traffic", "threads", "loop", "idle", "stop", "drain",
              "unset", "free"}

LEMMA ModeParts == ModeTypeOK <=> TypeOK /\ ModeOK
  BY DEF ModeTypeOK, ModeOK

LEMMA ModeMade == TypeOK' /\ ModeOK' => ModeTypeOK'
  BY DEF ModeTypeOK, ModeOK

(* Steps of TestRun's main thread keep its types, whatever they do to fpc. *)
LEMMA MainKeepsType == TypeOK /\ (Main \/ UserStop) => TypeOK'
<1> SUFFICES ASSUME TypeOK, Main \/ UserStop PROVE TypeOK'
  OBVIOUS
<1>1. wpc' \in [Thread -> Busy \cup {"none", "done"}]
  BY MainStarts DEF TypeOK, Busy
<1> QED
  BY <1>1, MainTypeNext DEF TypeOK

LEMMA ModeTypeInit == ModeInit => ModeTypeOK
<1> SUFFICES ASSUME ModeInit PROVE ModeTypeOK
  OBVIOUS
<1>1. TypeOK
  BY TypeInit DEF ModeInit
<1>2. windows \in BOOLEAN
  BY WindowsAssumption DEF ModeInit
<1>3. fifoMode \in BOOLEAN /\ traffic \in BOOLEAN
  BY DEF ModeInit
<1>4. fpc = "mode"
  BY DEF ModeInit
<1> QED
  BY <1>1, <1>2, <1>3, <1>4, ModeParts DEF ModeOK

(* The actions of ModeMain that TestRun does not have.                     *)
LEMMA ModeMainType == ModeTypeOK /\ (ModeMain \/ ShutdownMode) => ModeTypeOK'
<1> SUFFICES ASSUME ModeTypeOK, ModeMain \/ ShutdownMode PROVE ModeTypeOK'
  OBVIOUS
<1>0. TypeOK /\ ModeOK
  BY ModeParts
<1>a. ASSUME TypeOK', UNCHANGED windows, fifoMode' \in BOOLEAN, traffic' \in BOOLEAN,
             fpc' \in {"mode", "traffic", "threads", "loop", "idle", "stop",
                       "drain", "unset", "free"}
      PROVE  ModeTypeOK'
  <2>1. windows' \in BOOLEAN
    BY <1>0, <1>a DEF ModeOK
  <2>2. ModeOK'
    BY <1>a, <2>1 DEF ModeOK
  <2> QED
    BY <1>a, <2>2, ModeMade
<1>b. /\ fifoMode \in BOOLEAN /\ traffic \in BOOLEAN
      /\ fpc \in {"mode", "traffic", "threads", "loop", "idle", "stop",
                  "drain", "unset", "free"}
  BY <1>0 DEF ModeOK
<1>1. CASE FAllocBuffer
  <2>1. buffer' \in [Thread -> BOOLEAN]
    BY <1>0, <1>1 DEF FAllocBuffer, TypeOK, MainTypeOK
  <2>2. mpc' \in {"start", "shutdown"} /\ iPass' \in Code
    BY <1>0, <1>1 DEF FAllocBuffer, TypeOK, MainTypeOK, Code
  <2>3. TypeOK'
    BY <1>0, <1>1, <2>1, <2>2 DEF FAllocBuffer, TypeOK, MainTypeOK, Sleeping,
       stats, outcome, workerVars, transfer
  <2> QED
    BY <1>1, <1>a, <1>b, <2>3 DEF FAllocBuffer, modeVars
<1>2. CASE SetupMode \/ SetupTraffic \/ ShutdownMode
  <2>1. /\ mpc' \in {mpc, "shutdown"}
        /\ iPass' \in {iPass, "ok", "ioError"}
        /\ fpc' \in {fpc, "traffic", "threads", "free"}
        /\ UNCHANGED <<config, seconds, tmpSeconds, interrupted, stats,
                       resources, outcome, workerVars, windows>>
    BY <1>2 DEF SetupMode, SetupTraffic, ShutdownMode, GiveUp, ModeError
  <2>2. fifoMode' \in BOOLEAN /\ traffic' \in BOOLEAN
    BY <1>2, <1>b DEF SetupMode, SetupTraffic, ShutdownMode
  <2>3. TypeOK'
    BY <1>0, <2>1 DEF TypeOK, MainTypeOK, Sleeping, Code, stats, resources,
       outcome, workerVars, transfer
  <2> QED
    BY <1>a, <1>b, <2>1, <2>2, <2>3
<1>3. CASE FStartThreads \/ FWakeShutdown \/ FRelease
  <2>1. TypeOK'
    BY <1>0, <1>3, MainKeepsType DEF FStartThreads, FWakeShutdown, FRelease, Main
  <2> QED
    BY <1>3, <1>a, <1>b, <2>1 DEF FStartThreads, FWakeShutdown, FRelease, modeVars
<1>4. CASE StopTraffic \/ DrainOver
  <2>1. TypeOK'
    BY <1>0, <1>4, TypeNext DEF StopTraffic, DrainOver
  <2>2. traffic' \in BOOLEAN
    BY <1>4, <1>b DEF StopTraffic, DrainOver
  <2> QED
    BY <1>4, <1>a, <1>b, <2>1, <2>2 DEF StopTraffic, DrainOver
<1>5. CASE Main /\ UNCHANGED modeVars
  <2>1. TypeOK'
    BY <1>0, <1>5, MainKeepsType
  <2> QED
    BY <1>5, <1>a, <1>b, <2>1 DEF modeVars
<1> QED
  BY <1>1, <1>2, <1>3, <1>4, <1>5 DEF ModeMain, Main

-----------------------------------------------------------------------------
(* The channel leaves FIFO mode before the buffer is freed, or the result  *)
(* code says that it did not; no later step changes that code.             *)
MappedInv ==
  /\ mpc \in {"parse", "alloc"} => fpc = "mode"
  /\ fpc = "mode" => ~fifoMode
  /\ mpc \in {"return", "done"} => fpc \in {"mode", "free"}
  /\ fpc = "free" => mpc \in {"free", "return", "done"}
  /\ fpc = "free" /\ fifoMode => iPass # "ok"
  /\ mpc = "done" /\ iPass # "ok" => status # "ok"

LEMMA MappedInit == ModeInit => MappedInv
  BY DEF ModeInit, Init, MappedInv

LEMMA MappedImplies == MappedInv => MappedIsReported
  BY DEF MappedInv, MappedIsReported

LEMMA MappedMain == MappedInv /\ (ModeMain \/ ShutdownMode) => MappedInv'
<1> SUFFICES ASSUME MappedInv, ModeMain \/ ShutdownMode PROVE MappedInv'
  OBVIOUS
<1> USE DEF MappedInv
<1>1. CASE FAllocBuffer
  BY <1>1 DEF FAllocBuffer, modeVars
<1>2. CASE SetupMode
  BY <1>2 DEF SetupMode, GiveUp
<1>3. CASE SetupTraffic
  BY <1>3 DEF SetupTraffic, GiveUp
<1>4. CASE FStartThreads
  BY <1>4 DEF FStartThreads, StartThreads
<1>5. CASE FWakeShutdown
  BY <1>5 DEF FWakeShutdown, WakeShutdown
<1>6. CASE StopTraffic \/ DrainOver
  BY <1>6 DEF StopTraffic, DrainOver, vars, outcome
<1>7. CASE FRelease
  BY <1>7 DEF FRelease, Release, modeVars
<1>8. CASE (RejectSize \/ OpenChannel \/ CollectRead \/ CollectClear \/ LoadSeconds)
           /\ UNCHANGED modeVars
  BY <1>8 DEF RejectSize, OpenChannel, CollectRead, CollectClear, LoadSeconds,
              modeVars
<1>9. CASE (DisplayPass \/ ErrorCheck \/ WakeStop \/ Gather \/ Shutdown)
           /\ UNCHANGED modeVars
  BY <1>9 DEF DisplayPass, ErrorCheck, WakeStop, Gather, Shutdown, modeVars
<1>10. CASE Exit /\ UNCHANGED modeVars
  BY <1>10 DEF Exit, ExitStatus, modeVars
<1>11. CASE ShutdownMode
  BY <1>11 DEF ShutdownMode, ModeError, outcome
<1> QED
  BY <1>1, <1>2, <1>3, <1>4, <1>5, <1>6, <1>7, <1>8, <1>9, <1>10, <1>11
     DEF ModeMain

-----------------------------------------------------------------------------
(* What Freed leaves of the elements that are lent.                        *)
LEMMA FreedProperties ==
  ASSUME lent \in Seq(0 .. NumThreads), NEW n \in Nat
  PROVE  /\ Freed(n) \in Seq(0 .. NumThreads)
         /\ Len(Freed(n)) = IF n < Len(lent) THEN Len(lent) - n ELSE 0
         /\ \A j \in 1 .. Len(Freed(n)) : Freed(n)[j] = lent[n + j]
<1> DEFINE m == IF n < Len(lent) THEN n + 1 ELSE Len(lent) + 1
<1>1. m \in Int /\ m >= 1 /\ Len(lent) \in Nat
  OBVIOUS
<1>2. \A i \in m .. Len(lent) : lent[i] \in 0 .. NumThreads
  <2> DEFINE S == 0 .. NumThreads
  <2>1. lent \in Seq(S)
    OBVIOUS
  <2> HIDE DEF S
  <2>2. \A i \in m .. Len(lent) : lent[i] \in S
    BY <1>1, <2>1
  <2> QED
    BY <2>2 DEF S
<1>3. /\ SubSeq(lent, m, Len(lent)) \in Seq(0 .. NumThreads)
      /\ Len(SubSeq(lent, m, Len(lent)))
           = IF m <= Len(lent) THEN Len(lent) - m + 1 ELSE 0
      /\ \A i \in 1 .. Len(lent) - m + 1 :
           SubSeq(lent, m, Len(lent))[i] = lent[m + i - 1]
  BY <1>1, <1>2, SubSeqProperties
<1>4. Freed(n) = SubSeq(lent, m, Len(lent))
  BY DEF Freed
<1>5. CASE n < Len(lent)
  <2>1. m = n + 1 /\ m <= Len(lent)
    BY <1>5
  <2> QED
    BY <1>1, <1>3, <1>4, <1>5, <2>1
<1>6. CASE ~(n < Len(lent))
  <2>1. ~(m <= Len(lent))
    BY <1>6
  <2> QED
    BY <1>1, <1>3, <1>4, <1>6, <2>1
<1> QED
  BY <1>5, <1>6

(* The elements that are lent after a release of n and a batch of k to i.  *)
NowLent(i, n, k) == Freed(n) \o [j \in 1 .. k |-> i]

LEMMA LentProperties ==
  ASSUME lent \in Seq(0 .. NumThreads), NEW n \in Nat, NEW k \in Nat,
         NEW i \in 0 .. NumThreads
  PROVE  /\ NowLent(i, n, k) \in Seq(0 .. NumThreads)
         /\ Len(NowLent(i, n, k)) = Len(Freed(n)) + k
         /\ Len(Freed(n)) \in Nat /\ Len(Freed(n)) <= Len(lent)
         /\ \A j \in 1 .. Len(Freed(n)) + k :
              NowLent(i, n, k)[j] = IF j <= Len(Freed(n)) THEN Freed(n)[j] ELSE i
<1> DEFINE u == [j \in 1 .. k |-> i]
<1>1. u \in Seq(0 .. NumThreads) /\ Len(u) = k
  OBVIOUS
<1>2. Freed(n) \in Seq(0 .. NumThreads) /\ Len(Freed(n)) <= Len(lent) /\ Len(Freed(n)) \in Nat
  <2>1. /\ Freed(n) \in Seq(0 .. NumThreads)
        /\ Len(Freed(n)) = IF n < Len(lent) THEN Len(lent) - n ELSE 0
    BY FreedProperties, Zenon
  <2>2. Len(lent) \in Nat
    OBVIOUS
  <2> QED
    BY <2>1, <2>2
<1>3. /\ Freed(n) \o u \in Seq(0 .. NumThreads)
      /\ Len(Freed(n) \o u) = Len(Freed(n)) + Len(u)
      /\ \A j \in 1 .. Len(Freed(n)) + Len(u) : (Freed(n) \o u)[j] =
           IF j <= Len(Freed(n)) THEN Freed(n)[j] ELSE u[j - Len(Freed(n))]
  BY <1>1, <1>2, ConcatProperties
<1>4. \A j \in 1 .. Len(Freed(n)) + k :
        ~(j <= Len(Freed(n))) => u[j - Len(Freed(n))] = i
  BY <1>2
<1>5. NowLent(i, n, k) = Freed(n) \o u
  BY DEF NowLent
<1> HIDE DEF u
<1> QED
  BY <1>1, <1>2, <1>3, <1>4, <1>5

-----------------------------------------------------------------------------
(* A thread never has more in hand than its last batch, read or unread, is *)
(* at an entry only if there is one, and the loop has idle passes left.    *)
HandInv ==
  /\ \A i \in Thread : batch[i] + release[i] <= MaxBatch
  /\ \A i \in Thread : wpc[i] = "load" => batch[i] >= 1
  /\ mpc \in Looping => loopCount \in 1 .. 2

(* The parts of FTypeOK that FifoC2S adds.                                 *)
C2SOK ==
  /\ loopCount \in 0 .. 2
  /\ ready \in 0 .. RingSize
  /\ lent \in Seq(0 .. NumThreads) /\ ready + Len(lent) <= RingSize
  /\ batch \in [Thread -> 0 .. MaxBatch]
  /\ release \in [Thread -> 0 .. MaxBatch]

LEMMA FParts == FTypeOK <=> ModeTypeOK /\ C2SOK
  BY DEF FTypeOK, C2SOK

LEMMA FMade == ModeTypeOK' /\ C2SOK' => FTypeOK'
  BY DEF FTypeOK, C2SOK

LEMMA C2SKept == C2SOK /\ UNCHANGED c2sVars => C2SOK'
  BY DEF C2SOK, c2sVars, ring, hand

LEMMA FTypeInit == FInit => FTypeOK /\ HandInv
<1> SUFFICES ASSUME FInit PROVE FTypeOK /\ HandInv
  OBVIOUS
<1>1. ModeTypeOK
  BY ModeTypeInit DEF FInit
<1>2. C2SOK
  BY RingAssumption DEF FInit, C2SOK
<1>3. HandInv
  BY RingAssumption DEF FInit, ModeInit, Init, HandInv
<1> QED
  BY <1>1, <1>2, <1>3, FParts

(* Lending keeps the ring within its size.                                 *)
LEMMA LendType ==
  ASSUME C2SOK, NEW i \in 0 .. NumThreads, NEW n \in Nat, NEW k \in Nat,
         Lend(i, n, k)
  PROVE  /\ ready' \in 0 .. RingSize
         /\ lent' \in Seq(0 .. NumThreads)
         /\ ready' + Len(lent') <= RingSize
<1>1. /\ lent' \in Seq(0 .. NumThreads)
      /\ Len(lent') = Len(Freed(n)) + k
      /\ Len(Freed(n)) \in Nat /\ Len(Freed(n)) <= Len(lent)
  <2>1. lent \in Seq(0 .. NumThreads)
    BY DEF C2SOK
  <2>2. lent' = NowLent(i, n, k)
    BY DEF Lend, NowLent
  <2> QED
    BY <2>1, <2>2, LentProperties, Zenon
<1>2. ready \in Nat /\ ready <= RingSize /\ k <= ready /\ ready' = ready - k
  BY RingAssumption DEF C2SOK, Lend
<1>3. Len(lent) \in Nat /\ ready + Len(lent) <= RingSize
  BY DEF C2SOK
<1> QED
  BY <1>1, <1>2, <1>3, RingAssumption

LEMMA FMainType == FTypeOK /\ HandInv /\ FMain => FTypeOK'
<1> SUFFICES ASSUME FTypeOK, HandInv, FMain PROVE FTypeOK'
  OBVIOUS
<1>0. ModeTypeOK /\ C2SOK /\ TypeOK /\ ModeOK
  BY FParts, ModeParts
<1>a. ASSUME TypeOK', ModeOK', C2SOK' PROVE FTypeOK'
  BY <1>a, ModeMade, FMade
<1>b. UNCHANGED modeVars => ModeOK'
  BY <1>0 DEF ModeOK, modeVars
<1>1. CASE ModeMain /\ UNCHANGED c2sVars
  BY <1>0, <1>1, ModeMainType, C2SKept, FMade
<1>2. CASE FWakePass
  BY <1>0, <1>2, <1>a, <1>b, MainKeepsType, C2SKept DEF FWakePass, Main
<1>3. CASE FStoreSeconds
  <2>1. TypeOK'
    BY <1>0, <1>3, MainKeepsType DEF FStoreSeconds, Main
  <2>2. ModeOK'
    <3>1. fpc' \in {"mode", "traffic", "threads", "loop", "idle", "stop",
                    "drain", "unset", "free"}
      BY <1>0, <1>3 DEF FStoreSeconds, ModeOK
    <3> QED
      BY <1>0, <1>3, <3>1 DEF FStoreSeconds, ModeOK
  <2> QED
    BY <1>0, <1>3, <1>a, <2>1, <2>2, C2SKept DEF FStoreSeconds
<1>4. CASE CheckIdle
  <2>1. mpc' \in {"shutdown", "sleep"}
    BY <1>4 DEF CheckIdle
  <2>2. TypeOK'
    BY <1>0, <1>4, <2>1 DEF CheckIdle, TypeOK, MainTypeOK, Sleeping, stats,
       resources, outcome, workerVars, transfer
  <2>3. ModeOK'
    BY <1>0, <1>4 DEF CheckIdle, ModeOK
  <2>4. loopCount' \in 0 .. 2
    BY <1>4 DEF CheckIdle, LoopsLeft, HandInv, Looping
  <2>5. C2SOK'
    BY <1>0, <1>4, <2>4 DEF CheckIdle, C2SOK, ring, hand
  <2> QED
    BY <1>a, <2>2, <2>3, <2>5
<1>5. CASE DrainFIFOc2s
  <2>1. TypeOK'
    BY <1>0, <1>5, TypeNext DEF DrainFIFOc2s
  <2>2. 0 \in 0 .. NumThreads
    BY NumThreadsAssumption
  <2>3. /\ ready' \in 0 .. RingSize
        /\ lent' \in Seq(0 .. NumThreads)
        /\ ready' + Len(lent') <= RingSize
    BY <1>0, <1>5, <2>2, LendType DEF DrainFIFOc2s, DrainRelease
  <2>4. C2SOK'
    BY <1>0, <1>5, <2>3 DEF DrainFIFOc2s, C2SOK, hand
  <2> QED
    BY <1>5, <1>a, <1>b, <2>1, <2>4 DEF DrainFIFOc2s
<1>6. CASE FShutdownMode
  <2>2. ModeTypeOK'
    BY <1>0, <1>6, ModeMainType DEF FShutdownMode
  <2>3. C2SOK'
    <3>1. CASE UNCHANGED ring
      BY <1>0, <1>6, <3>1 DEF FShutdownMode, C2SOK, ring, hand
    <3>2. CASE ready' = 0 /\ lent' = <<>>
      <4>1. lent' \in Seq(0 .. NumThreads) /\ Len(lent') = 0
        BY <3>2
      <4> QED
        BY <1>0, <1>6, <3>2, <4>1, RingAssumption DEF FShutdownMode, C2SOK, hand
    <3> QED
      BY <1>6, <3>1, <3>2 DEF FShutdownMode
  <2> QED
    BY <2>2, <2>3, FMade
<1> QED
  BY <1>1, <1>2, <1>3, <1>4, <1>5, <1>6 DEF FMain

(* The worker's steps keep the types of TestRun's variables.               *)
LEMMA FWorkerType ==
  ASSUME FTypeOK, HandInv, NEW i \in Thread, FWorker(i)
  PROVE  FTypeOK'
<1>0. /\ ModeTypeOK /\ C2SOK /\ TypeOK /\ ModeOK /\ MainTypeOK
      /\ wpc \in [Thread -> Busy \cup {"none", "done"}]
  BY FParts, ModeParts DEF TypeOK
<1> USE DEF FWorker, FIoctl, FIoctlFail, FChannelStatus, EntryInvalid,
            EntryLoad, EntryAccount,
            FBegin, FCheckRunning, CheckRunning, FFinish, Finish, NextEntry, transfer
<1>1. wpc' \in [Thread -> Busy \cup {"none", "done"}]
  <2>1. \E from \in {"begin", "io", "load", "account", "check", "finish"},
           to \in {"io", "load", "account", "check", "finish", "done"} : Go(i, from, to)
    OBVIOUS
  <2> QED
    BY <1>0, <2>1 DEF Go, Busy
<1>2. UNCHANGED mainState
  BY DEF Go
<1>3. running' \in [Thread -> BOOLEAN]
  BY <1>0 DEF MainTypeOK
<1>4. werr' \in [Thread -> Code]
  BY <1>0 DEF MainTypeOK, Code
<1>5. left' \in [Thread -> Int]
  BY <1>0 DEF MainTypeOK
<1>6. total' \in [Thread -> Nat] /\ tmpTotal' \in [Thread -> Nat]
  <2>1. total' \in [Thread -> Nat]
    BY <1>0 DEF MainTypeOK
  <2>2. tmpTotal' \in [Thread -> Nat]
    BY <1>0 DEF MainTypeOK
  <2> QED
    BY <2>1, <2>2
<1>7. UNCHANGED <<moved, transferred, modeVars, loopCount>>
  BY DEF c2sVars
<1>8. TypeOK'
  BY <1>0, <1>1, <1>2, <1>3, <1>4, <1>5, <1>6, <1>7
     DEF TypeOK, MainTypeOK, mainState, stats, resources, outcome, Sleeping, Code
<1>9. ModeOK'
  BY <1>0, <1>7 DEF ModeOK, modeVars
<1>10. C2SOK'
  <2>1. CASE FIoctl(i) \/ FChannelStatus(i)
    <3>1. PICK k \in 0 .. MaxBatch :
            Lend(i, release[i], k) /\ batch' = [batch EXCEPT ![i] = k]
      BY <2>1
    <3>2. i \in 0 .. NumThreads /\ release[i] \in Nat /\ k \in Nat
      BY <1>0, RingAssumption DEF C2SOK, Thread
    <3>3. /\ ready' \in 0 .. RingSize
          /\ lent' \in Seq(0 .. NumThreads)
          /\ ready' + Len(lent') <= RingSize
      BY <1>0, <3>1, <3>2, LendType
    <3>4. batch' \in [Thread -> 0 .. MaxBatch] /\ release' \in [Thread -> 0 .. MaxBatch]
      BY <1>0, <2>1, <3>1, RingAssumption DEF C2SOK
    <3> QED
      BY <1>0, <2>1, <3>3, <3>4 DEF C2SOK
  <2>2. CASE EntryInvalid(i) \/ EntryLoad(i)
    <3>1. /\ batch' = [batch EXCEPT ![i] = @ - 1]
          /\ release' = [release EXCEPT ![i] = @ + 1]
          /\ UNCHANGED <<loopCount, ring>>
          /\ wpc[i] = "load"
      BY <2>2 DEF Entry, Go
    <3>2. batch[i] \in 1 .. MaxBatch /\ release[i] + 1 \in 0 .. MaxBatch
      BY <1>0, <3>1, RingAssumption DEF HandInv, C2SOK
    <3> QED
      BY <1>0, <3>1, <3>2, RingAssumption DEF C2SOK, ring
  <2>3. CASE ~(FIoctl(i) \/ FChannelStatus(i) \/ EntryInvalid(i) \/ EntryLoad(i))
    <3>1. UNCHANGED c2sVars
      BY <2>3 DEF c2sVars, hand
    <3> QED
      BY <1>0, <3>1, C2SKept
  <2> QED
    BY <2>1, <2>2, <2>3
<1> QED
  BY <1>8, <1>9, <1>10, ModeMade, FMade

LEMMA FTypeNext == FTypeOK /\ HandInv /\ [FNext]_fvars => FTypeOK'
<1> SUFFICES ASSUME FTypeOK, HandInv, [FNext]_fvars PROVE FTypeOK'
  OBVIOUS
<1>0. ModeTypeOK /\ C2SOK /\ TypeOK /\ ModeOK
  BY FParts, ModeParts
<1>1. CASE FMain
  BY <1>1, FMainType
<1>2. CASE Arrive
  <2>1. TypeOK' /\ ModeOK'
    BY <1>0, <1>2, TypeNext DEF Arrive, ModeOK, modeVars
  <2>2. C2SOK'
    BY <1>0, <1>2, RingAssumption DEF Arrive, C2SOK, hand
  <2> QED
    BY <2>1, <2>2, ModeMade, FMade
<1>3. ASSUME NEW i \in Thread, FWorker(i) PROVE FTypeOK'
  BY <1>3, FWorkerType
<1>4. CASE (UserStop \/ Terminated \/ UNCHANGED vars) /\ UNCHANGED <<modeVars, c2sVars>>
  <2>1. TypeOK'
    BY <1>0, <1>4, TypeNext DEF Next
  <2>2. ModeOK'
    BY <1>0, <1>4 DEF ModeOK, modeVars
  <2> QED
    BY <1>0, <1>4, <2>1, <2>2, C2SKept, ModeMade, FMade
<1> QED
  BY <1>1, <1>2, <1>3, <1>4 DEF FNext, fvars

-----------------------------------------------------------------------------
(* What the common steps of the main thread leave alone.                   *)
LEMMA ModeMainKeeps ==
  ASSUME ModeMain
  PROVE  /\ mpc' \in Looping => mpc \in Looping
         /\ \A i \in Thread : wpc'[i] = wpc[i] \/ wpc'[i] \in {"begin", "none"}
<1> USE DEF Looping, Setup
<1>1. CASE FAllocBuffer \/ SetupMode \/ SetupTraffic
  BY <1>1 DEF FAllocBuffer, SetupMode, SetupTraffic, GiveUp, workerVars
<1>2. CASE FStartThreads
  BY <1>2 DEF FStartThreads, StartThreads
<1>3. CASE FWakeShutdown \/ StopTraffic \/ DrainOver \/ FRelease
  BY <1>3 DEF FWakeShutdown, WakeShutdown, StopTraffic, DrainOver, FRelease,
              Release, vars, workerVars
<1>4. CASE RejectSize \/ OpenChannel \/ CollectRead \/ CollectClear \/ DisplayPass
  BY <1>4 DEF RejectSize, OpenChannel, CollectRead, CollectClear, DisplayPass,
              workerVars
<1>5. CASE ErrorCheck \/ LoadSeconds \/ WakeStop \/ Gather \/ Shutdown \/ Exit
  BY <1>5 DEF ErrorCheck, LoadSeconds, WakeStop, Gather, Shutdown, Exit, workerVars
<1> QED
  BY <1>1, <1>2, <1>3, <1>4, <1>5 DEF ModeMain

LEMMA HandNext == FTypeOK /\ HandInv /\ [FNext]_fvars => HandInv'
<1> SUFFICES ASSUME FTypeOK, HandInv, [FNext]_fvars PROVE HandInv'
  OBVIOUS
<1>0. /\ C2SOK /\ wpc \in [Thread -> Busy \cup {"none", "done"}]
      /\ batch \in [Thread -> 0 .. MaxBatch] /\ release \in [Thread -> 0 .. MaxBatch]
      /\ RingSize \in Nat /\ MaxBatch \in Nat
  BY FParts, ModeParts, RingAssumption DEF TypeOK, C2SOK
<1>a. ASSUME UNCHANGED <<hand, loopCount>>,
             mpc' \in Looping => mpc \in Looping,
             \A i \in Thread : wpc'[i] = wpc[i] \/ wpc'[i] \in {"begin", "none"}
      PROVE  HandInv'
  BY <1>a DEF HandInv, hand
<1>1. CASE ModeMain /\ UNCHANGED c2sVars
  BY <1>1, <1>a, ModeMainKeeps DEF c2sVars
<1>2. CASE FWakePass \/ FStoreSeconds
  BY <1>2, <1>a DEF FWakePass, WakePass, FStoreSeconds, StoreSeconds, c2sVars,
     Looping, workerVars
<1>3. CASE CheckIdle
  <2>1. mpc' \in Looping => loopCount' \in 1 .. 2
    <3>1. loopCount \in 1 .. 2
      BY <1>3 DEF CheckIdle, HandInv, Looping
    <3>2. loopCount' = 2 \/ loopCount' = loopCount - 1
      BY <1>3 DEF CheckIdle, LoopsLeft
    <3>3. mpc' = IF loopCount' = 0 THEN "shutdown" ELSE "sleep"
      BY <1>3 DEF CheckIdle
    <3>4. mpc' \in Looping => loopCount' # 0
      BY <3>3 DEF Looping, Setup
    <3> QED
      BY <3>1, <3>2, <3>4
  <2> QED
    BY <1>3, <2>1 DEF CheckIdle, HandInv, hand, workerVars
<1>4. CASE DrainFIFOc2s \/ FShutdownMode \/ Arrive
  BY <1>4, <1>a DEF DrainFIFOc2s, FShutdownMode, ShutdownMode, Arrive, vars, workerVars
<1>5. CASE (UserStop \/ Terminated \/ UNCHANGED vars) /\ UNCHANGED <<modeVars, c2sVars>>
  BY <1>5, <1>a DEF UserStop, Terminated, vars, workerVars, c2sVars
<1>6. ASSUME NEW i \in Thread, FWorker(i) PROVE HandInv'
  <2>1. mpc' = mpc /\ loopCount' = loopCount
    BY <1>6 DEF FWorker, FIoctl, FIoctlFail, FChannelStatus, EntryInvalid,
       EntryLoad, EntryAccount,
       FBegin, FCheckRunning, CheckRunning, FFinish, Finish, NextEntry, Go, mainState,
       c2sVars
  <2>2. \A j \in Thread \ {i} :
          wpc'[j] = wpc[j] /\ batch'[j] = batch[j] /\ release'[j] = release[j]
    BY <1>0, <1>6 DEF FWorker, FIoctl, FIoctlFail, FChannelStatus, EntryInvalid,
       EntryLoad, EntryAccount,
       FBegin, FCheckRunning, CheckRunning, FFinish, Finish, NextEntry, Entry, Go,
       c2sVars, hand
  <2>3. ASSUME batch'[i] + release'[i] <= MaxBatch, wpc'[i] = "load" => batch'[i] >= 1
        PROVE  HandInv'
    BY <2>1, <2>2, <2>3 DEF HandInv
  <2>4. CASE FIoctl(i) \/ FChannelStatus(i)
    <3>1. PICK k \in 0 .. MaxBatch :
            /\ batch' = [batch EXCEPT ![i] = k]
            /\ \/ wpc' = [wpc EXCEPT ![i] = "finish"]
               \/ wpc' = [wpc EXCEPT ![i] = IF ~windows THEN "finish"
                                            ELSE IF k > 0 THEN "load"
                                            ELSE IF left[i] = 1 THEN "finish" ELSE "check"]
      BY <2>4 DEF FIoctl, FChannelStatus, Go
    <3>2. batch'[i] = k /\ release'[i] = 0 /\ (wpc'[i] = "load" => k > 0)
      BY <1>0, <2>4, <3>1 DEF FIoctl, FChannelStatus
    <3> QED
      BY <1>0, <2>3, <3>2
  <2>5. CASE EntryInvalid(i) \/ EntryLoad(i)
    <3>1. batch' = [batch EXCEPT ![i] = @ - 1] /\ release' = [release EXCEPT ![i] = @ + 1]
      BY <2>5 DEF EntryInvalid, EntryLoad, Entry
    <3>2. wpc[i] = "load" /\ (wpc'[i] = "load" => batch'[i] # 0)
      BY <1>0, <2>5 DEF EntryInvalid, EntryLoad, NextEntry, Go
    <3>3. batch'[i] = batch[i] - 1 /\ release'[i] = release[i] + 1
      BY <1>0, <3>1
    <3>4. batch[i] \in Nat /\ batch[i] >= 1 /\ release[i] \in Nat
          /\ batch[i] + release[i] <= MaxBatch
      BY <1>0, <3>2 DEF HandInv
    <3> QED
      BY <2>3, <3>2, <3>3, <3>4
  <2>6. CASE EntryAccount(i)
    <3>1. UNCHANGED hand /\ (wpc'[i] = "load" => batch'[i] # 0)
      BY <1>0, <2>6 DEF EntryAccount, NextEntry, Go
    <3>2. batch[i] \in Nat /\ batch'[i] = batch[i]
      BY <1>0, <3>1 DEF hand
    <3> QED
      BY <2>3, <3>1, <3>2 DEF HandInv, hand
  <2>7. CASE FIoctlFail(i) \/ ((FBegin(i) \/ FCheckRunning(i) \/ FFinish(i)) /\ UNCHANGED c2sVars)
    <3>1. wpc'[i] # "load" /\ UNCHANGED hand
      BY <1>0, <2>7 DEF FIoctlFail, FBegin, FCheckRunning, CheckRunning, FFinish, Finish,
         Go, c2sVars
    <3> QED
      BY <2>3, <3>1 DEF HandInv, hand
  <2> QED
    BY <1>6, <2>4, <2>5, <2>6, <2>7 DEF FWorker
<1> QED
  BY <1>1, <1>2, <1>3, <1>4, <1>5, <1>6 DEF FNext, FMain, fvars

(* The types hold in every run; that the ring never lends more elements    *)
(* than it has is one of them.                                             *)
THEOREM FTypeCorrect == FSpec => []FTypeOK
<1>1. FTypeOK /\ HandInv /\ [FNext]_fvars => (FTypeOK /\ HandInv)'
  BY FTypeNext, HandNext
<1> QED
  BY <1>1, FTypeInit, PTL DEF FSpec

-----------------------------------------------------------------------------
LEMMA MappedNext == MappedInv /\ [FNext]_fvars => MappedInv'
<1> SUFFICES ASSUME MappedInv, [FNext]_fvars PROVE MappedInv'
  OBVIOUS
<1>1. CASE ModeMain \/ ShutdownMode
  BY <1>1, MappedMain
<1>2. CASE FWakePass \/ FStoreSeconds
  BY <1>2 DEF MappedInv, FWakePass, WakePass, FStoreSeconds, StoreSeconds, modeVars
<1>3. CASE CheckIdle
  BY <1>3 DEF MappedInv, CheckIdle
<1>4. CASE DrainFIFOc2s \/ Arrive \/ UNCHANGED fvars
  BY <1>4 DEF MappedInv, DrainFIFOc2s, Arrive, fvars, vars, modeVars, outcome
<1>5. CASE (UserStop \/ Terminated) /\ UNCHANGED <<modeVars, c2sVars>>
  BY <1>5 DEF MappedInv, UserStop, Terminated, vars, modeVars, outcome
<1>6. ASSUME NEW i \in Thread, FWorker(i) PROVE MappedInv'
  <2>1. UNCHANGED <<mainState, modeVars>>
    BY <1>6 DEF FWorker, FIoctl, FIoctlFail, FChannelStatus, EntryInvalid,
       EntryLoad, EntryAccount,
       FBegin, FCheckRunning, CheckRunning, FFinish, Finish, NextEntry, Go
  <2> QED
    BY <2>1 DEF MappedInv, mainState, modeVars, outcome
<1> QED
  BY <1>1, <1>2, <1>3, <1>4, <1>5, <1>6 DEF FNext, FMain, FShutdownMode

(* In every run of the receive test, a channel that is left in FIFO mode   *)
(* on the freed buffer shows in the exit status (ShutdownChannelMode).     *)
THEOREM ReceiveMappedCorrect == FSpec => []MappedIsReported
<1>1. FInit => MappedInv
  BY MappedInit DEF FInit
<1> QED
  BY <1>1, MappedNext, MappedImplies, PTL DEF FSpec

-----------------------------------------------------------------------------
(* Counting the elements a thread has in a sequence.                       *)
Has(i, s) == {j \in DOMAIN s : s[j] = i}

LEMMA CountTo ==
  ASSUME NEW n \in Nat
  PROVE  IsFiniteSet(1 .. n) /\ Cardinality(1 .. n) = n
<1> QED
  BY FS_Interval

LEMMA HasFinite ==
  ASSUME NEW s, Len(s) \in Nat, DOMAIN s = 1 .. Len(s), NEW i
  PROVE  IsFiniteSet(Has(i, s)) /\ Cardinality(Has(i, s)) \in Nat
<1>1. IsFiniteSet(1 .. Len(s))
  BY FS_Interval
<1>2. Has(i, s) \in SUBSET (1 .. Len(s))
  BY DEF Has
<1>3. IsFiniteSet(Has(i, s))
  BY <1>1, <1>2, FS_Subset
<1> QED
  BY <1>3, FS_CardinalityType

(* A release of n elements takes at most n from any thread.                *)
LEMMA FreedCount ==
  ASSUME lent \in Seq(0 .. NumThreads), NEW n \in Nat, NEW i
  PROVE  Cardinality(Has(i, lent)) <= Cardinality(Has(i, Freed(n))) + n
<1> DEFINE S == Has(i, lent)
           T == Has(i, Freed(n))
           f == [j \in S \ (1 .. n) |-> j - n]
<1>1. /\ Freed(n) \in Seq(0 .. NumThreads)
      /\ Len(Freed(n)) = IF n < Len(lent) THEN Len(lent) - n ELSE 0
      /\ \A j \in 1 .. Len(Freed(n)) : Freed(n)[j] = lent[n + j]
  BY FreedProperties
<1>2. Len(lent) \in Nat /\ DOMAIN lent = 1 .. Len(lent)
  OBVIOUS
<1>3. Len(Freed(n)) \in Nat /\ DOMAIN Freed(n) = 1 .. Len(Freed(n))
  BY <1>1
<1>4. IsFiniteSet(S) /\ IsFiniteSet(T) /\ Cardinality(S) \in Nat /\ Cardinality(T) \in Nat
  BY <1>2, <1>3, HasFinite
<1>5. f \in Injection(S \ (1 .. n), T)
  <2>1. ASSUME NEW j \in S \ (1 .. n) PROVE j \in Nat /\ j - n \in T
    <3>1. j \in 1 .. Len(lent) /\ j > n /\ lent[j] = i
      BY <1>2, <2>1 DEF Has
    <3>2. j - n \in 1 .. Len(Freed(n))
      <4>1. n < Len(lent) /\ Len(lent) \in Nat
        BY <1>2, <3>1
      <4>2. Len(Freed(n)) = Len(lent) - n
        BY <1>1, <4>1, Zenon
      <4> QED
        BY <3>1, <4>1, <4>2
    <3>3. Freed(n)[j - n] = lent[n + (j - n)] /\ n + (j - n) = j
      BY <1>1, <3>1, <3>2
    <3> QED
      BY <1>3, <3>1, <3>2, <3>3 DEF Has
  <2>2. f \in [S \ (1 .. n) -> T]
    BY <2>1
  <2>3. \A a, b \in S \ (1 .. n) : f[a] = f[b] => a = b
    BY <2>1
  <2> QED
    BY <2>2, <2>3 DEF Injection, IsInjective
<1>6. Cardinality(S \ (1 .. n)) <= Cardinality(T)
  BY <1>4, <1>5, FS_Injection
<1>7. Cardinality(S \ (1 .. n)) = Cardinality(S) - Cardinality(S \cap (1 .. n))
  BY <1>4, FS_Difference
<1>8. IsFiniteSet(1 .. n) /\ Cardinality(1 .. n) = n
  BY CountTo
<1>9. /\ Cardinality(S \cap (1 .. n)) <= n
      /\ Cardinality(S \cap (1 .. n)) \in Nat
  BY <1>4, <1>8, FS_Intersection, FS_CardinalityType
<1> HIDE DEF S, T
<1>10. Cardinality(S) <= Cardinality(T) + n
  BY <1>4, <1>6, <1>7, <1>9
<1> QED
  BY <1>10 DEF S, T

(* A batch of k more gives thread i k more, and takes nothing from others. *)
LEMMA LentCount ==
  ASSUME lent \in Seq(0 .. NumThreads), NEW n \in Nat, NEW k \in Nat,
         NEW i \in 0 .. NumThreads, NEW t
  PROVE  Cardinality(Has(t, NowLent(i, n, k)))
           >= Cardinality(Has(t, Freed(n))) + IF t = i THEN k ELSE 0
<1> DEFINE F == Freed(n)
           L == NowLent(i, n, k)
           T == Has(t, F)
           A == (Len(F) + 1) .. (Len(F) + k)
<1>1. /\ L \in Seq(0 .. NumThreads)
      /\ Len(L) = Len(F) + k
      /\ Len(F) \in Nat
      /\ \A j \in 1 .. Len(F) + k : L[j] = IF j <= Len(F) THEN F[j] ELSE i
  BY LentProperties, ZenonT(30)
<1>2. F \in Seq(0 .. NumThreads) /\ DOMAIN F = 1 .. Len(F)
  BY FreedProperties, SMTT(30)
<1>3. Len(L) \in Nat /\ DOMAIN L = 1 .. Len(F) + k
  BY <1>1
<1> HIDE DEF F, L
<1>4. /\ IsFiniteSet(T) /\ Cardinality(T) \in Nat
      /\ IsFiniteSet(Has(t, L)) /\ Cardinality(Has(t, L)) \in Nat
  <2>1. DOMAIN L = 1 .. Len(L)
    BY <1>1, <1>3
  <2> QED
    BY <1>1, <1>2, <1>3, <2>1, HasFinite
<1>5. T \in SUBSET Has(t, L)
  <2>1. ASSUME NEW j \in T PROVE j \in Has(t, L)
    <3>1. j \in 1 .. Len(F) /\ F[j] = t
      BY <1>2, <2>1 DEF Has
    <3>2. j \in 1 .. Len(F) + k /\ j <= Len(F)
      BY <1>1, <3>1
    <3> QED
      BY <1>1, <1>3, <3>1, <3>2 DEF Has
  <2> QED
    BY <2>1
<1>6. CASE t # i
  BY <1>4, <1>5, <1>6, FS_Subset DEF F, L
<1>7. CASE t = i
  <2>1. T \cup A \in SUBSET Has(t, L)
    <3>1. ASSUME NEW j \in A PROVE j \in Has(t, L)
      <4>1. j \in 1 .. Len(F) + k /\ ~(j <= Len(F))
        BY <1>1
      <4> QED
        BY <1>1, <1>3, <1>7, <4>1 DEF Has
    <3> QED
      BY <1>5, <3>1
  <2>2. IsFiniteSet(A) /\ Cardinality(A) = k
    <3>1. PICK lo \in Int, hi \in Int : lo = Len(F) + 1 /\ hi = Len(F) + k
      BY <1>1
    <3>2. A = lo .. hi
      BY <3>1
    <3>3. IF lo > hi THEN k = 0 ELSE hi - lo + 1 = k
      BY <1>1, <3>1
    <3> HIDE DEF A
    <3>4. IsFiniteSet(lo .. hi)
      BY FS_Interval, Zenon
    <3>5. Cardinality(lo .. hi) = IF lo > hi THEN 0 ELSE hi - lo + 1
      BY FS_Interval, Zenon
    <3> QED
      BY <3>2, <3>3, <3>4, <3>5
  <2>3. T \cap A = {}
    BY <1>1, <1>2 DEF Has
  <2>4. /\ IsFiniteSet(T \cup A)
        /\ Cardinality(T \cup A) = Cardinality(T) + k - Cardinality(T \cap A)
    BY <1>4, <2>2, FS_Union
  <2>5. Cardinality(T \cap A) = 0
    BY <2>3, FS_EmptySet
  <2>6. Cardinality(T \cup A) <= Cardinality(Has(t, L))
    BY <1>4, <2>1, FS_Subset
  <2>7. Cardinality(Has(t, L)) >= Cardinality(T) + k
    BY <1>4, <2>4, <2>5, <2>6
  <2> QED
    BY <1>7, <2>7 DEF F, L
<1> QED
  BY <1>6, <1>7

-----------------------------------------------------------------------------
(* With one thread: what the thread has in hand, read or not, is lent to   *)
(* it.  Before the channel is in FIFO mode it has nothing in hand.         *)
CountInv ==
  /\ fifoMode => batch[1] + release[1] <= Cardinality(Has(1, lent))
  /\ wpc[1] = "account" => release[1] >= 1
  /\ fpc = "mode" => batch[1] = 0 /\ release[1] = 0

(* Everything that UnreadIsLent rests on.                                  *)
LentInv == FTypeOK /\ HandInv /\ MappedInv /\ CountInv

LEMMA CountInit == FInit => CountInv
  BY NumThreadsAssumption DEF FInit, ModeInit, Init, CountInv, Thread

(* Lending keeps what a thread had before, less what was released.         *)
LEMMA LendCount ==
  ASSUME FTypeOK, NEW i \in 0 .. NumThreads, NEW n \in Nat, NEW k \in Nat,
         Lend(i, n, k), 1 \in Thread
  PROVE  /\ Cardinality(Has(1, lent)) \in Nat
         /\ Cardinality(Has(1, lent)') \in Nat
         /\ Cardinality(Has(1, lent)') + n
              >= Cardinality(Has(1, lent)) + IF i = 1 THEN k ELSE 0
<1>1. lent \in Seq(0 .. NumThreads)
  BY FParts DEF C2SOK
<1>2. lent' = NowLent(i, n, k)
  BY DEF Lend, NowLent
<1>3. Has(1, lent)' = Has(1, NowLent(i, n, k))
  BY <1>2 DEF Has
<1>4. Cardinality(Has(1, NowLent(i, n, k)))
        >= Cardinality(Has(1, Freed(n))) + IF 1 = i THEN k ELSE 0
  BY <1>1, LentCount
<1>5. Cardinality(Has(1, lent)) <= Cardinality(Has(1, Freed(n))) + n
  BY <1>1, FreedCount
<1>6. /\ Cardinality(Has(1, lent)) \in Nat
      /\ Cardinality(Has(1, Freed(n))) \in Nat
      /\ Cardinality(Has(1, NowLent(i, n, k))) \in Nat
  <2>1. Freed(n) \in Seq(0 .. NumThreads) /\ NowLent(i, n, k) \in Seq(0 .. NumThreads)
    BY <1>1, FreedProperties, LentProperties
  <2>2. /\ Len(lent) \in Nat /\ DOMAIN lent = 1 .. Len(lent)
        /\ Len(Freed(n)) \in Nat /\ DOMAIN Freed(n) = 1 .. Len(Freed(n))
        /\ Len(NowLent(i, n, k)) \in Nat
        /\ DOMAIN NowLent(i, n, k) = 1 .. Len(NowLent(i, n, k))
    BY <1>1, <2>1
  <2> QED
    BY <2>2, HasFinite
<1> QED
  BY <1>3, <1>4, <1>5, <1>6

LEMMA CountNext == NumThreads = 1 /\ LentInv /\ [FNext]_fvars => CountInv'
<1> SUFFICES ASSUME NumThreads = 1, LentInv, [FNext]_fvars PROVE CountInv'
  OBVIOUS
<1>0. /\ C2SOK /\ FTypeOK /\ HandInv /\ MappedInv /\ CountInv
      /\ 1 \in Thread /\ Thread = {1}
      /\ wpc \in [Thread -> Busy \cup {"none", "done"}]
      /\ batch \in [Thread -> 0 .. MaxBatch] /\ release \in [Thread -> 0 .. MaxBatch]
      /\ RingSize \in Nat /\ MaxBatch \in Nat
  BY FParts, ModeParts, RingAssumption DEF LentInv, TypeOK, C2SOK, Thread
<1>a. /\ batch[1] \in Nat /\ release[1] \in Nat
      /\ batch[1] + release[1] <= MaxBatch
  BY <1>0 DEF HandInv
<1>b. ASSUME UNCHANGED <<hand, lent>>, fifoMode' => fifoMode, fpc' = "mode" => fpc = "mode",
             wpc'[1] = wpc[1] \/ wpc'[1] \in {"begin", "none"}
      PROVE  CountInv'
  BY <1>0, <1>b DEF CountInv, hand, Has
<1>1. CASE SetupMode /\ UNCHANGED c2sVars
  <2>1. fpc = "mode" /\ batch[1] = 0 /\ release[1] = 0
    BY <1>0, <1>1 DEF SetupMode, CountInv
  <2>2. lent \in Seq(0 .. NumThreads) /\ lent' = lent
    BY <1>0, <1>1 DEF C2SOK, c2sVars, ring
  <2>3. Cardinality(Has(1, lent)') \in Nat
    <3>1. Len(lent) \in Nat /\ DOMAIN lent = 1 .. Len(lent)
      BY <2>2
    <3> QED
      BY <2>2, <3>1, HasFinite DEF Has
  <2>4. batch'[1] = 0 /\ release'[1] = 0 /\ wpc'[1] = wpc[1]
    BY <1>1, <2>1 DEF SetupMode, c2sVars, hand, workerVars
  <2>5. wpc[1] # "account"
    BY <1>0, <2>1 DEF CountInv
  <2> QED
    BY <2>3, <2>4, <2>5 DEF CountInv
<1>2. CASE ModeMain /\ ~SetupMode /\ UNCHANGED c2sVars
  <2>1. (fifoMode' => fifoMode) /\ (fpc' = "mode" => fpc = "mode")
    <3>1. CASE FAllocBuffer \/ FRelease \/ UNCHANGED modeVars
      BY <3>1 DEF FAllocBuffer, FRelease, modeVars
    <3>2. CASE SetupTraffic
      BY <3>2 DEF SetupTraffic, GiveUp
    <3>3. CASE FStartThreads \/ FWakeShutdown \/ StopTraffic \/ DrainOver
      <4>1. fpc' \in {"loop", "stop", "drain", "unset"}
        BY <3>3 DEF FStartThreads, FWakeShutdown, StopTraffic, DrainOver
      <4>2. fifoMode' = fifoMode
        BY <3>3 DEF FStartThreads, FWakeShutdown, StopTraffic, DrainOver
      <4> QED
        BY <4>1, <4>2
    <3> QED
      BY <1>2, <3>1, <3>2, <3>3 DEF ModeMain
  <2> QED
    BY <1>0, <1>2, <1>b, <2>1, ModeMainKeeps DEF c2sVars, ring
<1>3. CASE FWakePass \/ FStoreSeconds \/ CheckIdle \/ Arrive
  BY <1>3, <1>b DEF FWakePass, WakePass, FStoreSeconds, StoreSeconds, CheckIdle, Arrive,
     c2sVars, ring, workerVars, modeVars, vars
<1>4. CASE DrainFIFOc2s
  <2>1. Lend(0, 0, 1) /\ UNCHANGED <<vars, modeVars, hand>>
    BY <1>4 DEF DrainFIFOc2s, DrainRelease
  <2>2. 0 \in 0 .. NumThreads
    BY <1>0
  <2>3. /\ Cardinality(Has(1, lent)) \in Nat
        /\ Cardinality(Has(1, lent)') \in Nat
        /\ Cardinality(Has(1, lent)') + 0 >= Cardinality(Has(1, lent)) + 0
    BY <1>0, <2>1, <2>2, LendCount
  <2> QED
    BY <1>0, <1>a, <2>1, <2>3 DEF CountInv, vars, workerVars, modeVars, hand
<1>5. CASE FShutdownMode
  <2>1. fpc' = "free" /\ wpc' = wpc /\ UNCHANGED hand
    BY <1>5 DEF FShutdownMode, ShutdownMode, workerVars
  <2>2. ~fifoMode' \/ (fifoMode /\ UNCHANGED lent)
    BY <1>5 DEF FShutdownMode, ShutdownMode, ring
  <2> QED
    BY <1>0, <2>1, <2>2 DEF CountInv, Has, hand
<1>6. CASE (UserStop \/ Terminated \/ UNCHANGED vars) /\ UNCHANGED <<modeVars, c2sVars>>
  BY <1>6, <1>b DEF UserStop, Terminated, vars, workerVars, c2sVars, ring, modeVars
<1>7. ASSUME NEW i \in Thread, FWorker(i) PROVE CountInv'
  <2>0. i = 1
    BY <1>0
  <2>1. CASE FIoctl(1) \/ FChannelStatus(1)
    <3>1. PICK k \in 0 .. MaxBatch :
            Lend(1, release[1], k) /\ batch' = [batch EXCEPT ![1] = k]
      BY <2>1 DEF FIoctl, FChannelStatus
    <3>2. /\ batch'[1] = k /\ release'[1] = 0 /\ k \in Nat
          /\ fifoMode /\ fpc' = fpc
      <4>1. release' = [release EXCEPT ![1] = 0] /\ UNCHANGED modeVars
        BY <2>1 DEF FIoctl, FChannelStatus
      <4> QED
        BY <1>0, <3>1, <4>1 DEF Lend, modeVars
    <3>3. wpc'[1] # "account"
      BY <1>0, <2>1 DEF FIoctl, FChannelStatus, Go
    <3>4. /\ Cardinality(Has(1, lent)) \in Nat
          /\ Cardinality(Has(1, lent)') \in Nat
          /\ Cardinality(Has(1, lent)') + release[1] >= Cardinality(Has(1, lent)) + k
      <4>1. 1 \in 0 .. NumThreads
        BY <1>0
      <4>2. /\ Cardinality(Has(1, lent)) \in Nat
            /\ Cardinality(Has(1, lent)') \in Nat
            /\ Cardinality(Has(1, lent)') + release[1]
                 >= Cardinality(Has(1, lent)) + IF 1 = 1 THEN k ELSE 0
        BY <1>0, <1>a, <3>1, <3>2, <4>1, LendCount
      <4> QED
        BY <4>2
    <3>5. batch[1] + release[1] <= Cardinality(Has(1, lent))
      BY <1>0, <3>2 DEF CountInv
    <3>6. batch'[1] + release'[1] <= Cardinality(Has(1, lent)')
      BY <1>a, <3>2, <3>4, <3>5
    <3>7. fpc' # "mode"
      BY <1>0, <3>2 DEF MappedInv
    <3> QED
      BY <3>3, <3>6, <3>7 DEF CountInv
  <2>2. CASE EntryInvalid(1) \/ EntryLoad(1)
    <3>1. /\ batch' = [batch EXCEPT ![1] = @ - 1] /\ release' = [release EXCEPT ![1] = @ + 1]
          /\ UNCHANGED <<modeVars, ring>>
      BY <2>2 DEF EntryInvalid, EntryLoad, Entry
    <3>2. wpc[1] = "load"
      BY <2>2 DEF EntryInvalid, EntryLoad, NextEntry, Go
    <3>3. batch'[1] = batch[1] - 1 /\ release'[1] = release[1] + 1 /\ batch[1] >= 1
      BY <1>0, <3>1, <3>2 DEF HandInv
    <3>4. batch'[1] + release'[1] = batch[1] + release[1] /\ release'[1] >= 1
      BY <1>a, <3>3
    <3>5. fpc' = fpc /\ fpc # "mode" /\ fifoMode' = fifoMode /\ lent' = lent
      BY <1>0, <3>1, <3>3 DEF CountInv, modeVars, ring
    <3> QED
      BY <1>0, <3>4, <3>5 DEF CountInv, Has
  <2>3. CASE EntryAccount(1)
    <3>1. UNCHANGED <<hand, ring, modeVars>> /\ wpc'[1] # "account"
      BY <1>0, <2>3 DEF EntryAccount, NextEntry, Go
    <3> QED
      BY <1>0, <3>1 DEF CountInv, hand, ring, modeVars, Has
  <2>4. CASE FIoctlFail(1) \/ ((FBegin(1) \/ FCheckRunning(1) \/ FFinish(1)) /\ UNCHANGED c2sVars)
    <3>1. UNCHANGED <<hand, ring, modeVars>> /\ wpc'[1] # "account"
      BY <1>0, <2>4 DEF FIoctlFail, FBegin, FCheckRunning, CheckRunning, FFinish, Finish,
         Go, c2sVars
    <3> QED
      BY <1>0, <3>1 DEF CountInv, hand, ring, modeVars, Has
  <2> QED
    BY <1>7, <2>0, <2>1, <2>2, <2>3, <2>4 DEF FWorker
<1> QED
  BY <1>1, <1>2, <1>3, <1>4, <1>5, <1>6, <1>7 DEF FNext, FMain, fvars

(* With one thread every packet it still has to read is in an element lent *)
(* to it, for every size of the ring and of a batch, whatever the drain of *)
(* a main thread that has not waited for it does meanwhile.                *)
THEOREM UnreadCorrect ==
  ASSUME NumThreads = 1 PROVE FSpec => []UnreadIsLent
<1>1. FInit => LentInv
  BY FTypeInit, MappedInit, CountInit DEF FInit, LentInv
<1>2. LentInv /\ [FNext]_fvars => LentInv'
  <2> SUFFICES ASSUME LentInv, [FNext]_fvars PROVE LentInv'
    OBVIOUS
  <2>1. FTypeOK' /\ HandInv' /\ MappedInv' /\ CountInv'
    BY FTypeNext, HandNext, MappedNext, CountNext DEF LentInv
  <2> QED
    BY <2>1 DEF LentInv
<1>3. LentInv => UnreadIsLent
  <2> SUFFICES ASSUME LentInv, fifoMode, NEW i \in Thread
               PROVE  Unread(i) <= Cardinality({j \in DOMAIN lent : lent[j] = i})
    BY DEF UnreadIsLent
  <2>1. i = 1 /\ batch[1] \in Nat /\ release[1] \in Nat /\ lent \in Seq(0 .. NumThreads)
    BY FParts DEF LentInv, C2SOK, Thread
  <2>2. /\ batch[1] + release[1] <= Cardinality(Has(1, lent))
        /\ wpc[1] = "account" => release[1] >= 1
    BY DEF LentInv, CountInv
  <2>3. Cardinality(Has(1, lent)) \in Nat
    <3>1. Len(lent) \in Nat /\ DOMAIN lent = 1 .. Len(lent)
      BY <2>1
    <3> QED
      BY <3>1, HasFinite
  <2>4. Unread(1) <= Cardinality(Has(1, lent))
    BY <2>1, <2>2, <2>3 DEF Unread
  <2> QED
    BY <2>1, <2>4 DEF Has
<1> QED
  BY <1>1, <1>2, <1>3, PTL DEF FSpec

-----------------------------------------------------------------------------
(* The send test.                                                          *)

(* The parts of STypeOK that FifoS2C adds, but offset.                     *)
SendOK ==
  /\ sent \in [Thread -> 0 .. NumEntries]
  /\ queued \in 0 .. PoolSize

(* A thread that is at an entry has one.                                   *)
EntryInv == \A i \in Thread : wpc[i] \in {"load", "account"} => sent[i] >= 1

SendTypes == TypeOK /\ ModeOK /\ SendOK /\ EntryInv

LEMMA SendTypesMade ==
  TypeOK' /\ ModeOK' /\ SendOK' /\ EntryInv' => SendTypes'
  BY DEF SendTypes

LEMMA SendTypesInit == SInit => SendTypes
<1> SUFFICES ASSUME SInit PROVE SendTypes
  OBVIOUS
<1>1. TypeOK /\ ModeOK
  BY ModeTypeInit, ModeParts DEF SInit
<1>2. SendOK
  BY PoolAssumption DEF SInit, SendOK
<1>3. EntryInv
  BY DEF SInit, ModeInit, Init, EntryInv
<1> QED
  BY <1>1, <1>2, <1>3 DEF SendTypes

-----------------------------------------------------------------------------
(* No step of the main thread sends a worker to an entry.                  *)
LEMMA MainStartsOnly ==
  ASSUME ModeMain \/ ShutdownMode \/ SLoop
  PROVE  \A i \in Thread : wpc'[i] = wpc[i] \/ wpc'[i] \in {"begin", "none"}
<1>1. CASE FAllocBuffer \/ SetupMode \/ SetupTraffic \/ ShutdownMode
  BY <1>1 DEF FAllocBuffer, SetupMode, SetupTraffic, ShutdownMode, workerVars
<1>2. CASE FStartThreads
  BY <1>2 DEF FStartThreads, StartThreads
<1>3. CASE FWakeShutdown \/ StopTraffic \/ DrainOver \/ FRelease
  BY <1>3 DEF FWakeShutdown, WakeShutdown, StopTraffic, DrainOver, FRelease,
              Release, vars, workerVars
<1>4. CASE RejectSize \/ OpenChannel \/ CollectRead \/ CollectClear \/ DisplayPass
  BY <1>4 DEF RejectSize, OpenChannel, CollectRead, CollectClear, DisplayPass,
              workerVars
<1>5. CASE ErrorCheck \/ LoadSeconds \/ WakeStop \/ Gather \/ Shutdown \/ Exit
  BY <1>5 DEF ErrorCheck, LoadSeconds, WakeStop, Gather, Shutdown, Exit, workerVars
<1>6. CASE SLoop
  BY <1>6 DEF SLoop, WakePass, StoreSeconds, workerVars
<1> QED
  BY <1>1, <1>2, <1>3, <1>4, <1>5, <1>6 DEF ModeMain

(* The workers' steps.                                                     *)
LEMMA SendWorkerTypes ==
  ASSUME SendTypes, NEW i \in Thread, SWorker(i)
  PROVE  SendTypes'
<1>0. /\ TypeOK /\ ModeOK /\ SendOK /\ EntryInv /\ MainTypeOK
      /\ wpc \in [Thread -> Busy \cup {"none", "done"}]
      /\ sent \in [Thread -> 0 .. NumEntries] /\ queued \in 0 .. PoolSize
      /\ NumEntries \in Nat \ {0} /\ PoolSize \in Nat /\ Length \in Nat \ {0}
  BY PoolAssumption DEF SendTypes, TypeOK, SendOK
<1> USE DEF SWorker, SIoctl, SIoctlFail, SLoad, SAccount, FBegin, FCheckRunning,
            CheckRunning, FFinish, Finish, transfer
<1>1. wpc' \in [Thread -> Busy \cup {"none", "done"}]
  <2>1. \E from \in {"begin", "io", "load", "account", "check", "finish"},
           to \in {"io", "load", "account", "check", "finish", "done"} : Go(i, from, to)
    OBVIOUS
  <2> QED
    BY <1>0, <2>1 DEF Go, Busy
<1>2. UNCHANGED mainState
  BY DEF Go
<1>3. running' \in [Thread -> BOOLEAN]
  BY <1>0 DEF MainTypeOK
<1>4. werr' \in [Thread -> Code]
  BY <1>0 DEF MainTypeOK, Code
<1>5. left' \in [Thread -> Int]
  BY <1>0 DEF MainTypeOK
<1>6. total' \in [Thread -> Nat]
  BY <1>0 DEF MainTypeOK
<1>7. tmpTotal' \in [Thread -> Nat]
  BY <1>0 DEF MainTypeOK
<1>8. UNCHANGED <<moved, modeVars>>
  OBVIOUS
<1>9. transferred' \in Nat
  <2>1. CASE SIoctl(i)
    <3>1. PICK k \in 0 .. NumEntries : transferred' = transferred + k * Length
      BY <2>1
    <3>2. k * Length \in Nat
      BY <1>0
    <3> QED
      BY <1>0, <3>1, <3>2 DEF MainTypeOK
  <2>2. CASE ~SIoctl(i)
    BY <1>0, <2>2 DEF MainTypeOK
  <2> QED
    BY <2>1, <2>2
<1>10. TypeOK'
  BY <1>0, <1>1, <1>2, <1>3, <1>4, <1>5, <1>6, <1>7, <1>8, <1>9
     DEF TypeOK, MainTypeOK, mainState, stats, resources, outcome, Sleeping, Code
<1>11. ModeOK'
  BY <1>0, <1>8 DEF ModeOK, modeVars
<1>12. SendOK' /\ EntryInv'
  <2>0. \A j \in Thread \ {i} : wpc'[j] = wpc[j] /\ sent'[j] = sent[j]
    BY <1>0 DEF Go, s2cVars
  <2>1. CASE SIoctl(i)
    <3>1. PICK k \in 0 .. NumEntries :
            Queue(NumEntries, k) /\ sent' = [sent EXCEPT ![i] = k]
      BY <2>1 DEF Counted
    <3>2. sent' \in [Thread -> 0 .. NumEntries] /\ sent'[i] = k
      BY <1>0, <3>1
    <3>3. queued' \in 0 .. PoolSize
      <4>1. k <= PoolSize - queued /\ queued' = queued + k
        <5>1. /\ NumEntries \in Int /\ PoolSize - queued \in Int
              /\ k \in 0 .. Min({NumEntries, PoolSize - queued})
              /\ queued' = queued + k
          BY <1>0, <3>1 DEF Queue
        <5>2. PICK m : m = Min({NumEntries, PoolSize - queued})
          OBVIOUS
        <5>3. m \in {NumEntries, PoolSize - queued} /\ m <= PoolSize - queued
          BY <5>1, <5>2 DEF Min
        <5> QED
          BY <5>1, <5>2, <5>3
      <4> QED
        BY <1>0, <4>1
    <3>4. wpc'[i] \in {"load", "account"} => sent'[i] >= 1
      BY <1>0, <2>1, <3>2 DEF Go
    <3> QED
      BY <1>0, <2>0, <3>2, <3>3, <3>4 DEF SendOK, EntryInv
  <2>2. CASE SAccount(i)
    <3>1. sent[i] >= 1 /\ sent[i] \in 0 .. NumEntries
      BY <1>0, <2>2 DEF EntryInv, Go
    <3>2. /\ sent' = [sent EXCEPT ![i] = @ - 1] /\ UNCHANGED queued
          /\ wpc'[i] \in {"load", "account"} => sent[i] > 1
      BY <1>0, <2>2 DEF Go
    <3>3. sent'[i] = sent[i] - 1
      BY <1>0, <3>2
    <3>4. sent' \in [Thread -> 0 .. NumEntries]
      BY <1>0, <3>1, <3>2
    <3> QED
      BY <1>0, <2>0, <3>1, <3>2, <3>3, <3>4 DEF SendOK, EntryInv
  <2>3. CASE SLoad(i)
    BY <1>0, <2>0, <2>3 DEF SendOK, EntryInv, Go, s2cVars
  <2>4. CASE SIoctlFail(i)
    BY <1>0, <2>0, <2>4 DEF SendOK, EntryInv, Go
  <2>5. CASE (FBegin(i) \/ FCheckRunning(i) \/ FFinish(i)) /\ UNCHANGED s2cVars
    BY <1>0, <2>0, <2>5 DEF SendOK, EntryInv, Go, s2cVars
  <2> QED
    BY <2>1, <2>2, <2>3, <2>4, <2>5
<1> QED
  BY <1>10, <1>11, <1>12, SendTypesMade

(* All steps.                                                              *)
LEMMA SendTypesNext == SendTypes /\ [SNext]_svars => SendTypes'
<1> SUFFICES ASSUME SendTypes, [SNext]_svars PROVE SendTypes'
  OBVIOUS
<1>0. TypeOK /\ ModeOK /\ SendOK /\ EntryInv /\ ModeTypeOK
  BY ModeParts DEF SendTypes
<1>a. ASSUME UNCHANGED sent, queued' \in 0 .. PoolSize,
             \A i \in Thread : wpc'[i] = wpc[i] \/ wpc'[i] \in {"begin", "none"}
      PROVE  SendOK' /\ EntryInv'
  BY <1>0, <1>a DEF SendOK, EntryInv
<1>b. queued \in 0 .. PoolSize /\ PoolSize \in Nat
  BY <1>0, PoolAssumption DEF SendOK
<1>1. CASE ModeMain /\ UNCHANGED s2cVars
  <2>1. TypeOK' /\ ModeOK'
    BY <1>0, <1>1, ModeMainType DEF ModeTypeOK, ModeOK
  <2> QED
    BY <1>1, <1>a, <1>b, <2>1, MainStartsOnly, SendTypesMade DEF s2cVars
<1>2. CASE SLoop
  <2>1. TypeOK'
    BY <1>0, <1>2, MainKeepsType DEF SLoop, Main
  <2>2. ModeOK'
    BY <1>0, <1>2 DEF SLoop, ModeOK, modeVars
  <2> QED
    BY <1>2, <1>a, <1>b, <2>1, <2>2, MainStartsOnly, SendTypesMade DEF SLoop, s2cVars
<1>3. CASE SShutdownMode
  <2>1. TypeOK' /\ ModeOK'
    BY <1>0, <1>3, ModeMainType DEF SShutdownMode, ModeTypeOK, ModeOK
  <2>2. ShutdownMode /\ UNCHANGED sent /\ queued' \in {queued, 0}
    BY <1>3 DEF SShutdownMode
  <2> QED
    BY <1>a, <1>b, <2>1, <2>2, MainStartsOnly, SendTypesMade
<1>4. CASE DrainFIFOs2c \/ Consume \/ UNCHANGED svars
      \/ ((UserStop \/ Terminated) /\ UNCHANGED <<modeVars, s2cVars>>)
  <2>1. TypeOK'
    BY <1>0, <1>4, TypeNext DEF DrainFIFOs2c, Consume, svars, Next
  <2>2. ModeOK'
    BY <1>0, <1>4 DEF DrainFIFOs2c, Consume, svars, ModeOK, modeVars
  <2>3. wpc' = wpc /\ UNCHANGED sent
    BY <1>4 DEF DrainFIFOs2c, Consume, UserStop, Terminated, svars, s2cVars,
       vars, workerVars
  <2>4. queued' \in 0 .. PoolSize
    <3>1. CASE DrainFIFOs2c
      <4>1. DrainEntries \in Int
        BY PoolAssumption DEF DrainEntries
      <4>2. PICK k \in 1 .. DrainEntries : Queue(DrainEntries, k)
        BY <3>1 DEF DrainFIFOs2c
      <4>3. PICK m : m = Min({DrainEntries, PoolSize - queued})
        OBVIOUS
      <4>4. m \in {DrainEntries, PoolSize - queued} /\ m <= PoolSize - queued
        BY <1>b, <4>1, <4>3 DEF Min
      <4>5. k \in 0 .. m /\ queued' = queued + k
        BY <4>2, <4>3 DEF Queue
      <4> QED
        BY <1>b, <4>1, <4>2, <4>4, <4>5
    <3>2. CASE Consume
      BY <1>b, <3>2 DEF Consume
    <3>3. CASE ~DrainFIFOs2c /\ ~Consume
      <4>1. UNCHANGED s2cVars
        BY <1>4, <3>3 DEF svars
      <4> QED
        BY <1>b, <4>1 DEF s2cVars
    <3> QED
      BY <3>1, <3>2, <3>3
  <2> QED
    BY <1>a, <2>1, <2>2, <2>3, <2>4, SendTypesMade
<1>5. ASSUME NEW i \in Thread, SWorker(i) PROVE SendTypes'
  BY <1>5, SendWorkerTypes
<1> QED
  BY <1>1, <1>2, <1>3, <1>4, <1>5 DEF SNext, SMain

-----------------------------------------------------------------------------
(* The offsets of a request, which a recursive function computes.          *)

Follow(at, o, n) == at = [k \in 0 .. n |-> IF k = 0 THEN o ELSE NextOffset(at[k - 1])]

LEMMA FollowExists ==
  ASSUME NEW o, NEW n \in Nat
  PROVE  \E at : Follow(at, o, n)
<1> DEFINE possible == {m \in Nat : \E at : Follow(at, o, m)}
<1>1. 0 \in possible
  <2>1. Follow([k \in 0 .. 0 |-> o], o, 0)
    BY DEF Follow
  <2> QED BY <2>1
<1>2. ASSUME NEW m \in Nat, m \in possible
      PROVE  m + 1 \in possible
  <2>1. PICK at : Follow(at, o, m)
    BY <1>2
  <2> DEFINE longer ==
        [k \in 0 .. m + 1 |-> IF k \in 0 .. m THEN at[k] ELSE NextOffset(at[m])]
  <2>2. ASSUME NEW k \in 0 .. m + 1
        PROVE  longer[k] = IF k = 0 THEN o ELSE NextOffset(longer[k - 1])
    <3>1. at = [j \in 0 .. m |-> IF j = 0 THEN o ELSE NextOffset(at[j - 1])]
      BY <2>1 DEF Follow
    <3>2. CASE k = 0
      BY <3>1, <3>2
    <3>3. CASE k \in 1 .. m
      <4>1. longer[k] = at[k] /\ longer[k - 1] = at[k - 1]
        BY <3>3
      <4>2. at[k] = NextOffset(at[k - 1])
        BY <3>1, <3>3
      <4> QED BY <3>3, <4>1, <4>2
    <3>4. CASE k = m + 1
      <4>1. longer[k] = NextOffset(at[m]) /\ longer[k - 1] = at[m] /\ k # 0
        BY <3>4
      <4> HIDE DEF longer
      <4> QED BY <4>1
    <3> QED BY <3>2, <3>3, <3>4
  <2>3. Follow(longer, o, m + 1)
    BY <2>2 DEF Follow
  <2> QED BY <2>3
<1> HIDE DEF possible
<1>3. Nat \subseteq possible
  BY <1>1, <1>2, SetInduction
<1> QED BY <1>3 DEF possible

(* They do not leave the buffer.                                           *)
LEMMA OffsetsInRange ==
  ASSUME NEW o \in 0 .. AllocSize, NEW n \in Nat
  PROVE  \A k \in 0 .. n : Offsets(o, n)[k] \in 0 .. AllocSize
<1> DEFINE at == Offsets(o, n)
<1>1. at = CHOOSE f : Follow(f, o, n)
  BY DEF Offsets, Follow
<1>2. Follow(at, o, n)
  BY <1>1, FollowExists
<1> HIDE DEF at
<1>3. at[0] = o /\ \A k \in 1 .. n : at[k] = NextOffset(at[k - 1])
  BY <1>2 DEF Follow
<1>4. \A p \in 0 .. AllocSize : NextOffset(p) \in 0 .. AllocSize
  BY PoolAssumption DEF NextOffset
<1> DEFINE inside == {k \in Nat : k <= n => at[k] \in 0 .. AllocSize}
<1>5. 0 \in inside
  BY <1>3
<1>6. ASSUME NEW m \in Nat, m \in inside
      PROVE  m + 1 \in inside
  <2> SUFFICES ASSUME m + 1 <= n PROVE at[m + 1] \in 0 .. AllocSize
    OBVIOUS
  <2>1. m + 1 \in 1 .. n /\ (m + 1) - 1 = m /\ at[m] \in 0 .. AllocSize
    BY <1>6
  <2>2. at[m + 1] = NextOffset(at[(m + 1) - 1])
    BY <1>3, <2>1
  <2> QED BY <1>4, <2>1, <2>2
<1> HIDE DEF inside
<1>7. Nat \subseteq inside
  BY <1>5, <1>6, SetInduction
<1> QED BY <1>7 DEF inside, at

OffsetOK == offset \in [Thread -> 0 .. AllocSize]

LEMMA OffsetNext == OffsetOK /\ [SNext]_svars => OffsetOK'
<1> SUFFICES ASSUME OffsetOK, [SNext]_svars PROVE OffsetOK'
  OBVIOUS
<1>1. ASSUME NEW i \in Thread, SIoctl(i) \/ SIoctlFail(i)
      PROVE  OffsetOK'
  <2>1. offset' = [offset EXCEPT ![i] = Offsets(offset[i], NumEntries)[NumEntries]]
    BY <1>1 DEF SIoctl, SIoctlFail
  <2>2. Offsets(offset[i], NumEntries)[NumEntries] \in 0 .. AllocSize
    BY PoolAssumption, OffsetsInRange DEF OffsetOK
  <2> QED BY <2>1, <2>2 DEF OffsetOK
<1>2. CASE UNCHANGED offset
  BY <1>2 DEF OffsetOK
<1>3. UNCHANGED offset \/ \E i \in Thread : SIoctl(i) \/ SIoctlFail(i)
  BY DEF SNext, SMain, SLoop, DrainFIFOs2c, SShutdownMode, Consume, SWorker, SLoad,
    SAccount, s2cVars, svars
<1> QED BY <1>1, <1>2, <1>3

(* For every size of the buffer, of an entry and of a request, any number  *)
(* of threads and any room in the driver, in both builds: each thread's    *)
(* place in the buffer, what it has to count and what the driver holds stay*)
(* in their ranges.                                                        *)
THEOREM SendTypeCorrect == SSpec => []STypeOK
<1>1. SInit => SendTypes /\ OffsetOK
  <2>1. SInit => OffsetOK
    BY PoolAssumption DEF SInit, OffsetOK
  <2> QED BY <2>1, SendTypesInit
<1>2. SendTypes /\ OffsetOK => STypeOK
  BY ModeParts DEF SendTypes, SendOK, OffsetOK, STypeOK
<1> QED
  BY <1>1, <1>2, SendTypesNext, OffsetNext, PTL DEF SSpec

-----------------------------------------------------------------------------
LEMMA SendMappedNext == MappedInv /\ [SNext]_svars => MappedInv'
<1> SUFFICES ASSUME MappedInv, [SNext]_svars PROVE MappedInv'
  OBVIOUS
<1>1. CASE ModeMain \/ ShutdownMode
  BY <1>1, MappedMain
<1>2. CASE SLoop
  BY <1>2 DEF MappedInv, SLoop, WakePass, StoreSeconds, modeVars
<1>3. CASE DrainFIFOs2c \/ Consume \/ UNCHANGED svars
  BY <1>3 DEF MappedInv, DrainFIFOs2c, Consume, svars, vars, modeVars, outcome
<1>4. CASE (UserStop \/ Terminated) /\ UNCHANGED <<modeVars, s2cVars>>
  BY <1>4 DEF MappedInv, UserStop, Terminated, vars, modeVars, outcome
<1>5. ASSUME NEW i \in Thread, SWorker(i) PROVE MappedInv'
  <2>1. UNCHANGED <<mainState, modeVars>>
    BY <1>5 DEF SWorker, SIoctl, SIoctlFail, SLoad, SAccount, FBegin,
       FCheckRunning, CheckRunning, FFinish, Finish, Go
  <2> QED
    BY <2>1 DEF MappedInv, mainState, modeVars, outcome
<1> QED
  BY <1>1, <1>2, <1>3, <1>4, <1>5 DEF SNext, SMain, SShutdownMode

(* In every run of the send test, a channel that is left in FIFO mode on   *)
(* the freed buffer shows in the exit status (ShutdownChannelMode).        *)
THEOREM SendMappedCorrect == SSpec => []MappedIsReported
<1>1. SInit => MappedInv
  BY MappedInit DEF SInit
<1> QED
  BY <1>1, SendMappedNext, MappedImplies, PTL DEF SSpec

-----------------------------------------------------------------------------
(* Every byte that is counted goes back to an entry the driver has taken,  *)
(* and a run without an error has reported at least a byte per pass.       *)
SentInv ==
  /\ \A i \in Thread : total[i] > 0 \/ tmpTotal[i] > 0 \/ sent[i] > 0
                          => transferred >= 1
  /\ passBytes > 0 \/ reported > 0 => transferred >= 1
  /\ iPass = "ok" => reported >= passes
  /\ status = "ok" /\ mpc = "done" => iPass = "ok"
  /\ mpc \in Setup => iPass = "ok"

LEMMA SentMain ==
  ASSUME TypeOK, SentInv, ModeMain \/ ShutdownMode \/ SLoop, UNCHANGED sent
  PROVE  SentInv'
<1> USE DEF TypeOK, MainTypeOK, SentInv, Setup, stats, resources, outcome, transfer,
            workerVars
<1>1. CASE FAllocBuffer \/ SetupMode \/ SetupTraffic \/ ShutdownMode
  <2>1. /\ UNCHANGED <<stats, workerVars, status>> /\ mpc' # "done"
        /\ iPass' = "ok" => iPass = "ok" \/ mpc = "start"
        /\ mpc' \in Setup => mpc \in Setup /\ iPass' = iPass
    BY <1>1 DEF FAllocBuffer, SetupMode, SetupTraffic, ShutdownMode, GiveUp, ModeError
  <2> QED
    BY <1>1, <2>1
<1>2. CASE FStartThreads \/ FWakeShutdown \/ FRelease
  BY <1>2 DEF FStartThreads, StartThreads, FWakeShutdown, WakeShutdown, FRelease, Release
<1>3. CASE StopTraffic \/ DrainOver
  BY <1>3 DEF StopTraffic, DrainOver, vars
<1>4. CASE RejectSize \/ OpenChannel \/ ErrorCheck \/ LoadSeconds \/ WakeStop \/ Shutdown
  BY <1>4 DEF RejectSize, OpenChannel, ErrorCheck, LoadSeconds, WakeStop, Shutdown
<1>5. CASE CollectRead
  BY <1>5 DEF CollectRead, Collected
<1>6. CASE CollectClear
  BY <1>6 DEF CollectClear
<1>7. CASE DisplayPass
  <2>1. /\ mpc' = "control"
        /\ reported' = reported + passBytes
        /\ iPass' = PassResult(passBytes, iPass)
        /\ passes' = IF passes < PassCap THEN passes + 1 ELSE passes
        /\ UNCHANGED <<passBytes, total, tmpTotal, transferred>>
    BY <1>7 DEF DisplayPass
  <2>2. passBytes \in Nat /\ passes \in Nat /\ reported \in Nat
    OBVIOUS
  <2>3. passes' <= passes + 1 /\ passes' \in Nat
    BY <2>1, <2>2, PassCapAssumption
  <2>4. iPass' = "ok" => iPass = "ok" /\ passBytes >= 1
    BY <2>1, <2>2 DEF PassResult
  <2>5. iPass' = "ok" => reported' >= passes'
    BY <2>1, <2>2, <2>3, <2>4
  <2>6. passBytes' > 0 \/ reported' > 0 => transferred' >= 1
    BY <2>1, <2>2
  <2> QED
    BY <2>1, <2>5, <2>6
<1>8. CASE Gather
  BY <1>8 DEF Gather, GatheredCode
<1>9. CASE Exit
  BY <1>9 DEF Exit, ExitStatus
<1>10. CASE SLoop
  <2>1. CASE WakePass
    BY <2>1 DEF WakePass
  <2>2. CASE StoreSeconds
    BY <2>2 DEF StoreSeconds
  <2> QED
    BY <1>10, <2>1, <2>2 DEF SLoop
<1> QED
  BY <1>1, <1>2, <1>3, <1>4, <1>5, <1>6, <1>7, <1>8, <1>9, <1>10 DEF ModeMain

LEMMA SentWorker ==
  ASSUME SendTypes, SentInv, NEW i \in Thread, SWorker(i)
  PROVE  SentInv'
<1>0. TypeOK /\ SendOK /\ EntryInv /\ NumEntries \in Nat \ {0} /\ Length \in Nat \ {0}
  BY PoolAssumption DEF SendTypes
<1> USE DEF Go, mainState, stats, resources, outcome, transfer, SentInv, Setup
<1>1. CASE SIoctl(i)
  <2>1. PICK k \in 0 .. NumEntries :
          sent' = [sent EXCEPT ![i] = k] /\ transferred' = transferred + k * Length
    BY <1>1 DEF SIoctl, Counted
  <2>2. k * Length \in Nat /\ (k > 0 => k * Length >= 1)
    BY <1>0
  <2>3. transferred \in Nat
    BY <1>0 DEF TypeOK, MainTypeOK
  <2>4. transferred' >= transferred /\ (k > 0 => transferred' >= 1)
    BY <2>1, <2>2, <2>3
  <2>5. UNCHANGED <<total, tmpTotal>>
    BY <1>1 DEF SIoctl
  <2>6. \A j \in Thread : sent'[j] > 0 => sent[j] > 0 \/ transferred' >= 1
    BY <1>0, <2>1, <2>4 DEF SendOK
  <2> QED
    BY <1>0, <1>1, <2>3, <2>4, <2>5, <2>6 DEF SIoctl, TypeOK, MainTypeOK
<1>2. CASE SIoctlFail(i)
  BY <1>2 DEF SIoctlFail
<1>3. CASE SLoad(i)
  BY <1>0, <1>3 DEF SLoad, s2cVars, TypeOK, MainTypeOK
<1>4. CASE SAccount(i)
  <2>1. transferred >= 1
    BY <1>0, <1>4 DEF SAccount, EntryInv, SendOK
  <2> QED
    BY <1>0, <1>4, <2>1 DEF SAccount
<1>5. CASE (FBegin(i) \/ FCheckRunning(i) \/ FFinish(i)) /\ UNCHANGED s2cVars
  BY <1>5 DEF FBegin, FCheckRunning, CheckRunning, FFinish, Finish, s2cVars
<1> QED
  BY <1>1, <1>2, <1>3, <1>4, <1>5 DEF SWorker

(* A send test that went through its loop and exits with 0 has reported    *)
(* bytes in every pass and the driver has taken some, whatever the passes  *)
(* lose between the load and the store of a count.                         *)
THEOREM SendSuccessCorrect == SSpec => []SendSuccessMeansSent
<1>1. SInit => SentInv
  BY DEF SInit, ModeInit, Init, SentInv
<1>2. SendTypes /\ SentInv /\ [SNext]_svars => SentInv'
  <2> SUFFICES ASSUME SendTypes, SentInv, [SNext]_svars PROVE SentInv'
    OBVIOUS
  <2>0. TypeOK
    BY DEF SendTypes
  <2>1. CASE ModeMain /\ UNCHANGED s2cVars
    BY <2>0, <2>1, SentMain DEF s2cVars
  <2>2. CASE SLoop \/ SShutdownMode
    BY <2>0, <2>2, SentMain DEF SLoop, SShutdownMode, s2cVars
  <2>3. CASE DrainFIFOs2c \/ Consume \/ UNCHANGED svars
    BY <2>3 DEF DrainFIFOs2c, Consume, svars, s2cVars, vars, SentInv, stats, outcome,
       workerVars, transfer
  <2>4. CASE (UserStop \/ Terminated) /\ UNCHANGED <<modeVars, s2cVars>>
    BY <2>4 DEF UserStop, Terminated, s2cVars, vars, SentInv, stats, outcome,
       workerVars, transfer
  <2>5. ASSUME NEW i \in Thread, SWorker(i) PROVE SentInv'
    BY <2>5, SentWorker
  <2> QED
    BY <2>1, <2>2, <2>3, <2>4, <2>5 DEF SNext, SMain
<1>3. SendTypes /\ SentInv => SendSuccessMeansSent
  BY DEF SendTypes, SentInv, SendSuccessMeansSent, TypeOK, MainTypeOK
<1> QED
  BY <1>1, <1>2, <1>3, SendTypesInit, SendTypesNext, PTL DEF SSpec

=============================================================================
