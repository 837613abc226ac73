------------------------- MODULE Accounting_proofs -------------------------
(***************************************************************************)
(* Theorems about Accounting: the byte counts of a DMA test, for every     *)
(* number of threads and size of the transfers.                            *)
(***************************************************************************)
EXTENDS Accounting, TestRun_proofs, NaturalLemmas

-----------------------------------------------------------------------------
(* What the recursive sum computes.                                        *)

(* u holds the sums of the first n values of f.                            *)
Sums(u, f, n) == u = [k \in 0 .. n |-> IF k = 0 THEN 0 ELSE u[k - 1] + f[k]]

LEMMA SumIsChosen ==
  ASSUME NEW f
  PROVE  Sum(f) = (CHOOSE u : Sums(u, f, NumThreads))[NumThreads]
BY DEF Sum, Sums

LEMMA SumsExist ==
  ASSUME NEW f, NEW n \in Nat
  PROVE  \E u : Sums(u, f, n)
<1> DEFINE possible == {k \in Nat : \E u : Sums(u, f, k)}
<1>1. 0 \in possible
  <2>1. Sums([k \in 0 .. 0 |-> 0], f, 0)
    BY DEF Sums
  <2> QED BY <2>1
<1>2. ASSUME NEW m \in Nat, m \in possible
      PROVE  m + 1 \in possible
  <2>1. PICK u : Sums(u, f, m)
    BY <1>2
  <2> DEFINE w == [k \in 0 .. m + 1 |-> IF k \in 0 .. m THEN u[k] ELSE u[m] + f[m + 1]]
  <2>2. ASSUME NEW k \in 0 .. m + 1
        PROVE  w[k] = IF k = 0 THEN 0 ELSE w[k - 1] + f[k]
    <3>1. u = [j \in 0 .. m |-> IF j = 0 THEN 0 ELSE u[j - 1] + f[j]]
      BY <2>1 DEF Sums
    <3>2. CASE k = 0
      BY <3>1, <3>2
    <3>3. CASE k \in 1 .. m
      <4>1. w[k] = u[k] /\ w[k - 1] = u[k - 1]
        BY <3>3
      <4>2. u[k] = u[k - 1] + f[k]
        BY <3>1, <3>3
      <4> QED BY <3>3, <4>1, <4>2
    <3>4. CASE k = m + 1
      <4>1. w[k] = u[m] + f[m + 1] /\ w[k - 1] = u[m]
        BY <3>4
      <4> QED BY <3>4, <4>1
    <3> QED BY <3>2, <3>3, <3>4
  <2>3. Sums(w, f, m + 1)
    BY <2>2 DEF Sums
  <2> QED BY <2>3
<1> HIDE DEF possible
<1>3. Nat \subseteq possible
  BY <1>1, <1>2, SetInduction
<1> QED BY <1>3 DEF possible

(* The values of the sums, and that they are natural numbers.              *)
LEMMA SumsValues ==
  ASSUME NEW f, NEW n \in Nat, NEW u, Sums(u, f, n)
  PROVE  u[0] = 0 /\ \A k \in 1 .. n : u[k] = u[k - 1] + f[k]
BY DEF Sums

LEMMA SumsType ==
  ASSUME NEW n \in Nat, NEW f, \A k \in 1 .. n : f[k] \in Nat, NEW u, Sums(u, f, n)
  PROVE  \A k \in 0 .. n : u[k] \in Nat
<1> DEFINE natural == {k \in Nat : k <= n => u[k] \in Nat}
<1>1. 0 \in natural
  <2>1. u[0] = 0
    BY SumsValues
  <2> QED BY <2>1
<1>2. ASSUME NEW m \in Nat, m \in natural
      PROVE  m + 1 \in natural
  <2> SUFFICES ASSUME m + 1 <= n PROVE u[m + 1] \in Nat
    OBVIOUS
  <2>1. m + 1 \in 1 .. n
    OBVIOUS
  <2>2. u[m + 1] = u[(m + 1) - 1] + f[m + 1]
    BY <2>1, SumsValues
  <2> QED BY <1>2, <2>1, <2>2
<1> HIDE DEF natural
<1>3. Nat \subseteq natural
  BY <1>1, <1>2, SetInduction
<1> QED BY <1>3 DEF natural

(* Two families that differ in one value have sums that differ by as much. *)
LEMMA SumsDiffer ==
  ASSUME NEW n \in Nat, NEW f, NEW g, NEW i \in 1 .. n,
         \A k \in 1 .. n : f[k] \in Nat /\ g[k] \in Nat,
         \A k \in 1 .. n : k # i => g[k] = f[k],
         NEW u, Sums(u, f, n), NEW w, Sums(w, g, n)
  PROVE  w[n] = (u[n] - f[i]) + g[i]
<1> DEFINE right == {k \in Nat : k <= n =>
                       w[k] = IF k < i THEN u[k] ELSE (u[k] - f[i]) + g[i]}
<1>1. 0 \in right
  BY SumsValues
<1>2. ASSUME NEW m \in Nat, m \in right
      PROVE  m + 1 \in right
  <2> SUFFICES ASSUME m + 1 <= n
               PROVE  w[m + 1] = IF m + 1 < i THEN u[m + 1] ELSE (u[m + 1] - f[i]) + g[i]
    OBVIOUS
  <2>1. u[m + 1] = u[m] + f[m + 1] /\ w[m + 1] = w[m] + g[m + 1]
    BY SumsValues
  <2>2. /\ u[m] \in Nat /\ w[m] \in Nat
        /\ f[m + 1] \in Nat /\ g[m + 1] \in Nat /\ f[i] \in Nat /\ g[i] \in Nat
    BY SumsType
  <2>3. w[m] = IF m < i THEN u[m] ELSE (u[m] - f[i]) + g[i]
    BY <1>2
  <2>4. m + 1 # i => g[m + 1] = f[m + 1]
    OBVIOUS
  <2> QED BY <2>1, <2>2, <2>3, <2>4
<1> HIDE DEF right
<1>3. Nat \subseteq right
  BY <1>1, <1>2, SetInduction
<1> QED BY <1>3 DEF right

LEMMA SumIsSums ==
  ASSUME NEW f
  PROVE  \E u : Sums(u, f, NumThreads) /\ Sum(f) = u[NumThreads]
BY SumsExist, SumIsChosen, NumThreadsAssumption

LEMMA SumType ==
  ASSUME NEW f \in [Thread -> Nat]
  PROVE  Sum(f) \in Nat
BY SumIsSums, SumsType, NumThreadsAssumption DEF Thread

LEMMA SumDiffers ==
  ASSUME NEW f \in [Thread -> Nat], NEW g \in [Thread -> Nat], NEW i \in Thread,
         \A k \in Thread : k # i => g[k] = f[k]
  PROVE  Sum(g) = (Sum(f) - f[i]) + g[i]
<1>1. PICK u : Sums(u, f, NumThreads) /\ Sum(f) = u[NumThreads]
  BY SumIsSums
<1>2. PICK w : Sums(w, g, NumThreads) /\ Sum(g) = w[NumThreads]
  BY SumIsSums
<1>3. /\ \A k \in 1 .. NumThreads : f[k] \in Nat /\ g[k] \in Nat
      /\ \A k \in 1 .. NumThreads : k # i => g[k] = f[k]
      /\ i \in 1 .. NumThreads /\ NumThreads \in Nat
  BY NumThreadsAssumption DEF Thread
<1>4. w[NumThreads] = (u[NumThreads] - f[i]) + g[i]
  BY <1>1, <1>2, <1>3, SumsDiffer
<1> QED BY <1>1, <1>2, <1>4

LEMMA SumOfZeros == Sum([i \in Thread |-> 0]) = 0
<1> DEFINE f == [i \in Thread |-> 0]
<1>1. PICK u : Sums(u, f, NumThreads) /\ Sum(f) = u[NumThreads]
  BY SumIsSums
<1> DEFINE zero == {k \in Nat : k <= NumThreads => u[k] = 0}
<1> HIDE DEF f
<1>2. u[0] = 0 /\ \A k \in 1 .. NumThreads : u[k] = u[k - 1] + f[k]
  BY <1>1, SumsValues, NumThreadsAssumption
<1>3. \A k \in 1 .. NumThreads : f[k] = 0
  BY DEF f, Thread
<1>4. 0 \in zero
  BY <1>2
<1>5. ASSUME NEW m \in Nat, m \in zero
      PROVE  m + 1 \in zero
  <2>1. m + 1 <= NumThreads => m + 1 \in 1 .. NumThreads /\ u[m] = 0
    BY <1>5, NumThreadsAssumption
  <2>2. m + 1 <= NumThreads => u[m + 1] = u[(m + 1) - 1] + f[m + 1] /\ f[m + 1] = 0
    BY <1>2, <1>3, <2>1
  <2> QED BY <2>1, <2>2
<1> HIDE DEF zero
<1>6. Nat \subseteq zero
  BY <1>4, <1>5, SetInduction
<1> QED BY <1>1, <1>6, NumThreadsAssumption DEF zero, f

-----------------------------------------------------------------------------
(* What has been counted.                                                  *)

(* A worker that has not begun has counted nothing; one between its load   *)
(* and its store has loaded what the counter still holds, unless it was    *)
(* collected meanwhile.                                                    *)
CountersInv ==
  /\ \A i \in Thread : wpc[i] \in {"none", "begin"} => total[i] = 0
  /\ ~torn => \A i \in Thread : wpc[i] = "account" => tmpTotal[i] = total[i]

AInv == TypeOK /\ JoinInv /\ CountersInv /\ StatisticsExact

(* What the sums are about.                                                *)
LEMMA Counted ==
  ASSUME TypeOK
  PROVE  /\ total \in [Thread -> Nat] /\ InFlight \in [Thread -> Nat]
         /\ \A i \in Thread : total[i] \in Nat /\ InFlight[i] \in Nat
         /\ moved \in [Thread -> Nat] /\ tmpTotal \in [Thread -> Nat]
         /\ passBytes \in Nat /\ reported \in Nat /\ transferred \in Nat
         /\ ci \in Thread /\ InHand \in Int
         /\ Sum(total) \in Nat /\ Sum(InFlight) \in Nat
<1>1. /\ total \in [Thread -> Nat] /\ moved \in [Thread -> 0 .. MaxBytes]
      /\ tmpTotal \in [Thread -> Nat] /\ passBytes \in Nat /\ reported \in Nat
      /\ transferred \in Nat /\ ci \in Thread
  BY DEF TypeOK, MainTypeOK
<1>2. moved \in [Thread -> Nat]
  BY <1>1, MaxBytesAssumption
<1>3. InFlight \in [Thread -> Nat]
  BY <1>2 DEF InFlight
<1>4. InHand \in Int
  BY <1>1 DEF InHand
<1> QED
  BY <1>1, <1>2, <1>3, <1>4, SumType

LEMMA AccountingInit == AInit => AInv
<1> SUFFICES ASSUME AInit PROVE AInv
  OBVIOUS
<1>1. TypeOK
  BY TypeInit DEF AInit
<1>2. JoinInv
  BY DEF AInit, Init, JoinInv, Setup, Looping, OutOfLoop
<1>3. CountersInv
  BY DEF AInit, Init, CountersInv
<1>4. total = [i \in Thread |-> 0] /\ InFlight = [i \in Thread |-> 0]
  BY DEF AInit, Init, InFlight
<1>5. InHand = 0 /\ reported = 0 /\ transferred = 0
  BY DEF AInit, Init, InHand
<1>6. StatisticsExact
  BY <1>4, <1>5, SumOfZeros DEF StatisticsExact
<1> QED BY <1>1, <1>2, <1>3, <1>6 DEF AInv

(* The steps of the main thread that have nothing in hand.                 *)
Aside ==
  \/ RejectSize \/ OpenChannel \/ AllocBuffers \/ StartThreads
  \/ ErrorCheck \/ LoadSeconds \/ StoreSeconds \/ WakeStop \/ Gather
  \/ Shutdown \/ WakeShutdown \/ Release \/ Exit

LEMMA AsideKeeps ==
  ASSUME TypeOK, JoinInv, Aside
  PROVE  /\ UNCHANGED <<total, moved, tmpTotal, reported, transferred>>
         /\ InHand = 0 /\ InHand' = 0 /\ InFlight' = InFlight
         /\ \A i \in Thread : wpc'[i] = wpc[i] \/ (wpc[i] = "none" /\ wpc'[i] = "begin")
         /\ mpc # "clear"
<1>1. UNCHANGED <<total, moved, tmpTotal, reported, transferred>>
  BY DEF Aside, RejectSize, OpenChannel, AllocBuffers, StartThreads, ErrorCheck,
    LoadSeconds, StoreSeconds, WakeStop, Gather, Shutdown, WakeShutdown, Release,
    Exit, workerVars, transfer, stats
<1>2. /\ mpc \notin {"collect", "clear", "display"}
      /\ mpc' \notin {"collect", "clear", "display"}
  BY DEF Aside, RejectSize, OpenChannel, AllocBuffers, StartThreads, ErrorCheck,
    LoadSeconds, StoreSeconds, WakeStop, Gather, Shutdown, WakeShutdown, Release,
    Exit
<1>3. wpc' = wpc \/ StartThreads
  BY DEF Aside, RejectSize, OpenChannel, AllocBuffers, ErrorCheck,
    LoadSeconds, StoreSeconds, WakeStop, Gather, Shutdown, WakeShutdown, Release,
    Exit, workerVars
<1>4. StartThreads => \A i \in Thread : wpc[i] = "none" /\ wpc'[i] \in {"none", "begin"}
  BY DEF StartThreads, JoinInv, Setup
<1>5. \A i \in Thread : wpc'[i] = wpc[i] \/ (wpc[i] = "none" /\ wpc'[i] = "begin")
  BY <1>3, <1>4
<1>6. InFlight' = InFlight
  <2>1. \A i \in Thread :
          (IF wpc'[i] \in {"load", "account"} THEN moved'[i] ELSE 0)
            = (IF wpc[i] \in {"load", "account"} THEN moved[i] ELSE 0)
    BY <1>1, <1>5
  <2> QED BY <2>1 DEF InFlight
<1>7. InHand = 0 /\ InHand' = 0
  BY <1>2 DEF InHand
<1> QED
  BY <1>1, <1>2, <1>5, <1>6, <1>7

LEMMA MainCounts ==
  ASSUME AInv, Main, torn' = (torn \/ Overlaps)
  PROVE  (CountersInv /\ StatisticsExact)'
<1>0. TypeOK /\ JoinInv /\ CountersInv /\ StatisticsExact
  BY DEF AInv
<1>1. /\ total \in [Thread -> Nat] /\ passBytes \in Nat /\ reported \in Nat
      /\ ci \in Thread /\ InHand \in Int /\ transferred \in Nat
      /\ Sum(total) \in Nat /\ Sum(InFlight) \in Nat
  BY <1>0, Counted
<1>2. ~ torn' => ~ torn /\ ~ Overlaps
  OBVIOUS
<1>3. ~ torn => transferred = ((reported + InHand) + Sum(total)) + Sum(InFlight)
  BY <1>0 DEF StatisticsExact
<1>4. CASE Aside
  <2>1. /\ UNCHANGED <<total, moved, tmpTotal, reported, transferred>>
        /\ InHand = 0 /\ InHand' = 0 /\ InFlight' = InFlight
        /\ \A i \in Thread : wpc'[i] = wpc[i] \/ (wpc[i] = "none" /\ wpc'[i] = "begin")
    BY <1>0, <1>4, AsideKeeps
  <2>2. CountersInv'
    BY <1>0, <1>2, <2>1 DEF CountersInv
  <2>3. StatisticsExact'
    BY <1>2, <1>3, <2>1 DEF StatisticsExact
  <2> QED BY <2>2, <2>3
<1>5. CASE WakePass \/ CollectRead \/ DisplayPass
  <2>1. UNCHANGED <<wpc, total, moved, tmpTotal, transferred>>
    BY <1>5 DEF WakePass, CollectRead, DisplayPass, workerVars, transfer
  <2>2. InFlight' = InFlight
    BY <2>1 DEF InFlight
  <2>3. reported' + InHand' = reported + InHand
    <3>1. CASE WakePass
      BY <1>1, <3>1 DEF WakePass, InHand
    <3>2. CASE CollectRead
      <4>1. /\ mpc = "collect" /\ mpc' = "clear" /\ total[ci] \in Nat
            /\ passBytes' = passBytes + total[ci]
            /\ UNCHANGED <<total, ci, reported>>
        BY <1>1, <3>2 DEF CollectRead, Collected, workerVars
      <4> QED BY <1>1, <4>1 DEF InHand
    <3>3. CASE DisplayPass
      BY <1>1, <3>3 DEF DisplayPass, InHand
    <3> QED BY <1>5, <3>1, <3>2, <3>3
  <2>4. CountersInv'
    BY <1>0, <1>2, <2>1 DEF CountersInv
  <2>5. StatisticsExact'
    BY <1>2, <1>3, <2>1, <2>2, <2>3 DEF StatisticsExact
  <2> QED BY <2>4, <2>5
<1>6. CASE CollectClear
  <2>1. /\ total' = [total EXCEPT ![ci] = 0] /\ mpc = "clear" /\ mpc' # "clear"
        /\ UNCHANGED <<wpc, moved, tmpTotal, reported, transferred, passBytes>>
    BY <1>6 DEF CollectClear, transfer
  <2>2. InFlight' = InFlight
    BY <2>1 DEF InFlight
  <2>3. InHand' = passBytes /\ InHand = passBytes - total[ci]
    BY <1>6, <2>1 DEF CollectClear, InHand
  <2>4. total' \in [Thread -> Nat] /\ total'[ci] = 0 /\ total[ci] \in Nat
        /\ \A k \in Thread : k # ci => total'[k] = total[k]
    BY <1>1, <2>1
  <2>5. Sum(total') = (Sum(total) - total[ci]) + total'[ci]
    BY <1>1, <2>4, SumDiffers
  <2>6. ~ torn' => wpc[ci] # "account"
    BY <1>2, <2>1 DEF Overlaps
  <2>7. CountersInv'
    BY <1>0, <1>1, <1>2, <2>1, <2>4, <2>6 DEF CountersInv
  <2>8. StatisticsExact'
    <3>1. ~ torn' => transferred = ((reported + passBytes) + Sum(total')) + Sum(InFlight)
      BY <1>1, <1>2, <1>3, <2>3, <2>4, <2>5
    <3> QED BY <2>1, <2>2, <2>3, <3>1 DEF StatisticsExact
  <2> QED BY <2>7, <2>8
<1> QED
  BY <1>4, <1>5, <1>6 DEF Main, Aside

LEMMA WorkerCounts ==
  ASSUME AInv, NEW i \in Thread, Worker(i), torn' = (torn \/ Overlaps)
  PROVE  (CountersInv /\ StatisticsExact)'
<1>0. TypeOK /\ CountersInv /\ StatisticsExact
  BY DEF AInv
<1>1. /\ total \in [Thread -> Nat] /\ InFlight \in [Thread -> Nat]
      /\ moved \in [Thread -> Nat] /\ tmpTotal \in [Thread -> Nat]
      /\ wpc \in [Thread -> Busy \cup {"none", "done"}]
      /\ passBytes \in Nat /\ reported \in Nat /\ ci \in Thread
      /\ InHand \in Int /\ transferred \in Nat
      /\ Sum(total) \in Nat /\ Sum(InFlight) \in Nat
  BY <1>0, Counted DEF TypeOK
<1>2. ~ torn' => ~ torn /\ ~ Overlaps
  OBVIOUS
<1>3. ~ torn => transferred = ((reported + InHand) + Sum(total)) + Sum(InFlight)
  BY <1>0 DEF StatisticsExact
<1>4. UNCHANGED <<mpc, passBytes, reported, ci>>
  BY DEF Worker, Begin, CheckRunning, IoOk, IoFail, LoadTotal, Account, Finish, Go,
    mainState, stats
<1>5. InFlight' = [k \in Thread |-> IF wpc'[k] \in {"load", "account"} THEN moved'[k] ELSE 0]
  BY DEF InFlight
<1>6. CASE Begin(i) \/ CheckRunning(i) \/ IoFail(i) \/ LoadTotal(i) \/ Finish(i)
  <2>1. total' = total /\ transferred' = transferred
    <3>1. CASE Begin(i)
      <4>1. total' = [total EXCEPT ![i] = 0] /\ total[i] = 0
        BY <1>0, <3>1 DEF Begin, Go, CountersInv
      <4> QED BY <1>1, <3>1, <4>1 DEF Begin, transfer
    <3> QED
      BY <1>6, <3>1 DEF CheckRunning, IoFail, LoadTotal, Finish, transfer
  <2>2. \A k \in Thread :
          /\ k # i => wpc'[k] = wpc[k] /\ moved'[k] = moved[k] /\ tmpTotal'[k] = tmpTotal[k]
          /\ wpc'[k] = "account" /\ k = i => tmpTotal'[k] = total[k]
          /\ wpc'[k] \in {"none", "begin"} => k # i
    BY <1>1, <1>6 DEF Begin, CheckRunning, IoFail, LoadTotal, Finish, Go, transfer
  <2>3. (IF wpc'[i] \in {"load", "account"} THEN moved'[i] ELSE 0)
          = (IF wpc[i] \in {"load", "account"} THEN moved[i] ELSE 0)
    BY <1>1, <1>6 DEF Begin, CheckRunning, IoFail, LoadTotal, Finish, Go, transfer
  <2>4. InFlight' = InFlight
    <3>1. \A k \in Thread :
            (IF wpc'[k] \in {"load", "account"} THEN moved'[k] ELSE 0)
              = (IF wpc[k] \in {"load", "account"} THEN moved[k] ELSE 0)
      BY <2>2, <2>3
    <3> QED BY <3>1 DEF InFlight
  <2>5. CountersInv'
    BY <1>0, <1>2, <2>1, <2>2 DEF CountersInv
  <2>6. InHand' = InHand
    BY <1>4, <2>1 DEF InHand
  <2>7. StatisticsExact'
    BY <1>2, <1>3, <1>4, <2>1, <2>4, <2>6 DEF StatisticsExact
  <2> QED BY <2>5, <2>7
<1>7. CASE IoOk(i)
  <2>1. PICK n \in 0 .. MaxBytes :
          moved' = [moved EXCEPT ![i] = n] /\ transferred' = transferred + n
    BY <1>7 DEF IoOk
  <2>2. /\ n \in Nat /\ wpc[i] = "io" /\ wpc' = [wpc EXCEPT ![i] = "load"]
        /\ UNCHANGED <<total, tmpTotal>>
    BY <1>7, MaxBytesAssumption DEF IoOk, Go
  <2>3. /\ InFlight' \in [Thread -> Nat] /\ InFlight'[i] = n /\ InFlight[i] = 0
        /\ \A k \in Thread : k # i => InFlight'[k] = InFlight[k]
    BY <1>1, <1>5, <2>1, <2>2 DEF InFlight
  <2>4. Sum(InFlight') = (Sum(InFlight) - InFlight[i]) + InFlight'[i]
    BY <1>1, <2>3, SumDiffers
  <2>5. CountersInv'
    BY <1>0, <1>1, <1>2, <2>2 DEF CountersInv
  <2>6. InHand' = InHand
    BY <1>4, <2>2 DEF InHand
  <2>7. ~ torn' => transferred + n = ((reported + InHand) + Sum(total)) + Sum(InFlight')
    BY <1>1, <1>2, <1>3, <2>2, <2>3, <2>4
  <2>8. StatisticsExact'
    BY <1>4, <2>1, <2>2, <2>6, <2>7 DEF StatisticsExact
  <2> QED BY <2>5, <2>8
<1>8. CASE Account(i)
  <2>1. /\ total' = [total EXCEPT ![i] = tmpTotal[i] + moved[i]]
        /\ wpc[i] = "account" /\ wpc'[i] \in {"finish", "check"}
        /\ \A k \in Thread : k # i => wpc'[k] = wpc[k]
        /\ UNCHANGED <<tmpTotal, moved, transferred>>
    BY <1>1, <1>8 DEF Account, Go
  <2>2. ~ torn' => tmpTotal[i] = total[i] /\ ~ (mpc = "clear" /\ ci = i)
    BY <1>0, <1>2, <2>1 DEF CountersInv, Overlaps
  <2>3. /\ total' \in [Thread -> Nat] /\ total'[i] = tmpTotal[i] + moved[i]
        /\ \A k \in Thread : k # i => total'[k] = total[k]
    BY <1>1, <2>1
  <2>4. /\ InFlight' \in [Thread -> Nat] /\ InFlight'[i] = 0 /\ InFlight[i] = moved[i]
        /\ \A k \in Thread : k # i => InFlight'[k] = InFlight[k]
    BY <1>1, <1>5, <2>1 DEF InFlight
  <2>5. Sum(total') = (Sum(total) - total[i]) + total'[i]
    BY <1>1, <2>3, SumDiffers
  <2>6. Sum(InFlight') = (Sum(InFlight) - InFlight[i]) + InFlight'[i]
    BY <1>1, <2>4, SumDiffers
  <2>7. CountersInv'
    BY <1>0, <1>2, <2>1, <2>3 DEF CountersInv
  <2>8. ~ torn' => InHand' = InHand
    BY <1>1, <1>4, <2>2, <2>3 DEF InHand
  <2>9. total[i] \in Nat /\ moved[i] \in Nat /\ tmpTotal[i] \in Nat
    BY <1>1
  <2>10. ~ torn' =>
           transferred = ((reported + InHand) + Sum(total')) + Sum(InFlight')
    BY <1>1, <1>2, <1>3, <2>2, <2>3, <2>4, <2>5, <2>6, <2>9
  <2>11. StatisticsExact'
    BY <1>4, <2>1, <2>8, <2>10 DEF StatisticsExact
  <2> QED BY <2>7, <2>11
<1> QED
  BY <1>6, <1>7, <1>8 DEF Worker

LEMMA AccountingStep ==
  ASSUME AInv, [ANext]_avars
  PROVE  AInv'
<1>1. CASE ANext
  <2>1. (TypeOK /\ JoinInv)'
    BY <1>1, TypeNext, JoinNext DEF ANext, AInv
  <2>2. CASE Main
    BY <1>1, <2>1, <2>2, MainCounts DEF ANext, AInv
  <2>3. CASE \E i \in Thread : Worker(i)
    BY <1>1, <2>1, <2>3, WorkerCounts DEF ANext, AInv
  <2>4. CASE UserStop \/ Terminated
    <3>1. UNCHANGED <<mpc, passBytes, reported, ci, wpc, total, tmpTotal, moved, transferred>>
      BY <2>4 DEF UserStop, Terminated, vars, stats, workerVars, transfer
    <3>2. ~ torn' => ~ torn
      BY <1>1 DEF ANext
    <3> QED
      BY <2>1, <3>1, <3>2 DEF AInv, CountersInv, StatisticsExact, InHand, InFlight
  <2> QED
    BY <1>1, <2>2, <2>3, <2>4 DEF ANext, Next
<1>2. CASE UNCHANGED avars
  <2>1. UNCHANGED <<vars, torn>>
    BY <1>2 DEF avars
  <2>2. (TypeOK /\ JoinInv)'
    BY <2>1, TypeNext, JoinNext DEF AInv
  <2>3. UNCHANGED <<mpc, passBytes, reported, ci, wpc, total, tmpTotal, moved, transferred>>
    BY <2>1 DEF vars, stats, workerVars, transfer
  <2> QED
    BY <2>1, <2>2, <2>3 DEF AInv, CountersInv, StatisticsExact, InHand, InFlight
<1> QED BY <1>1, <1>2

LEMMA AccountingInvariant == ASpec => []AInv
BY AccountingInit, AccountingStep, PTL DEF ASpec

(* For every number of threads and size of the transfers: as long as no    *)
(* collection of a counter overlaps an addition to it, the totals that are *)
(* displayed, what is in hand and what the workers hold add up to what was *)
(* transferred.                                                            *)
THEOREM StatisticsCorrect == ASpec => []StatisticsExact
BY AccountingInvariant, PTL DEF AInv

=============================================================================
