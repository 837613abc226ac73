--------------------------- MODULE Buffers_proofs ---------------------------
(***************************************************************************)
(* Theorems about Buffers, for every width, rounding unit, size, card      *)
(* address and seed: transfers fit, FIFO tests have their room, what is    *)
(* sent is the pattern and what is accepted is too.                        *)
(***************************************************************************)
EXTENDS Buffers, NaturalLemmas

SizeRange == 0 .. SizeMod - 1

(* The unit divides the modulus, so it is not larger.                      *)
LEMMA UnitFits ==
  /\ AllocUnit \in Nat \ {0} /\ SizeMod \in Nat \ {0}
  /\ AllocUnit <= SizeMod
<1>1. SizeMod < AllocUnit => SizeMod % AllocUnit = SizeMod
  BY WidthAssumption, ModSmall
<1> QED BY <1>1, WidthAssumption

(* The rounded size is that of a buffer which holds the size, unless the   *)
(* sum wrapped: then, as for size 0, it is 0.                              *)
LEMMA RoundedUp ==
  ASSUME NEW n \in SizeRange
  PROVE  /\ Rounded(n) \in SizeRange
         /\ Rounded(n) # 0 => n # 0 /\ n <= Rounded(n)
<1> DEFINE wide == n + AllocUnit - 1
<1> DEFINE sum == wide % SizeMod
<1> DEFINE rest == sum % AllocUnit
<1>0. wide \in 0 .. 2 * SizeMod - 1
  BY UnitFits DEF SizeRange
<1>1. sum \in SizeRange
  BY <1>0, UnitFits, ModRange DEF SizeRange
<1>2. rest \in 0 .. AllocUnit - 1
  BY <1>1, UnitFits, ModRange DEF SizeRange
<1>4. Rounded(n) = sum - rest
  BY DEF Rounded
<1>5. sum < AllocUnit => rest = sum
  BY <1>1, UnitFits, ModSmall DEF SizeRange
<1>6. wide < SizeMod => sum = wide
  <2> HIDE DEF wide
  <2> QED BY <1>0, UnitFits, ModSmall
<1>7. wide >= SizeMod => sum = wide - SizeMod
  <2> HIDE DEF wide
  <2> QED BY <1>0, UnitFits, ModOnce
<1> HIDE DEF sum, rest
<1>8. rest <= sum
  BY <1>1, <1>2, <1>5, UnitFits DEF SizeRange
<1>9. CASE wide < SizeMod
  BY <1>9, <1>1, <1>2, <1>4, <1>5, <1>6, <1>8, UnitFits DEF SizeRange
<1>10. CASE wide >= SizeMod
  BY <1>10, <1>1, <1>4, <1>5, <1>7, UnitFits DEF SizeRange
<1> QED BY <1>0, <1>9, <1>10, UnitFits

-----------------------------------------------------------------------------
(* What is known of the sizes at each phase.                               *)

Phases == {"size", "recv", "alloc", "ready", "first", "prepared", "packet", "judged",
           "failed"}

Allocated == phase \in {"ready", "first", "prepared", "packet", "judged"}

SizesInv ==
  /\ bufferSize \in SizeRange /\ maxTransfer \in SizeRange
  /\ recvSize \in SizeRange /\ allocSize \in SizeRange

CommandInv ==
  /\ cfg.cardMax \in Nat
  /\ cfg.command \in {"dma", "loopback", "fifo"}
  /\ cfg.command = "fifo" => phase \in Phases \ {"recv", "first", "prepared"}
  /\ phase = "recv" => cfg.command = "loopback"

(* Between the choice of the sizes and the end of the allocation.          *)
WantedInv ==
  /\ phase = "recv" => maxTransfer <= bufferSize
  /\ phase = "alloc" /\ cfg.command # "fifo" => bufferSize = maxTransfer

(* A receive buffer that was allocated holds a transfer.                   *)
ReceiveInv ==
  cfg.command = "loopback" /\ (phase = "alloc" \/ Allocated) => maxTransfer <= recvSize

(* So does the buffer, which is not empty.                                 *)
BufferInv ==
  Allocated /\ cfg.command # "fifo" => maxTransfer \in 1 .. allocSize

(* An unprepared transfer has the whole size.                              *)
WholeInv ==
  phase = "ready" /\ cfg.command # "fifo" => transferSize = maxTransfer

(* Room for the packets of a FIFO test.                                    *)
RoomInv ==
  cfg.command = "fifo" /\ maxTransfer * PerBuffer < SizeMod =>
    /\ phase = "alloc" => maxTransfer * PerBuffer <= bufferSize
    /\ Allocated => maxTransfer * PerBuffer <= allocSize

SizeInv ==
  /\ SizesInv /\ CommandInv /\ WantedInv /\ ReceiveInv /\ BufferInv /\ WholeInv
  /\ RoomInv /\ TransferFits

LEMMA InitSizes == Init => SizeInv
<1> SUFFICES ASSUME Init PROVE SizeInv
  OBVIOUS
<1>1. SizesInv
  BY UnitFits DEF Init, SizesInv, SizeRange
<1>2. CommandInv
  BY DefaultsAssumption DEF Init, CommandInv, Phases
<1>3. WantedInv /\ ReceiveInv /\ BufferInv /\ WholeInv /\ RoomInv /\ TransferFits
  BY DEF Init, WantedInv, ReceiveInv, BufferInv, WholeInv, RoomInv, TransferFits,
         Transferring, Allocated
<1> QED BY <1>1, <1>2, <1>3 DEF SizeInv

(* The room for the packets is at most the size of the buffer.             *)
LEMMA FifoRoom ==
  ASSUME NEW max \in SizeRange, NEW buffer \in SizeRange,
         NEW room, room = (max * PerBuffer) % SizeMod
  PROVE  /\ room \in SizeRange
         /\ max * PerBuffer < SizeMod => room = max * PerBuffer
<1>1. max * PerBuffer \in Nat
  BY DefaultsAssumption DEF SizeRange
<1> DEFINE product == max * PerBuffer
<1> HIDE DEF product
<1>2. product \in Nat /\ room = product % SizeMod
  BY <1>1 DEF product
<1>3. product % SizeMod \in 0 .. SizeMod - 1
  <2>1. product \in Int /\ SizeMod \in Nat \ {0}
    BY <1>2, UnitFits
  <2> QED BY <2>1, ModRange
<1>4. product < SizeMod => room = product
  BY <1>2, UnitFits, ModSmall
<1> QED BY <1>2, <1>3, <1>4 DEF product, SizeRange

LEMMA SetSizesStep == ASSUME SizeInv, SetSizes PROVE SizeInv'
<1> USE DEF SizeInv
<1>0. /\ phase = "size" /\ cfg' = cfg /\ recvSize' = recvSize /\ allocSize' = allocSize
      /\ phase' \in {"recv", "alloc"}
  BY DEF SetSizes, DmaSizes, LoopSizes, FifoSizes
<1>1. TransferFits' /\ BufferInv' /\ WholeInv'
  BY <1>0 DEF TransferFits, Transferring, BufferInv, WholeInv, Allocated
<1>2. CASE DmaSizes
  <2>1. PICK size \in SizeChoices \cup {DmaSize} : Sized(size, size)
    BY <1>2 DEF DmaSizes
  <2>2. size \in SizeRange
    BY WidthAssumption, DefaultsAssumption DEF SizeRange
  <2>3. SizesInv' /\ WantedInv'
    BY <1>0, <1>2, <2>1, <2>2 DEF DmaSizes, Sized, SizesInv, WantedInv
  <2>4. CommandInv' /\ ReceiveInv' /\ RoomInv'
    BY <1>0, <1>2 DEF DmaSizes, CommandInv, ReceiveInv, RoomInv, Allocated
  <2> QED BY <1>1, <2>3, <2>4
<1>3. CASE LoopSizes
  <2>1. bufferSize' \in SizeRange /\ maxTransfer' \in SizeRange /\ maxTransfer' <= bufferSize'
    BY <1>3, WidthAssumption, DefaultsAssumption DEF LoopSizes, Sized, SizeRange
  <2>2. SizesInv' /\ WantedInv'
    BY <1>0, <1>3, <2>1 DEF LoopSizes, SizesInv, WantedInv
  <2>3. CommandInv' /\ ReceiveInv' /\ RoomInv'
    BY <1>0, <1>3 DEF LoopSizes, CommandInv, ReceiveInv, RoomInv, Allocated, Phases
  <2> QED BY <1>1, <2>2, <2>3
<1>4. CASE FifoSizes
  <2> DEFINE roomOf(m) == (m * PerBuffer) % SizeMod
  <2>1. PICK max \in SizeChoices \cup {FifoSize}, buffer \in SizeChoices \cup {DmaSize} :
          Sized(IF roomOf(max) > buffer THEN roomOf(max) ELSE buffer, max)
    BY <1>4 DEF FifoSizes
  <2>2. max \in SizeRange /\ buffer \in SizeRange
    BY WidthAssumption, DefaultsAssumption DEF SizeRange
  <2>3. PICK room : room = roomOf(max)
    OBVIOUS
  <2>4. /\ room \in SizeRange
        /\ max * PerBuffer < SizeMod => room = max * PerBuffer
    BY <2>2, <2>3, FifoRoom
  <2>5. maxTransfer' = max /\ bufferSize' = IF room > buffer THEN room ELSE buffer
    BY <2>1, <2>3 DEF Sized
  <2>6. SizesInv'
    BY <1>0, <2>2, <2>4, <2>5 DEF SizesInv
  <2>7. RoomInv'
    <3>1. cfg'.command = "fifo" /\ phase' = "alloc" /\ ~Allocated'
      BY <1>0, <1>4 DEF FifoSizes, Allocated
    <3>2. max * PerBuffer < SizeMod => max * PerBuffer <= bufferSize'
      <4>1. room <= bufferSize'
        BY <2>2, <2>4, <2>5 DEF SizeRange
      <4> QED BY <2>4, <4>1
    <3> QED BY <2>5, <3>1, <3>2 DEF RoomInv
  <2>8. CommandInv' /\ WantedInv' /\ ReceiveInv'
    BY <1>0, <1>4 DEF FifoSizes, CommandInv, WantedInv, ReceiveInv, Phases, Allocated
  <2> QED BY <1>1, <2>6, <2>7, <2>8
<1> QED BY <1>2, <1>3, <1>4 DEF SetSizes

LEMMA AllocReceiveStep == ASSUME SizeInv, AllocReceive PROVE SizeInv'
<1> USE DEF SizeInv
<1>0. /\ phase = "recv" /\ phase' = "alloc" /\ cfg.command = "loopback"
      /\ cfg' = cfg /\ maxTransfer' = maxTransfer /\ allocSize' = allocSize
      /\ bufferSize' = maxTransfer /\ recvSize' = Rounded(bufferSize)
      /\ Rounded(bufferSize) # 0
  BY DEF AllocReceive, CommandInv
<1>1. recvSize' \in SizeRange /\ bufferSize <= recvSize'
  BY <1>0, RoundedUp DEF SizesInv
<1>2. SizesInv'
  BY <1>0, <1>1 DEF SizesInv
<1>3. ReceiveInv'
  BY <1>0, <1>1 DEF SizesInv, SizeRange, WantedInv, ReceiveInv
<1>4. CommandInv' /\ WantedInv' /\ BufferInv' /\ WholeInv' /\ RoomInv' /\ TransferFits'
  BY <1>0 DEF CommandInv, WantedInv, BufferInv, WholeInv, RoomInv, TransferFits,
              Transferring, Phases, Allocated
<1> QED BY <1>2, <1>3, <1>4

LEMMA AllocStep == ASSUME SizeInv, BufferAllocAndSet PROVE SizeInv'
<1> USE DEF SizeInv
<1>0. /\ phase = "alloc" /\ phase' = "ready"
      /\ cfg' = cfg /\ maxTransfer' = maxTransfer /\ recvSize' = recvSize
      /\ bufferSize' = bufferSize /\ allocSize' = Rounded(bufferSize)
      /\ transferSize' = bufferSize /\ Rounded(bufferSize) # 0
  BY DEF BufferAllocAndSet, sizes
<1>1. allocSize' \in SizeRange /\ bufferSize <= allocSize' /\ bufferSize # 0
  BY <1>0, RoundedUp DEF SizesInv
<1>2. SizesInv'
  BY <1>0, <1>1 DEF SizesInv
<1>3. BufferInv'
  BY <1>0, <1>1 DEF BufferInv, SizesInv, SizeRange, WantedInv, Allocated
<1>4. RoomInv'
  <2> DEFINE product == maxTransfer * PerBuffer
  <2>1. product \in Nat
    BY DefaultsAssumption DEF SizesInv, SizeRange
  <2>2. cfg.command = "fifo" /\ product < SizeMod => product <= bufferSize
    BY <1>0 DEF RoomInv
  <2>3. product' = product
    BY <1>0
  <2> HIDE DEF product
  <2>4. cfg.command = "fifo" /\ product < SizeMod => product <= allocSize'
    BY <1>1, <2>1, <2>2 DEF SizesInv, SizeRange
  <2> QED BY <1>0, <2>3, <2>4 DEF RoomInv, Allocated, product
<1>5. CommandInv' /\ WantedInv' /\ ReceiveInv' /\ WholeInv' /\ TransferFits'
  BY <1>0 DEF CommandInv, WantedInv, ReceiveInv, WholeInv, TransferFits, Transferring,
              Phases, Allocated
<1> QED BY <1>2, <1>3, <1>4, <1>5

(* A clipped transfer ends within the memory of the card.                  *)
LEMMA ClippedFits ==
  ASSUME NEW offset \in 0 .. MaxCardOffset - 1, NEW size \in SizeRange, size # 0
  PROVE  /\ Clipped(offset, size) \in 1 .. size
         /\ offset + Clipped(offset, size) <= MaxCardOffset
<1>1. MaxCardOffset \in 1 .. SizeMod - 1
  BY WidthAssumption
<1> DEFINE rest == MaxCardOffset - offset
<1>2. rest \in 1 .. SizeMod - 1
  BY <1>1, UnitFits
<1>3. rest % SizeMod = rest
  <2> HIDE DEF rest
  <2> QED BY <1>2, UnitFits, ModSmall
<1> QED BY <1>1, <1>2, <1>3, UnitFits DEF Clipped, SizeRange

(* The first transfer of a Linux worker has the whole size.                *)
LEMMA FirstStep == ASSUME SizeInv, FirstTransfer PROVE SizeInv'
<1> USE DEF SizeInv
<1>0. /\ phase = "ready" /\ cfg.command = "dma" /\ phase' = "first"
      /\ cfg' = cfg /\ maxTransfer' = maxTransfer /\ recvSize' = recvSize
      /\ bufferSize' = bufferSize /\ allocSize' = allocSize
      /\ transferSize' = transferSize
  BY DEF FirstTransfer, StartsUnprepared, sizes
<1>1. /\ SizesInv' /\ CommandInv' /\ WantedInv' /\ ReceiveInv' /\ BufferInv'
      /\ WholeInv' /\ RoomInv'
  BY <1>0 DEF SizesInv, CommandInv, WantedInv, ReceiveInv, BufferInv, WholeInv, RoomInv,
              Phases, Allocated
<1>2. transferSize = maxTransfer /\ maxTransfer \in 1 .. allocSize
  BY <1>0 DEF WholeInv, BufferInv, Allocated
<1>3. TransferFits'
  BY <1>0, <1>2 DEF TransferFits, Clips
<1> QED BY <1>1, <1>3

LEMMA PrepareStep == ASSUME SizeInv, PrepareTransfer PROVE SizeInv'
<1> USE DEF SizeInv
<1>0. /\ phase \in {"ready", "first", "prepared"} /\ cfg.command # "fifo"
      /\ phase' = "prepared" /\ cfg' = cfg /\ maxTransfer' = maxTransfer /\ recvSize' = recvSize
      /\ bufferSize' = bufferSize /\ allocSize' = allocSize
      /\ os' = cardOffset'
  BY DEF PrepareTransfer, sizes
<1>1. /\ SizesInv' /\ CommandInv' /\ WantedInv' /\ ReceiveInv' /\ BufferInv'
      /\ WholeInv' /\ RoomInv'
  BY <1>0 DEF SizesInv, CommandInv, WantedInv, ReceiveInv, BufferInv, WholeInv, RoomInv,
              Phases, Allocated
<1>2. /\ maxTransfer \in 1 .. allocSize /\ maxTransfer \in SizeRange
      /\ allocSize \in SizeRange /\ recvSize \in SizeRange
      /\ cfg.command = "loopback" => maxTransfer <= recvSize
  BY <1>0 DEF BufferInv, ReceiveInv, SizesInv, Allocated
<1>3. ChooseTarget
  BY DEF PrepareTransfer
<1> DEFINE random == cfg.randomize /\ ~cfg.addressFifo
<1>4. ASSUME random => cfg.cardMax <= MaxCardOffset
      PROVE  /\ transferSize' \in 1 .. maxTransfer
             /\ random => cardOffset' + transferSize' <= MaxCardOffset
  <2>1. CASE ~cfg.randomize
    BY <2>1, <1>2, <1>3 DEF ChooseTarget, SizeRange
  <2>2. CASE cfg.randomize
    <3>1. PICK size \in 1 .. maxTransfer :
            IF cfg.addressFifo
            THEN transferSize' = size /\ cardOffset' = cfg.cardMax
            ELSE \E offset \in RandomOffsets(cfg.cardMax) :
                   /\ cardOffset' = offset
                   /\ transferSize' = Clipped(offset, size)
      BY <2>2, <1>3 DEF ChooseTarget
    <3>2. size \in SizeRange /\ size # 0
      BY <1>2, UnitFits DEF SizeRange
    <3>3. CASE cfg.addressFifo
      BY <3>1, <3>3
    <3>4. CASE ~cfg.addressFifo
      <4>1. PICK offset \in RandomOffsets(cfg.cardMax) :
              cardOffset' = offset /\ transferSize' = Clipped(offset, size)
        BY <3>1, <3>4
      <4>2. cfg.cardMax \in Nat /\ cfg.cardMax <= MaxCardOffset
        BY <1>4, <2>2, <3>4 DEF CommandInv
      <4>3. offset \in 0 .. MaxCardOffset - 1
        BY <4>2, WidthAssumption DEF RandomOffsets
      <4>4. /\ transferSize' \in 1 .. size
            /\ cardOffset' + transferSize' <= MaxCardOffset
        BY <3>2, <4>1, <4>3, ClippedFits
      <4> QED BY <1>2, <3>2, <4>4 DEF SizeRange
    <3> QED BY <3>3, <3>4
  <2> QED BY <2>1, <2>2
<1>5. TransferFits'
  <2>1. Clips' = random /\ cfg'.cardMax = cfg.cardMax
    BY <1>0 DEF Clips
  <2> HIDE DEF random
  <2> QED BY <1>0, <1>2, <1>4, <2>1 DEF TransferFits, SizeRange
<1> QED BY <1>1, <1>5

(* No other step touches the sizes.                                        *)
LEMMA OtherSteps ==
  ASSUME SizeInv, NoBuffer \/ Receive \/ ValidateDataBuffer \/ UNCHANGED bvars
  PROVE  SizeInv'
<1> USE DEF SizeInv
<1>0. /\ cfg' = cfg /\ maxTransfer' = maxTransfer /\ recvSize' = recvSize
      /\ bufferSize' = bufferSize /\ allocSize' = allocSize
      /\ transferSize' = transferSize /\ os' = os
  BY DEF NoBuffer, Receive, ValidateDataBuffer, bvars, sizes, target
<1>1. \/ phase' = phase
      \/ phase' = "failed"
      \/ Allocated /\ phase' \in {"packet", "judged"}
  <2>1. CASE NoBuffer
    BY <2>1 DEF NoBuffer
  <2>2. CASE Receive
    BY <2>2 DEF Receive, Allocated
  <2>3. CASE ValidateDataBuffer
    BY <2>3 DEF ValidateDataBuffer, Allocated
  <2>4. CASE UNCHANGED bvars
    BY <2>4 DEF bvars
  <2> QED BY <2>1, <2>2, <2>3, <2>4
<1>2. TransferFits' /\ WholeInv'
  BY <1>0, <1>1 DEF TransferFits, Transferring, Clips, WholeInv, Allocated
<1>3. SizesInv' /\ CommandInv'
  BY <1>0, <1>1 DEF SizesInv, CommandInv, Phases
<1>4. WantedInv' /\ ReceiveInv' /\ BufferInv' /\ RoomInv'
  BY <1>0, <1>1 DEF WantedInv, ReceiveInv, BufferInv, RoomInv, Allocated
<1> QED BY <1>2, <1>3, <1>4

LEMMA SizesStep == SizeInv /\ [Next]_bvars => SizeInv'
BY SetSizesStep, AllocReceiveStep, AllocStep, FirstStep, PrepareStep, OtherSteps DEF Next

LEMMA SizesHold == BSpec => []SizeInv
BY InitSizes, SizesStep, PTL DEF BSpec

-----------------------------------------------------------------------------
(* For every size, rounding unit and card address, a transfer of a DMA or  *)
(* loopback test lies within the buffers that were allocated for it, the   *)
(* first one of a Linux worker included.                                   *)
THEOREM TransferCorrect == BSpec => []TransferFits
BY SizesHold, PTL DEF SizeInv

(* A FIFO test has room for its packets.                                   *)
THEOREM RoomCorrect == BSpec => []RoomForPackets
<1>1. SizeInv => RoomForPackets
  BY DEF SizeInv, RoomInv, RoomForPackets, Allocated
<1> QED BY <1>1, SizesHold, PTL

-----------------------------------------------------------------------------
(* Bytes and words.                                                        *)

Bytes == 0 .. ByteMod - 1

LEMMA Places ==
  /\ ByteMod \in Nat \ {0}
  /\ ByteMod * ByteMod \in Nat \ {0}
  /\ ByteMod * ByteMod * ByteMod \in Nat \ {0}
  /\ WordMod \in Nat \ {0}
<1>1. \A m, n \in Nat \ {0} : m * n \in Nat \ {0}
  OBVIOUS
<1>2. ByteMod \in Nat \ {0}
  BY WidthAssumption
<1>3. ByteMod * ByteMod \in Nat \ {0}
  BY <1>1, <1>2
<1>4. ByteMod * ByteMod * ByteMod \in Nat \ {0}
  BY <1>1, <1>2, <1>3
<1>5. ByteMod * ByteMod * ByteMod * ByteMod \in Nat \ {0}
  BY <1>1, <1>2, <1>4
<1> QED BY <1>2, <1>3, <1>4, <1>5 DEF WordMod

LEMMA ByteIsByte ==
  ASSUME NEW w \in Nat, NEW j \in 0 .. 3
  PROVE  Byte(w, j) \in Bytes
<1> DEFINE place == <<1, ByteMod, ByteMod * ByteMod, ByteMod * ByteMod * ByteMod>>[j + 1]
<1>1. place \in Nat \ {0}
  BY Places
<1> HIDE DEF place
<1>2. PICK q : q = w \div place
  OBVIOUS
<1>3. q \in Nat
  BY <1>1, <1>2, Division
<1>4. Byte(w, j) = q % ByteMod
  BY <1>2 DEF Byte, place
<1> QED BY <1>3, <1>4, Places, ModRange DEF Bytes

(* Places below b * b, and where a place of size b is added to them.       *)
LEMMA TwoPlaces ==
  ASSUME NEW b \in Nat \ {0}, NEW n \in Nat \ {0},
         NEW low \in 0 .. b - 1, NEW high \in 0 .. n - 1
  PROVE  low + b * high \in 0 .. (b * n) - 1
<1>1. b * high \in Nat
  OBVIOUS
<1>2. b * (high + 1) <= b * n
  OBVIOUS
<1>3. b * (high + 1) = b * high + b
  OBVIOUS
<1>4. b * n \in Nat
  OBVIOUS
<1> QED BY <1>1, <1>2, <1>3, <1>4

LEMMA WordBytes ==
  ASSUME NEW b0 \in Bytes, NEW b1 \in Bytes, NEW b2 \in Bytes, NEW b3 \in Bytes
  PROVE  /\ WordOf(b0, b1, b2, b3) \in Nat
         /\ Byte(WordOf(b0, b1, b2, b3), 0) = b0
         /\ Byte(WordOf(b0, b1, b2, b3), 1) = b1
         /\ Byte(WordOf(b0, b1, b2, b3), 2) = b2
         /\ Byte(WordOf(b0, b1, b2, b3), 3) = b3
<1> DEFINE B == ByteMod
<1> DEFINE w == WordOf(b0, b1, b2, b3)
<1> DEFINE q1 == b1 + B * (b2 + B * b3)
<1> DEFINE q2 == b2 + B * b3
<1> DEFINE low2 == b0 + B * b1
<1> DEFINE low3 == low2 + (B * B) * b2
<1>1. /\ B \in Nat \ {0} /\ B * B \in Nat \ {0} /\ B * B * B \in Nat \ {0}
      /\ b0 \in 0 .. B - 1 /\ b1 \in 0 .. B - 1 /\ b2 \in 0 .. B - 1 /\ b3 \in 0 .. B - 1
  BY Places DEF Bytes
<1>2. q2 \in Nat
  <2>1. B * b3 \in Nat
    BY <1>1
  <2> QED BY <1>1, <2>1
<1>3. q1 \in Nat
  <2> HIDE DEF q2
  <2>1. B * q2 \in Nat
    BY <1>1, <1>2
  <2>2. q1 = b1 + B * q2
    BY DEF q2
  <2> HIDE DEF q1
  <2> QED BY <1>1, <2>1, <2>2
<1>4. w = B * q1 + b0 /\ q1 = B * q2 + b1 /\ q2 = B * b3 + b2
  <2>1. w = b0 + B * q1
    BY DEF WordOf
  <2>2. q1 = b1 + B * q2
    OBVIOUS
  <2> HIDE DEF w, q1
  <2>3. q2 = b2 + B * b3
    OBVIOUS
  <2> HIDE DEF q2
  <2>4. B * q1 \in Nat /\ B * q2 \in Nat /\ B * b3 \in Nat
    BY <1>1, <1>2, <1>3
  <2> HIDE DEF B
  <2> QED BY <1>1, <2>1, <2>2, <2>3, <2>4
<1>5. low2 \in 0 .. (B * B) - 1
  BY <1>1, TwoPlaces
<1>6. low3 \in 0 .. (B * B * B) - 1
  <2> HIDE DEF low2
  <2>1. low3 \in 0 .. ((B * B) * B) - 1
    BY <1>1, <1>5, TwoPlaces
  <2> QED BY <2>1
<1> HIDE DEF w, q1, q2
<1>7. w = (B * B) * q2 + low2
  <2>1. B * q1 = (B * B) * q2 + B * b1
    BY <1>1, <1>2, <1>4
  <2> QED BY <1>1, <1>2, <1>4, <2>1
<1>8. w = (B * B * B) * b3 + low3
  <2>1. (B * B) * q2 = (B * B * B) * b3 + (B * B) * b2
    BY <1>1, <1>2, <1>4
  <2>2. (B * B * B) * b3 \in Nat /\ (B * B) * b2 \in Nat /\ low2 \in Nat
    BY <1>1, <1>5
  <2> QED BY <1>7, <2>1, <2>2
<1>9. w \in Nat
  <2>1. B * q1 \in Nat
    BY <1>1, <1>3
  <2> QED BY <1>1, <1>4, <2>1
<1> HIDE DEF low2, low3
<1>10. w % B = b0 /\ w \div B = q1 /\ q1 % B = b1 /\ q2 % B = b2
  <2> HIDE DEF B
  <2>1. w % B = b0 /\ w \div B = q1
    BY <1>1, <1>3, <1>4, DivisionUnique
  <2>2. q1 % B = b1
    BY <1>1, <1>2, <1>4, DivisionUnique
  <2>3. q2 % B = b2
    <3>1. b3 \in Nat /\ b2 \in 0 .. B - 1 /\ q2 = B * b3 + b2 /\ B \in Nat \ {0}
      BY <1>1, <1>4
    <3> QED BY <3>1, DivisionUnique
  <2> QED BY <2>1, <2>2, <2>3
<1>11. w \div (B * B) = q2
  BY <1>1, <1>2, <1>5, <1>7, DivisionUnique
<1>12. w \div (B * B * B) = b3
  <2>1. PICK cube : cube = B * B * B
    OBVIOUS
  <2>2. cube \in Nat \ {0} /\ low3 \in 0 .. cube - 1 /\ w = cube * b3 + low3 /\ b3 \in Nat
    BY <1>1, <1>6, <1>8, <2>1
  <2>3. w \div cube = b3
    BY <2>2, DivisionUnique
  <2> QED BY <2>1, <2>3
<1>13. b3 % B = b3
  BY <1>1, ModSmall
<1>14. w \div 1 = w
  BY <1>9
<1>15. /\ Byte(w, 0) = (w \div 1) % B
       /\ Byte(w, 1) = (w \div B) % B
       /\ Byte(w, 2) = (w \div (B * B)) % B
       /\ Byte(w, 3) = (w \div (B * B * B)) % B
  BY DEF Byte
<1> HIDE DEF B
<1>16. Byte(w, 0) = b0 /\ Byte(w, 1) = b1 /\ Byte(w, 2) = b2 /\ Byte(w, 3) = b3
  BY <1>10, <1>11, <1>12, <1>13, <1>14, <1>15
<1> QED BY <1>9, <1>16 DEF w

-----------------------------------------------------------------------------
(* Patterns.                                                               *)

SeedInv ==
  /\ cfg.seed \in 0 .. WordMod - 1
  /\ cfg.pattern \in {"incrementing", "specified", "random"}

OneByte == SeedSize(cfg.seed) = 1

(* A seed is one byte or a whole word, which is a natural number.          *)
LEMMA Seeds ==
  ASSUME SeedInv
  PROVE  /\ cfg.seed \in Nat
         /\ OneByte => cfg.seed \in Bytes
         /\ cfg.seed % WordMod = cfg.seed
         /\ SeedSize(cfg.seed) = 4 <=> ~ OneByte
<1> DEFINE seed == cfg.seed
<1>1. seed \in 0 .. WordMod - 1
  BY DEF SeedInv
<1> HIDE DEF seed
<1>2. seed % WordMod = seed /\ seed \in Nat
  BY <1>1, Places, ModSmall
<1>3. /\ SeedSize(seed) = 1 => seed \in Bytes
      /\ SeedSize(seed) = 4 <=> SeedSize(seed) # 1
  BY <1>1, <1>2, Places DEF SeedSize, Bytes
<1> QED BY <1>2, <1>3 DEF seed, OneByte

LEMMA Remainders ==
  ASSUME NEW a \in Nat
  PROVE  a % ByteMod \in Bytes /\ a % WordMod \in Nat
<1>1. a % ByteMod \in 0 .. ByteMod - 1
  BY Places, ModRange
<1>2. a % WordMod \in 0 .. WordMod - 1
  BY Places, ModRange
<1> QED BY <1>1, <1>2, Places DEF Bytes

LEMMA FillWordType ==
  ASSUME SeedInv, NEW t \in Nat
  PROVE  FillWord(t) \in Nat
<1>1. CASE OneByte
  <2>1. PICK s : s = cfg.seed + 4 * t
    OBVIOUS
  <2>2. s \in Nat /\ s + 1 \in Nat /\ s + 2 \in Nat /\ s + 3 \in Nat
    BY <2>1, Seeds
  <2>3. /\ s % ByteMod \in Bytes /\ (s + 1) % ByteMod \in Bytes
        /\ (s + 2) % ByteMod \in Bytes /\ (s + 3) % ByteMod \in Bytes
    BY <2>2, Remainders
  <2>4. WordOf(s % ByteMod, (s + 1) % ByteMod, (s + 2) % ByteMod, (s + 3) % ByteMod)
          \in Nat
    BY <2>3, WordBytes
  <2>5. WordOf(cfg.seed, cfg.seed, cfg.seed, cfg.seed) \in Nat
    BY <1>1, Seeds, WordBytes
  <2> QED BY <1>1, <2>1, <2>4, <2>5 DEF FillWord, OneByte
<1>2. CASE ~ OneByte
  <2>1. (cfg.seed + t) % WordMod \in Nat
    <3>1. PICK s : s = cfg.seed + t
      OBVIOUS
    <3>2. s \in Nat
      BY <3>1, Seeds
    <3> QED BY <3>1, <3>2, Remainders
  <2> QED BY <1>2, <2>1, Seeds DEF FillWord, OneByte
<1> QED BY <1>1, <1>2

(* A whole-word pattern starts with its seed.                              *)
LEMMA FirstWord ==
  ASSUME SeedInv
  PROVE  PatternWord(0) = cfg.seed
<1>1. cfg.seed \in Nat /\ cfg.seed % WordMod = cfg.seed
  BY Seeds
<1>2. cfg.seed + 0 = cfg.seed
  BY <1>1
<1> QED BY <1>1, <1>2 DEF PatternWord

LEMMA PatternTypes ==
  ASSUME SeedInv, NEW n \in Nat
  PROVE  PatternWord(n) \in Nat /\ PatternByte(n) \in Nat
<1>1. PICK s : s = cfg.seed + IF cfg.pattern = "specified" THEN 0 ELSE n
  OBVIOUS
<1>2. s \in Nat
  BY <1>1, Seeds
<1>3. s % WordMod \in Nat /\ s % ByteMod \in Nat
  BY <1>2, Remainders, Places DEF Bytes
<1>4. PICK t, j : t = n \div 4 /\ j = n % 4
  OBVIOUS
<1>5. t \in Nat /\ j \in 0 .. 3
  BY <1>4, Division
<1>6. PatternWord(t) \in Nat
  <2>1. PICK u : u = cfg.seed + IF cfg.pattern = "specified" THEN 0 ELSE t
    OBVIOUS
  <2>2. u \in Nat
    BY <1>5, <2>1, Seeds
  <2> QED BY <2>1, <2>2, Remainders DEF PatternWord
<1>7. Byte(PatternWord(t), j) \in Nat
  BY <1>5, <1>6, ByteIsByte, Places DEF Bytes
<1>8. PatternWord(n) \in Nat
  BY <1>1, <1>3 DEF PatternWord
<1>9. PatternByte(n) \in Nat
  BY <1>1, <1>3, <1>4, <1>7 DEF PatternByte
<1> QED BY <1>8, <1>9

(* What GetNextPattern makes of a word of a whole-word pattern is the next *)
(* one.                                                                    *)
LEMMA NextWord ==
  ASSUME SeedInv, ~ OneByte, NEW k \in Nat
  PROVE  GetNextPattern(PatternWord(k)) = PatternWord(k + 1)
<1>1. CASE cfg.pattern = "specified"
  BY <1>1 DEF GetNextPattern, PatternWord
<1>2. CASE cfg.pattern # "specified"
  <2>1. PICK x : x = cfg.seed + k
    OBVIOUS
  <2>2. x \in Nat /\ x + 1 = cfg.seed + (k + 1)
    BY <2>1, Seeds
  <2>3. ((x % WordMod) + 1) % WordMod = (x + 1) % WordMod
    BY <2>2, Places, ModAdd
  <2>4. PatternWord(k) = x % WordMod /\ PatternWord(k + 1) = (x + 1) % WordMod
    BY <1>2, <2>1, <2>2 DEF PatternWord
  <2>5. GetNextPattern(PatternWord(k)) = ((x % WordMod) + 1) % WordMod
    BY <1>2, <2>4 DEF GetNextPattern, OneByte
  <2> QED BY <2>3, <2>4, <2>5
<1> QED BY <1>1, <1>2

(* The bytes of a fill.                                                    *)
LEMMA FilledBytes ==
  ASSUME SeedInv, cfg.pattern # "random", NEW b \in Nat
  PROVE  Byte(FillWord(b \div 4), b % 4) = PatternByte(b)
<1> USE DEF PatternByte
<1>0. PICK t, j : t = b \div 4 /\ j = b % 4
  OBVIOUS
<1>1. t \in Nat /\ j \in 0 .. 3 /\ b = 4 * t + j
  BY <1>0, Division
<1>2. CASE ~ OneByte
  <2>1. CASE cfg.pattern = "specified"
    <3>1. cfg.seed \in Nat /\ cfg.seed % WordMod = cfg.seed
      BY Seeds
    <3>2. cfg.seed + 0 = cfg.seed
      BY <3>1
    <3> QED BY <1>0, <1>2, <2>1, <3>1, <3>2, Seeds DEF FillWord, PatternWord, OneByte
  <2>2. CASE cfg.pattern # "specified"
    BY <1>0, <1>2, <2>2, Seeds DEF FillWord, PatternWord, OneByte
  <2> QED BY <2>1, <2>2
<1>3. CASE OneByte /\ cfg.pattern = "specified"
  <2>1. cfg.seed \in Bytes /\ FillWord(t) = WordOf(cfg.seed, cfg.seed, cfg.seed, cfg.seed)
    BY <1>3, Seeds DEF FillWord, OneByte
  <2>2. Byte(FillWord(t), j) = cfg.seed
    <3>1. j = 0 \/ j = 1 \/ j = 2 \/ j = 3
      BY <1>1
    <3> QED BY <2>1, <3>1, WordBytes
  <2>3. (cfg.seed + 0) % ByteMod = cfg.seed
    BY <2>1, Places, ModSmall DEF Bytes
  <2> QED BY <1>0, <1>3, <2>2, <2>3, Seeds
<1>4. CASE OneByte /\ cfg.pattern # "specified"
  <2>1. PICK s : s = cfg.seed + 4 * t
    OBVIOUS
  <2>2. s \in Nat /\ cfg.seed + b = s + j /\ s + 0 = s
    BY <1>1, <2>1, Seeds
  <2>3. FillWord(t) = WordOf(s % ByteMod, (s + 1) % ByteMod, (s + 2) % ByteMod,
                             (s + 3) % ByteMod)
    BY <1>4, <2>1 DEF FillWord, OneByte
  <2>4. /\ s % ByteMod \in Bytes /\ (s + 1) % ByteMod \in Bytes
        /\ (s + 2) % ByteMod \in Bytes /\ (s + 3) % ByteMod \in Bytes
    BY <2>2, Places, ModRange DEF Bytes
  <2>5. /\ Byte(FillWord(t), 0) = s % ByteMod
        /\ Byte(FillWord(t), 1) = (s + 1) % ByteMod
        /\ Byte(FillWord(t), 2) = (s + 2) % ByteMod
        /\ Byte(FillWord(t), 3) = (s + 3) % ByteMod
    BY <2>3, <2>4, WordBytes
  <2>6. Byte(FillWord(t), j) = (s + j) % ByteMod
    <3>1. j = 0 \/ j = 1 \/ j = 2 \/ j = 3
      BY <1>1
    <3> QED BY <2>2, <2>5, <3>1
  <2> QED BY <1>0, <1>4, <2>2, <2>6, Seeds
<1> QED BY <1>2, <1>3, <1>4

-----------------------------------------------------------------------------
(* Types.                                                                  *)

(* The data is that of the buffer; PacketInv says where a packet is.       *)
DataInv ==
  /\ data = <<>> \/ data \in [0 .. allocSize - 1 -> Bytes]
  /\ Allocated => data \in [0 .. allocSize - 1 -> Bytes]

FlagsInv == patternOn \in BOOLEAN /\ checking \in BOOLEAN /\ verdict \in BOOLEAN

TargetInv ==
  /\ cardOffset \in Nat /\ os \in Nat /\ transferSize \in SizeRange
  /\ allocSize % 4 = 0
  /\ phase \in Phases

PacketInv ==
  /\ packet.offset \in SizeRange /\ packet.length \in SizeRange
  /\ phase \in {"packet", "judged"} =>
       /\ packet.offset \in 0 .. allocSize - 1 /\ packet.offset % 4 = 0
       /\ packet.length \in 1 .. allocSize

BTypeInv == SizeInv /\ SeedInv /\ DataInv /\ FlagsInv /\ TargetInv /\ PacketInv

LEMMA InitTypes == Init => BTypeInv
<1> SUFFICES ASSUME Init PROVE BTypeInv
  OBVIOUS
<1>1. SizeInv
  BY InitSizes
<1>2. SeedInv
  BY SeedsAssumption DEF Init, SeedInv
<1>3. DataInv /\ FlagsInv
  BY DEF Init, DataInv, FlagsInv, Allocated
<1>4. TargetInv
  <2>1. 0 \in SizeRange /\ 0 % 4 = 0
    BY UnitFits DEF SizeRange
  <2> QED BY <2>1 DEF Init, TargetInv, Phases
<1>5. PacketInv
  <2>1. 0 \in SizeRange
    BY UnitFits DEF SizeRange
  <2> QED BY <2>1 DEF Init, PacketInv
<1> QED BY <1>1, <1>2, <1>3, <1>4, <1>5 DEF BTypeInv

(* Sizes of buffers are whole words.                                       *)
LEMMA RoundedWords ==
  ASSUME NEW n \in SizeRange
  PROVE  Rounded(n) % 4 = 0
<1>1. PICK wide : wide = n + AllocUnit - 1
  OBVIOUS
<1>2. wide \in Int
  BY <1>1, UnitFits DEF SizeRange
<1>3. PICK sum : sum = wide % SizeMod
  OBVIOUS
<1>4. sum \in Nat
  BY <1>2, <1>3, UnitFits, ModRange
<1>5. PICK q, r : q = sum \div AllocUnit /\ r = sum % AllocUnit
  OBVIOUS
<1>6. q \in Nat /\ r \in Nat /\ sum = AllocUnit * q + r
  BY <1>4, <1>5, UnitFits, Division
<1>7. PICK u : u = AllocUnit \div 4
  OBVIOUS
<1>8. u \in Nat /\ AllocUnit = 4 * u
  BY <1>7, WidthAssumption, Division
<1>9. u * q \in Nat /\ AllocUnit * q = 4 * (u * q)
  BY <1>6, <1>8
<1>10. Rounded(n) = sum - r
  BY <1>1, <1>3, <1>5 DEF Rounded
<1>11. Rounded(n) = 4 * (u * q) + 0
  BY <1>6, <1>9, <1>10
<1>12. PICK m : m = u * q
  OBVIOUS
<1>13. (4 * m + 0) % 4 = 0
  BY <1>9, <1>12, DivisionUnique
<1> QED BY <1>11, <1>12, <1>13

LEMMA FilledType ==
  ASSUME SeedInv, NEW size \in Nat, NEW r \in RandomBytes
  PROVE  Filled(size, r) \in [0 .. size - 1 -> Bytes]
<1>1. r \in Bytes /\ 0 \in Bytes
  BY WidthAssumption, Places DEF Bytes
<1>2. ASSUME NEW b \in 0 .. size - 1
      PROVE  Byte(FillWord(b \div 4), b % 4) \in Bytes
  <2>1. PICK t, j : t = b \div 4 /\ j = b % 4
    OBVIOUS
  <2>2. t \in Nat /\ j \in 0 .. 3
    BY <2>1, Division
  <2>3. FillWord(t) \in Nat
    BY <2>2, FillWordType
  <2> QED BY <2>1, <2>2, <2>3, ByteIsByte
<1> QED BY <1>1, <1>2 DEF Filled

(* The steps that neither allocate, prepare nor receive.                   *)
LEMMA PlainTypes ==
  ASSUME BTypeInv, SizeInv',
         SetSizes \/ NoBuffer \/ AllocReceive \/ ValidateDataBuffer \/ UNCHANGED bvars
  PROVE  (SeedInv /\ DataInv /\ FlagsInv /\ TargetInv /\ PacketInv)'
<1> USE DEF BTypeInv
<1>1. UNCHANGED <<cfg, allocSize, data, cardOffset, transferSize, os, packet>>
  BY DEF SetSizes, NoBuffer, AllocReceive, ValidateDataBuffer, bvars, target, judgement
<1>2. /\ phase' \in Phases
      /\ Allocated' => Allocated
      /\ phase' \in {"packet", "judged"} => phase \in {"packet", "judged"}
  <2>1. CASE SetSizes
    BY <2>1 DEF SetSizes, DmaSizes, LoopSizes, FifoSizes, Phases, Allocated
  <2>2. CASE NoBuffer
    BY <2>2 DEF NoBuffer, Phases, Allocated
  <2>3. CASE AllocReceive
    BY <2>3 DEF AllocReceive, Phases, Allocated
  <2>4. CASE ValidateDataBuffer
    BY <2>4 DEF ValidateDataBuffer, Phases, Allocated
  <2>5. CASE UNCHANGED bvars
    BY <2>5 DEF bvars, TargetInv, Allocated
  <2> QED BY <2>1, <2>2, <2>3, <2>4, <2>5
<1>3. FlagsInv'
  <2>1. CASE SetSizes
    BY <2>1 DEF SetSizes, DmaSizes, LoopSizes, FifoSizes, FlagsInv, judgement
  <2>2. CASE NoBuffer
    BY <2>2 DEF NoBuffer, flags, judgement, FlagsInv
  <2>3. CASE AllocReceive
    BY <2>3 DEF AllocReceive, judgement, FlagsInv
  <2>4. CASE ValidateDataBuffer
    <3>1. verdict' \in BOOLEAN /\ UNCHANGED flags
      BY <2>4 DEF ValidateDataBuffer
    <3> QED BY <3>1 DEF FlagsInv, flags
  <2>5. CASE UNCHANGED bvars
    BY <2>5 DEF bvars, flags, judgement, FlagsInv
  <2> QED BY <2>1, <2>2, <2>3, <2>4, <2>5
<1>4. SeedInv' /\ DataInv' /\ TargetInv' /\ PacketInv'
  BY <1>1, <1>2 DEF SeedInv, DataInv, TargetInv, PacketInv
<1> QED BY <1>3, <1>4

LEMMA AllocTypes ==
  ASSUME BTypeInv, SizeInv', BufferAllocAndSet
  PROVE  (SeedInv /\ DataInv /\ FlagsInv /\ TargetInv /\ PacketInv)'
<1> USE DEF BTypeInv
<1>1. /\ UNCHANGED <<cfg, packet, verdict, checking, cardOffset, os>> /\ phase' = "ready"
      /\ allocSize' = Rounded(bufferSize) /\ transferSize' = bufferSize
      /\ patternOn' = (patternOn /\ allocSize' <= LargeSize)
  BY DEF BufferAllocAndSet, judgement
<1>2. allocSize' \in Nat /\ allocSize' % 4 = 0 /\ bufferSize \in SizeRange
  BY <1>1, RoundedUp, RoundedWords, UnitFits DEF SizeInv, SizesInv, SizeRange
<1>3. data' \in [0 .. allocSize' - 1 -> Bytes]
  <2>1. PICK r \in RandomBytes :
          data' = IF patternOn' THEN Filled(allocSize', r)
                  ELSE [b \in 0 .. allocSize' - 1 |-> 0]
    BY DEF BufferAllocAndSet
  <2>2. Filled(allocSize', r) \in [0 .. allocSize' - 1 -> Bytes]
    BY <1>2, FilledType
  <2>3. 0 \in Bytes
    BY Places DEF Bytes
  <2> QED BY <2>1, <2>2, <2>3
<1>4. FlagsInv'
  <2>1. patternOn' \in BOOLEAN
    BY <1>1
  <2> QED BY <1>1, <2>1 DEF FlagsInv
<1>5. SeedInv' /\ TargetInv' /\ PacketInv' /\ DataInv'
  BY <1>1, <1>2, <1>3 DEF SeedInv, TargetInv, PacketInv, DataInv, Phases
<1> QED BY <1>4, <1>5

LEMMA FirstTypes ==
  ASSUME BTypeInv, SizeInv', FirstTransfer
  PROVE  (SeedInv /\ DataInv /\ FlagsInv /\ TargetInv /\ PacketInv)'
<1> USE DEF BTypeInv
<1>1. /\ UNCHANGED <<cfg, packet, verdict, patternOn, checking, allocSize, data,
                     transferSize>>
      /\ phase' = "first" /\ Allocated
  BY DEF FirstTransfer, flags, judgement, Allocated
<1>2. cardOffset' \in Nat /\ os' \in Nat
  BY DefaultsAssumption DEF FirstTransfer, SizeInv, CommandInv
<1> QED BY <1>1, <1>2 DEF SeedInv, DataInv, FlagsInv, TargetInv, PacketInv, Phases

LEMMA PrepareTypes ==
  ASSUME BTypeInv, SizeInv', PrepareTransfer
  PROVE  (SeedInv /\ DataInv /\ FlagsInv /\ TargetInv /\ PacketInv)'
<1> USE DEF BTypeInv
<1>1. /\ UNCHANGED <<cfg, packet, verdict, patternOn, checking, allocSize>>
      /\ phase' = "prepared" /\ Allocated
  BY DEF PrepareTransfer, flags, judgement, Allocated
<1>2. data' \in [0 .. allocSize - 1 -> Bytes]
  <2>1. data \in [0 .. allocSize - 1 -> Bytes]
    BY <1>1 DEF DataInv
  <2>2. CASE cfg.pattern = "random" /\ cfg.writing
    <3>1. PICK r \in RandomBytes :
            data' = [b \in 0 .. allocSize - 1 |-> IF b < transferSize' THEN r ELSE data[b]]
      BY <2>2 DEF PrepareTransfer
    <3>2. r \in Bytes
      BY WidthAssumption DEF Bytes
    <3> QED BY <2>1, <3>1, <3>2
  <2>3. CASE ~ (cfg.pattern = "random" /\ cfg.writing)
    BY <2>1, <2>3 DEF PrepareTransfer
  <2> QED BY <2>2, <2>3
<1>3. cardOffset' \in Nat /\ os' = cardOffset' /\ transferSize' \in SizeRange
  <2>0. /\ maxTransfer \in SizeRange /\ cfg.cardMax \in Nat /\ ChooseTarget
        /\ os' = cardOffset'
        /\ \A offset \in RandomOffsets(cfg.cardMax) : offset \in Nat
    BY DEF PrepareTransfer, SizeInv, SizesInv, CommandInv, RandomOffsets
  <2>1. CASE ~ cfg.randomize
    BY <2>0, <2>1 DEF ChooseTarget
  <2>2. CASE cfg.randomize
    <3>1. PICK size \in 1 .. maxTransfer :
            IF cfg.addressFifo
            THEN transferSize' = size /\ cardOffset' = cfg.cardMax
            ELSE \E offset \in RandomOffsets(cfg.cardMax) :
                   /\ cardOffset' = offset
                   /\ transferSize' = Clipped(offset, size)
      BY <2>0, <2>2 DEF ChooseTarget
    <3>2. size \in SizeRange
      BY <2>0, UnitFits DEF SizeRange
    <3>3. \A offset \in Nat : (MaxCardOffset - offset) % SizeMod \in SizeRange
      <4> TAKE offset \in Nat
      <4>1. PICK n : n = MaxCardOffset - offset
        OBVIOUS
      <4>2. n \in Int
        BY <4>1, WidthAssumption, UnitFits
      <4> QED BY <4>1, <4>2, UnitFits, ModRange DEF SizeRange
    <3>4. \A offset \in Nat : Clipped(offset, size) \in SizeRange
      BY <3>2, <3>3 DEF Clipped
    <3> QED BY <2>0, <3>1, <3>2, <3>4
  <2> QED BY <2>1, <2>2
<1>4. SeedInv' /\ DataInv' /\ FlagsInv' /\ TargetInv' /\ PacketInv'
  BY <1>1, <1>2, <1>3 DEF SeedInv, DataInv, FlagsInv, TargetInv, PacketInv, Phases
<1> QED BY <1>4

LEMMA ReceiveTypes ==
  ASSUME BTypeInv, SizeInv', Receive
  PROVE  (SeedInv /\ DataInv /\ FlagsInv /\ TargetInv /\ PacketInv)'
<1> USE DEF BTypeInv
<1>1. /\ UNCHANGED <<cfg, verdict, patternOn, checking, allocSize, cardOffset,
                     transferSize, os>>
      /\ phase' = "packet" /\ Allocated
  BY DEF Receive, flags, target, Allocated
<1>2. PICK o \in 0 .. (allocSize \div 4) - 1, length \in 1 .. allocSize :
        \E bad \in -1 .. length - 1 :
          /\ packet' = [offset |-> 4 * o, length |-> length]
          /\ data' = [b \in 0 .. allocSize - 1 |->
               LET n == (b - 4 * o) % allocSize IN
                 IF n >= length THEN data[b]
                 ELSE (PatternByte(n) + (IF n = bad THEN 1 ELSE 0)) % ByteMod]
  BY DEF Receive
<1>3. PICK bad \in -1 .. length - 1 :
        data' = [b \in 0 .. allocSize - 1 |->
          LET n == (b - 4 * o) % allocSize IN
            IF n >= length THEN data[b]
            ELSE (PatternByte(n) + (IF n = bad THEN 1 ELSE 0)) % ByteMod]
  BY <1>2
<1>4. allocSize \in SizeRange /\ data \in [0 .. allocSize - 1 -> Bytes]
  BY <1>1 DEF SizeInv, SizesInv, DataInv
<1>5. 4 * o \in 0 .. allocSize - 1 /\ (4 * o) % 4 = 0 /\ 4 * o \in SizeRange /\ length \in SizeRange
  BY <1>4, UnitFits DEF SizeRange
<1>6. ASSUME NEW b \in 0 .. allocSize - 1
      PROVE  data'[b] \in Bytes
  <2>1. PICK n : n = (b - 4 * o) % allocSize
    OBVIOUS
  <2>2. n \in Nat
    <3>1. PICK m : m = b - 4 * o
      OBVIOUS
    <3>2. m \in Int /\ allocSize \in Nat \ {0}
      BY <1>4, <3>1, UnitFits DEF SizeRange
    <3> QED BY <2>1, <3>1, <3>2, ModRange
  <2>3. PatternByte(n) \in Nat
    BY <2>2, PatternTypes
  <2>4. PICK sum : sum = PatternByte(n) + (IF n = bad THEN 1 ELSE 0)
    OBVIOUS
  <2>5. sum \in Nat
    BY <2>3, <2>4
  <2>6. sum % ByteMod \in Bytes
    BY <2>5, Remainders
  <2>7. data'[b] = IF n >= length THEN data[b] ELSE sum % ByteMod
    BY <1>3, <2>1, <2>4
  <2> QED BY <1>4, <2>6, <2>7
<1>7. data' \in [0 .. allocSize - 1 -> Bytes]
  BY <1>3, <1>6
<1>8. packet'.offset = 4 * o /\ packet'.length = length
  BY <1>2
<1>9. PacketInv'
  BY <1>1, <1>5, <1>8 DEF PacketInv
<1>10. SeedInv' /\ DataInv' /\ FlagsInv' /\ TargetInv'
  BY <1>1, <1>7 DEF SeedInv, DataInv, FlagsInv, TargetInv, Phases
<1> QED BY <1>9, <1>10

LEMMA TypesStep == BTypeInv /\ [Next]_bvars => BTypeInv'
<1> SUFFICES ASSUME BTypeInv, [Next]_bvars PROVE BTypeInv'
  OBVIOUS
<1>1. SizeInv'
  BY SizesStep DEF BTypeInv
<1>2. (SeedInv /\ DataInv /\ FlagsInv /\ TargetInv /\ PacketInv)'
  BY <1>1, PlainTypes, AllocTypes, FirstTypes, PrepareTypes, ReceiveTypes DEF Next
<1> QED BY <1>1, <1>2 DEF BTypeInv

LEMMA TypesHold == BSpec => []BTypeInv
BY InitTypes, TypesStep, PTL DEF BSpec

(* Every size is a UINT32, buffers are whole words, and what a buffer      *)
(* holds are bytes of its size.                                            *)
THEOREM BuffersTypes == BSpec => []BTypeOK
<1>1. BTypeInv => BTypeOK
  <2> SUFFICES ASSUME BTypeInv PROVE BTypeOK
    OBVIOUS
  <2>1. patternOn \in BOOLEAN /\ checking \in BOOLEAN /\ verdict \in BOOLEAN
    BY DEF BTypeInv, FlagsInv
  <2>2. data = <<>> \/ data \in [0 .. allocSize - 1 -> 0 .. ByteMod - 1]
    BY DEF BTypeInv, DataInv, Bytes
  <2> QED
    BY <2>1, <2>2 DEF BTypeInv, SizeInv, SizesInv, SizeRange, TargetInv, PacketInv,
      Phases, BTypeOK
<1> QED BY <1>1, TypesHold, PTL

-----------------------------------------------------------------------------
(* What the validation expects and compares.                               *)

Expected(e, n) ==
  e = [k \in 0 .. n |-> IF k = 0 THEN cfg.seed ELSE GetNextPattern(e[k - 1])]

(* There is such a function, and its values are the words of the pattern.  *)
LEMMA ExpectedExists ==
  ASSUME SeedInv, ~ OneByte, NEW n \in Nat
  PROVE  \E e : Expected(e, n)
<1> DEFINE e == [k \in 0 .. n |-> PatternWord(k)]
<1>1. ASSUME NEW k \in 0 .. n
      PROVE  e[k] = IF k = 0 THEN cfg.seed ELSE GetNextPattern(e[k - 1])
  <2>1. CASE k = 0
    BY <2>1, FirstWord
  <2>2. CASE k # 0
    <3>1. k - 1 \in Nat /\ k - 1 \in 0 .. n /\ (k - 1) + 1 = k
      BY <2>2
    <3>2. GetNextPattern(PatternWord(k - 1)) = PatternWord(k)
      BY <3>1, NextWord
    <3>3. e[k] = PatternWord(k) /\ e[k - 1] = PatternWord(k - 1)
      BY <3>1
    <3> HIDE DEF e
    <3> QED BY <2>2, <3>2, <3>3
  <2> QED BY <2>1, <2>2
<1>2. Expected(e, n)
  BY <1>1 DEF Expected
<1> QED BY <1>2

LEMMA ExpectedValues ==
  ASSUME SeedInv, ~ OneByte, NEW n \in Nat, NEW e, Expected(e, n)
  PROVE  \A k \in 0 .. n : e[k] = PatternWord(k)
<1> DEFINE right == {k \in Nat : k <= n => e[k] = PatternWord(k)}
<1>0. /\ e[0] = cfg.seed
      /\ \A k \in 1 .. n : e[k] = GetNextPattern(e[k - 1])
  BY DEF Expected
<1>1. 0 \in right
  BY <1>0, FirstWord
<1>2. ASSUME NEW k \in Nat, k \in right
      PROVE  k + 1 \in right
  <2> SUFFICES ASSUME k + 1 <= n PROVE e[k + 1] = PatternWord(k + 1)
    OBVIOUS
  <2>1. k + 1 \in 1 .. n /\ (k + 1) - 1 = k /\ e[k] = PatternWord(k)
    BY <1>2
  <2>2. e[k + 1] = GetNextPattern(e[(k + 1) - 1])
    BY <1>0, <2>1
  <2> QED BY <2>1, <2>2, NextWord
<1> HIDE DEF right
<1>3. Nat \subseteq right
  BY <1>1, <1>2, SetInduction
<1> QED BY <1>3 DEF right

(* What is compared, word for word.                                        *)
Compared(offset, first, left) ==
  /\ \A k \in 0 .. first - 1 : BufferWord(offset + 4 * k) = PatternWord(k)
  /\ \A k \in 0 .. left - 1 : BufferWord(4 * k) = PatternWord(first + k)

LEMMA MatchesCompares ==
  ASSUME SeedInv, ~ OneByte, NEW offset, NEW length, NEW first \in Nat, NEW left \in Nat,
         first = CmpLen(offset, length),
         left = IF first > 0 THEN LeftToDo(offset, length) ELSE 0
  PROVE  Matches(offset, length) <=> Compared(offset, first, left)
<1> DEFINE e == CHOOSE f : Expected(f, first + left)
<1>1. Matches(offset, length) <=>
        /\ \A k \in 0 .. first - 1 : BufferWord(offset + 4 * k) = e[k]
        /\ \A k \in 0 .. left - 1 : BufferWord(4 * k) = e[first + k]
  BY DEF Matches, Expected
<1>2. first + left \in Nat
  OBVIOUS
<1>3. Expected(e, first + left)
  BY <1>2, ExpectedExists
<1> HIDE DEF e
<1>4. \A k \in 0 .. first + left : e[k] = PatternWord(k)
  BY <1>2, <1>3, ExpectedValues
<1>5. /\ \A k \in 0 .. first - 1 : e[k] = PatternWord(k)
      /\ \A k \in 0 .. left - 1 : e[first + k] = PatternWord(first + k)
  BY <1>4
<1> QED BY <1>1, <1>5 DEF Compared

(* A word of a packet is that of the buffer, before the end and after it.  *)
LEMMA WordBefore ==
  ASSUME allocSize \in Nat, NEW offset \in Nat, NEW k \in Nat,
         offset + 4 * k + 4 <= allocSize
  PROVE  PacketWord(data, offset, k) = BufferWord(offset + 4 * k)
<1>1. PICK p : p = offset + 4 * k
  OBVIOUS
<1>2. p \in Nat /\ p + 3 < allocSize
  BY <1>1
<1>3. /\ (p + 0) % allocSize = p /\ (p + 1) % allocSize = p + 1
      /\ (p + 2) % allocSize = p + 2 /\ (p + 3) % allocSize = p + 3
  BY <1>2, ModSmall
<1> QED BY <1>1, <1>3 DEF PacketWord, BufferWord

LEMMA WordAfter ==
  ASSUME allocSize \in Nat, NEW offset \in Nat, NEW k \in Nat, NEW m \in Nat,
         offset + 4 * k = allocSize + 4 * m, 4 * m + 4 <= allocSize
  PROVE  PacketWord(data, offset, k) = BufferWord(4 * m)
<1>1. PICK p, q : p = offset + 4 * k /\ q = 4 * m
  OBVIOUS
<1>2. p \in Nat /\ q \in Nat /\ p = allocSize + q /\ q + 3 < allocSize
  BY <1>1
<1>3. /\ (p + 0) % allocSize = q /\ (p + 1) % allocSize = q + 1
      /\ (p + 2) % allocSize = q + 2 /\ (p + 3) % allocSize = q + 3
  <2>1. \A j \in 0 .. 3 : p + j \in allocSize .. 2 * allocSize - 1 /\ (p + j) - allocSize = q + j
    BY <1>2
  <2>2. \A j \in 0 .. 3 : (p + j) % allocSize = (p + j) - allocSize
    <3> TAKE j \in 0 .. 3
    <3>1. PICK n : n = p + j
      OBVIOUS
    <3>2. n \in allocSize .. 2 * allocSize - 1 /\ allocSize \in Nat \ {0}
      BY <1>2, <2>1, <3>1
    <3> QED BY <3>1, <3>2, ModOnce
  <2> QED BY <1>2, <2>1, <2>2
<1> QED BY <1>1, <1>3 DEF PacketWord, BufferWord

(* All words of a packet are compared, each with its word of the pattern.  *)
LEMMA MatchesRight ==
  ASSUME SeedInv, ~ OneByte, allocSize \in Nat, allocSize % 4 = 0,
         NEW offset \in 0 .. allocSize - 1, offset % 4 = 0,
         NEW length \in 1 .. allocSize
  PROVE  Matches(offset, length) <=>
           \A k \in 0 .. (length \div 4) - 1 : PacketWord(data, offset, k) = PatternWord(k)
<1>0. offset \in Nat /\ length \in Nat /\ allocSize - offset \in Nat
  OBVIOUS
<1>1. PICK whole : whole = length \div 4
  OBVIOUS
<1>2. whole \in Nat /\ 4 * whole <= length /\ length < 4 * whole + 4
  BY <1>0, <1>1
<1>3. CASE offset + length <= allocSize
  <2>1. CmpLen(offset, length) = whole /\ LeftToDo(offset, length) = 0
    BY <1>0, <1>1, <1>3 DEF CmpLen, LeftToDo
  <2>2. Matches(offset, length) <=> Compared(offset, whole, 0)
    BY <1>2, <2>1, MatchesCompares
  <2>3. ASSUME NEW k \in 0 .. whole - 1
        PROVE  PacketWord(data, offset, k) = BufferWord(offset + 4 * k)
    <3>1. k \in Nat /\ offset + 4 * k + 4 <= allocSize
      BY <1>2, <1>3
    <3> QED BY <1>0, <3>1, WordBefore
  <2> QED BY <1>1, <2>2, <2>3 DEF Compared
<1>4. CASE offset + length > allocSize
  <2>1. PICK first, left : /\ first = (allocSize - offset) \div 4
                           /\ left = (length - (allocSize - offset)) \div 4
    OBVIOUS
  <2>2. first \in Nat /\ left \in Nat /\ allocSize = offset + 4 * first
    BY <1>0, <1>4, <2>1
  <2>3. first > 0 /\ whole = first + left
    BY <1>1, <1>4, <2>1, <2>2
  <2>4. 4 * left <= length - 4 * first
    BY <1>4, <2>1, <2>2
  <2>5. CmpLen(offset, length) = first /\ LeftToDo(offset, length) = left
    BY <1>4, <2>1 DEF CmpLen, LeftToDo
  <2>6. Matches(offset, length) <=> Compared(offset, first, left)
    BY <2>2, <2>3, <2>5, MatchesCompares
  <2>7. ASSUME NEW k \in 0 .. first - 1
        PROVE  PacketWord(data, offset, k) = BufferWord(offset + 4 * k)
    <3>1. k \in Nat /\ offset + 4 * k + 4 <= allocSize
      BY <2>2
    <3> QED BY <1>0, <3>1, WordBefore
  <2>8. ASSUME NEW k \in 0 .. left - 1
        PROVE  PacketWord(data, offset, first + k) = BufferWord(4 * k)
    <3>1. /\ k \in Nat /\ first + k \in Nat
          /\ offset + 4 * (first + k) = allocSize + 4 * k
          /\ 4 * k + 4 <= allocSize
      BY <2>2, <2>4
    <3> QED BY <1>0, <3>1, WordAfter
  <2>9. ASSUME Compared(offset, first, left), NEW k \in 0 .. whole - 1
        PROVE  PacketWord(data, offset, k) = PatternWord(k)
    <3>1. CASE k < first
      <4>1. k \in 0 .. first - 1
        BY <2>2, <3>1
      <4> QED BY <2>7, <2>9, <4>1 DEF Compared
    <3>2. CASE k >= first
      <4>1. PICK m : m = k - first
        OBVIOUS
      <4>2. m \in 0 .. left - 1 /\ k = first + m
        BY <2>2, <2>3, <3>2, <4>1
      <4> QED BY <2>8, <2>9, <4>2 DEF Compared
    <3> QED BY <2>2, <3>1, <3>2
  <2>10. ASSUME \A k \in 0 .. whole - 1 : PacketWord(data, offset, k) = PatternWord(k)
         PROVE  Compared(offset, first, left)
    <3>1. /\ \A k \in 0 .. first - 1 : k \in 0 .. whole - 1
          /\ \A k \in 0 .. left - 1 : first + k \in 0 .. whole - 1
      BY <2>2, <2>3
    <3> QED BY <2>7, <2>8, <2>10, <3>1 DEF Compared
  <2> QED BY <1>1, <2>6, <2>9, <2>10
<1> QED BY <1>0, <1>3, <1>4

-----------------------------------------------------------------------------
(* Until a packet arrives, a buffer with a pattern is as it was filled.    *)
PatternInv ==
  (phase = "ready" \/ Transferring) /\ patternOn /\ cfg.pattern # "random" =>
    \E r \in RandomBytes : data = Filled(allocSize, r)

BInv == BTypeInv /\ PatternInv /\ VerdictIsRight

LEMMA PatternStep ==
  ASSUME BTypeInv, PatternInv, [Next]_bvars
  PROVE  PatternInv'
<1>1. CASE BufferAllocAndSet
  <2> SUFFICES ASSUME patternOn', cfg.pattern # "random"
               PROVE  (\E r \in RandomBytes : data = Filled(allocSize, r))'
    BY <1>1 DEF BufferAllocAndSet, PatternInv, Transferring
  <2>1. PICK r \in RandomBytes : data' = Filled(allocSize', r)
    BY <1>1 DEF BufferAllocAndSet
  <2>2. (data = Filled(allocSize, r))'
    BY <1>1, <2>1 DEF BufferAllocAndSet, Filled, FillWord
  <2> QED BY <2>2
<1>2. CASE phase \in {"ready", "first", "prepared"}
           /\ UNCHANGED <<cfg, patternOn, allocSize>>
           /\ (cfg.pattern # "random" => data' = data)
  <2> SUFFICES ASSUME patternOn', cfg.pattern # "random"
               PROVE  (\E r \in RandomBytes : data = Filled(allocSize, r))'
    BY <1>2 DEF PatternInv, Transferring
  <2>1. PICK r \in RandomBytes : data = Filled(allocSize, r)
    BY <1>2 DEF PatternInv, Transferring
  <2>2. (data = Filled(allocSize, r))'
    BY <1>2, <2>1 DEF Filled, FillWord
  <2> QED BY <2>2
<1>3. CASE phase' \notin {"ready", "first", "prepared"}
  BY <1>3 DEF PatternInv, Transferring
<1>4. \/ BufferAllocAndSet
      \/ phase' \notin {"ready", "first", "prepared"}
      \/ /\ phase \in {"ready", "first", "prepared"}
         /\ UNCHANGED <<cfg, patternOn, allocSize>>
         /\ (cfg.pattern # "random" => data' = data)
  BY DEF Next, SetSizes, DmaSizes, LoopSizes, FifoSizes, NoBuffer, AllocReceive,
    FirstTransfer, PrepareTransfer, Receive, ValidateDataBuffer, bvars, flags
<1> QED BY <1>1, <1>2, <1>3, <1>4

LEMMA VerdictStep ==
  ASSUME BTypeInv, VerdictIsRight, [Next]_bvars
  PROVE  VerdictIsRight'
<1>1. CASE ValidateDataBuffer
  <2>1. /\ verdict' = (~checking \/ Matches(packet.offset, packet.length))
        /\ phase = "packet" /\ UNCHANGED <<cfg, checking, allocSize, data, packet>>
    BY <1>1 DEF ValidateDataBuffer, flags
  <2>2. ASSUME SeedSize(cfg.seed) = 4
        PROVE  Matches(packet.offset, packet.length) <=>
                 \A k \in 0 .. (packet.length \div 4) - 1 :
                   PacketWord(data, packet.offset, k) = PatternWord(k)
    <3>1. SeedInv /\ ~ OneByte
      BY <2>2, Seeds DEF BTypeInv
    <3>2. /\ allocSize \in Nat /\ allocSize % 4 = 0
          /\ packet.offset \in 0 .. allocSize - 1 /\ packet.offset % 4 = 0
          /\ packet.length \in 1 .. allocSize
      BY <2>1, UnitFits
        DEF BTypeInv, SizeInv, SizesInv, SizeRange, TargetInv, PacketInv
    <3> QED BY <3>1, <3>2, MatchesRight
  <2>3. \A k : PacketWord(data, packet.offset, k)' = PacketWord(data, packet.offset, k)
               /\ PatternWord(k)' = PatternWord(k)
    BY <2>1 DEF PacketWord, PatternWord
  <2> QED BY <2>1, <2>2, <2>3 DEF VerdictIsRight
<1>2. CASE UNCHANGED bvars
  <2>1. UNCHANGED <<phase, verdict, cfg, checking, allocSize, data, packet>>
    BY <1>2 DEF bvars, flags, judgement
  <2>2. \A k : PacketWord(data, packet.offset, k)' = PacketWord(data, packet.offset, k)
               /\ PatternWord(k)' = PatternWord(k)
    BY <2>1 DEF PacketWord, PatternWord
  <2> QED BY <2>1, <2>2 DEF VerdictIsRight
<1>3. CASE phase' # "judged"
  BY <1>3 DEF VerdictIsRight
<1>4. ValidateDataBuffer \/ UNCHANGED bvars \/ phase' # "judged"
  BY DEF Next, SetSizes, DmaSizes, LoopSizes, FifoSizes, NoBuffer, AllocReceive,
    BufferAllocAndSet, FirstTransfer, PrepareTransfer, Receive
<1> QED BY <1>1, <1>2, <1>3, <1>4

LEMMA BuffersInvariant == BSpec => []BInv
<1>1. Init => BInv
  <2>1. Init => PatternInv /\ VerdictIsRight
    BY DEF Init, PatternInv, Transferring, VerdictIsRight
  <2> QED BY <2>1, InitTypes DEF BInv
<1>2. BInv /\ [Next]_bvars => BInv'
  BY TypesStep, PatternStep, VerdictStep DEF BInv
<1> QED BY <1>1, <1>2, PTL DEF BSpec

(* For every seed, width and size: each byte a write sends is the one of   *)
(* the pattern at its place.                                               *)
THEOREM PatternsSent == BSpec => []SentIsPattern
<1>1. BInv => SentIsPattern
  <2> SUFFICES ASSUME BInv, phase = "ready" \/ Transferring, patternOn,
                      cfg.pattern # "random", NEW b \in 0 .. allocSize - 1
               PROVE  data[b] = PatternByte(b)
    BY DEF SentIsPattern
  <2>1. PICK r \in RandomBytes : data = Filled(allocSize, r)
    BY DEF BInv, PatternInv
  <2>2. data[b] = Byte(FillWord(b \div 4), b % 4)
    BY <2>1 DEF Filled
  <2>3. b \in Nat /\ SeedInv
    BY DEF BInv, BTypeInv
  <2> QED BY <2>2, <2>3, FilledBytes
<1> QED BY <1>1, BuffersInvariant, PTL

(* For every ring, offset, length and seed of a whole word: a packet is    *)
(* found good exactly if all its whole words are those of the pattern.     *)
THEOREM VerdictsRight == BSpec => []VerdictIsRight
BY BuffersInvariant, PTL DEF BInv

=============================================================================
