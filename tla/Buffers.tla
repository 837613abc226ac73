------------------------------ MODULE Buffers ------------------------------
(***************************************************************************)
(* A buffer of a test, from the sizes on the command line to the transfers *)
(* and packets: how the commands set BufferSize and MaxTransferSize, what  *)
(* BufferAllocAndSet allocates and fills, what PrepareTransfer makes of    *)
(* each transfer and what ValidateDataBuffer says of a received packet.    *)
(* The widths are constants, so that wraps happen at small numbers: sizes  *)
(* are UINT32s modulo SizeMod, bytes are modulo ByteMod, and a word has    *)
(* four bytes, the lowest first.                                           *)
(***************************************************************************)
EXTENDS Integers

CONSTANTS
  SizeMod,       \* 2^32
  ByteMod,       \* 2^8
  AllocUnit,     \* 1024
  LargeSize,     \* 0x7FFFFFFF
  MaxCardOffset, \* DEFAULT_MAX_CARD_OFFSET
  DmaSize,       \* DEFAULT_MAX_TRANSFER_SIZE
  LoopSize,      \* DEFAULT_DMA_LENGTH
  LoopBuffer,    \* DEFAULT_BUFFER_SIZE
  FifoSize,      \* DEFAULT_STRESS_DMA_LENGTH
  PerBuffer,     \* 16, packets a FIFO test wants room for
  SizeChoices,   \* sizes the user may give
  CardChoices,   \* card addresses the user may give
  SeedChoices,   \* seeds the user may give
  RandomBytes,   \* bytes rand() may give
  StackWords     \* what a variable that was never set may hold

ASSUME WidthAssumption ==
  /\ AllocUnit \in Nat \ {0} /\ AllocUnit % 4 = 0
  /\ SizeMod \in Nat \ {0} /\ SizeMod % AllocUnit = 0
  /\ ByteMod \in Nat \ {0} /\ LargeSize \in 0 .. SizeMod - 1
  /\ MaxCardOffset \in 1 .. SizeMod - 1
  /\ SizeChoices \subseteq 0 .. SizeMod - 1
  /\ RandomBytes \subseteq 0 .. ByteMod - 1

ASSUME DefaultsAssumption ==
  /\ {DmaSize, LoopSize, LoopBuffer, FifoSize} \subseteq 0 .. SizeMod - 1
  /\ LoopSize <= LoopBuffer
  /\ PerBuffer \in Nat
  /\ CardChoices \subseteq Nat /\ StackWords \subseteq Nat

VARIABLES
  cfg,          \* platform, command and options: writing is WriteDirection
  phase,        \* "size", "recv", "alloc", "ready", "first", "prepared",
                \* "packet", "judged", "failed"
  bufferSize,   \* pcfgParams->BufferSize
  maxTransfer,  \* MaxTransferSize
  patternOn,    \* pcfgParams->bPatternSpecified
  checking,     \* params->bPatternSpecified
  recvSize,     \* AllocSize of the loopback test's receive buffer
  allocSize,    \* AllocSize
  data,         \* the bytes of the buffer
  cardOffset,   \* CardOffset
  transferSize, \* TransferSize
  os,           \* the address on the card that the device is given
  packet,       \* offset and length of the packet received last
  verdict       \* what ValidateDataBuffer said of it

sizes == <<bufferSize, maxTransfer>>
flags == <<patternOn, checking>>
target == <<cardOffset, transferSize, os>>
judgement == <<packet, verdict>>
bvars == <<cfg, phase, sizes, flags, recvSize, allocSize, data, target, judgement>>

(* The options are set; -p sets both the pattern and bPatternSpecified.    *)
(* Only the workers of a DMA test differ between the platforms.            *)
Init ==
  /\ cfg \in [windows: BOOLEAN, command: {"dma", "loopback", "fifo"},
              randomize: BOOLEAN, addressFifo: BOOLEAN, writing: BOOLEAN,
              cardMax: CardChoices,
              pattern: {"incrementing", "specified", "random"}, seed: SeedChoices]
  /\ cfg.command # "dma" => cfg.windows
  /\ cfg.command = "loopback" => cfg.writing
  /\ cfg.command = "fifo" => cfg.cardMax = 0 /\ ~cfg.writing /\ ~cfg.addressFifo
                               /\ ~cfg.randomize
  /\ patternOn \in BOOLEAN /\ (~patternOn => cfg.pattern = "incrementing")
  /\ phase = "size"
  /\ bufferSize = 0 /\ maxTransfer = 0
  /\ checking = FALSE
  /\ recvSize = 0 /\ allocSize = 0
  /\ data = <<>>
  /\ cardOffset = 0 /\ transferSize = 0 /\ os = 0
  /\ packet = [offset |-> 0, length |-> 0]
  /\ verdict = TRUE

-----------------------------------------------------------------------------
(* The sizes each command works with, and the copy InitThreadParams makes  *)
(* of the flag.                                                            *)

Sized(buffer, max) ==
  /\ bufferSize' = buffer
  /\ maxTransfer' = max

(* WriteDMA and ReadDMA.                                                   *)
DmaSizes ==
  /\ cfg.command = "dma"
  /\ \E size \in SizeChoices \cup {DmaSize} : Sized(size, size)
  /\ phase' = "alloc"
  /\ checking' = patternOn
  /\ UNCHANGED patternOn

(* WriteReadDMA.                                                           *)
LoopSizes ==
  /\ cfg.command = "loopback"
  /\ \/ Sized(LoopBuffer, LoopSize)
     \/ \E size \in SizeChoices : Sized(size, size)
  /\ phase' = "recv"
  /\ checking' = patternOn
  /\ UNCHANGED patternOn

(* FIFOC2S makes room for PerBuffer packets, and has no random pattern.    *)
FifoSizes ==
  /\ cfg.command = "fifo"
  /\ \E max \in SizeChoices \cup {FifoSize}, buffer \in SizeChoices \cup {DmaSize} :
       LET room == (max * PerBuffer) % SizeMod
       IN  Sized(IF room > buffer THEN room ELSE buffer, max)
  /\ phase' = "alloc"
  /\ patternOn' = (patternOn /\ cfg.pattern # "random")
  /\ checking' = patternOn'

SetSizes ==
  /\ phase = "size"
  /\ DmaSizes \/ LoopSizes \/ FifoSizes
  /\ UNCHANGED <<cfg, recvSize, allocSize, data, target, judgement>>

-----------------------------------------------------------------------------
(* Words and patterns.                                                     *)

WordMod == ByteMod * ByteMod * ByteMod * ByteMod

(* A seed is a UINT32.                                                     *)
ASSUME SeedsAssumption == SeedChoices \subseteq 0 .. WordMod - 1

(* Byte j of a word, j in 0 .. 3.                                          *)
Byte(w, j) == (w \div <<1, ByteMod, ByteMod * ByteMod,
                        ByteMod * ByteMod * ByteMod>>[j + 1]) % ByteMod

WordOf(b0, b1, b2, b3) ==
  b0 + ByteMod * (b1 + ByteMod * (b2 + ByteMod * b3))

(* SetDataSeed: one byte or a whole word.                                  *)
SeedSize(seed) == IF seed < ByteMod THEN 1 ELSE 4

(* Mutant: a one-byte seed is advanced by one for each word.               *)
FillWordByOne(t) ==
  IF cfg.pattern = "incrementing" /\ SeedSize(cfg.seed) = 1
  THEN LET s == cfg.seed + t
       IN  WordOf(s % ByteMod, (s + 1) % ByteMod, (s + 2) % ByteMod, (s + 3) % ByteMod)
  ELSE (cfg.seed + IF cfg.pattern = "specified" THEN 0 ELSE t) % WordMod

(* Word t of the fill; seed is advanced by 4 or by 1 for each word.        *)
FillWord(t) ==
  IF cfg.pattern = "specified"
  THEN IF SeedSize(cfg.seed) = 1
       THEN WordOf(cfg.seed, cfg.seed, cfg.seed, cfg.seed)
       ELSE cfg.seed
  ELSE IF SeedSize(cfg.seed) = 1
       THEN LET s == cfg.seed + 4 * t
            IN  WordOf(s % ByteMod, (s + 1) % ByteMod, (s + 2) % ByteMod,
                       (s + 3) % ByteMod)
       ELSE (cfg.seed + t) % WordMod

(* A random fill has a zero low half in each word.                         *)
Filled(size, r) ==
  [b \in 0 .. size - 1 |->
     IF cfg.pattern = "random" THEN IF b % 4 >= 2 THEN r ELSE 0
     ELSE Byte(FillWord(b \div 4), b % 4)]

(* GetNextPattern.  With one byte, the second is a sequence number.        *)
GetNextPattern(w) ==
  IF cfg.pattern = "specified" THEN w
  ELSE IF SeedSize(cfg.seed) = 1
       THEN LET number == (Byte(w, 1) + 4) % ByteMod
            IN  WordOf((Byte(w, 0) + 4) % ByteMod, number, number, number)
       ELSE (w + 1) % WordMod

-----------------------------------------------------------------------------
(* BufferAllocAndSet.                                                      *)

(* Mutant: the sum is not a UINT32.                                        *)
RoundedWide(size) ==
  LET sum == size + AllocUnit - 1
  IN  sum - (sum % AllocUnit)

(* Mutant: the buffer is a multiple that is no larger than the size.       *)
RoundedDown(size) == size - (size % AllocUnit)

(* (size + 1023) & -1024                                                   *)
Rounded(size) ==
  LET sum == (size + AllocUnit - 1) % SizeMod
  IN  sum - (sum % AllocUnit)

NoBuffer ==
  /\ phase \in {"recv", "alloc"}
  /\ phase' = "failed"
  /\ UNCHANGED <<cfg, sizes, flags, recvSize, allocSize, data, target, judgement>>

(* The receive buffer of WriteReadDMA; the send buffer is as large as one  *)
(* transfer.                                                               *)
AllocReceive ==
  /\ phase = "recv"
  /\ Rounded(bufferSize) # 0
  /\ recvSize' = Rounded(bufferSize)
  /\ patternOn' = (patternOn /\ recvSize' <= LargeSize)
  /\ bufferSize' = maxTransfer
  /\ phase' = "alloc"
  /\ UNCHANGED <<cfg, maxTransfer, checking, allocSize, data, target, judgement>>

BufferAllocAndSet ==
  /\ phase = "alloc"
  /\ Rounded(bufferSize) # 0
  /\ allocSize' = Rounded(bufferSize)
  /\ patternOn' = (patternOn /\ allocSize' <= LargeSize)
  /\ \E r \in RandomBytes :
       data' = IF patternOn' THEN Filled(allocSize', r)
               ELSE [b \in 0 .. allocSize' - 1 |-> 0]
  /\ transferSize' = bufferSize
  /\ phase' = "ready"
  /\ UNCHANGED <<cfg, sizes, checking, recvSize, cardOffset, os, judgement>>

-----------------------------------------------------------------------------
(* The first transfer of a Linux DMA worker, and PrepareTransfer.          *)

(* The Linux worker prepares a transfer after each one it has made.        *)
StartsUnprepared == cfg.command = "dma" /\ ~cfg.windows

(* Its first one has the whole size whatever the options, and goes to an   *)
(* address that nobody has set.                                            *)
FirstTransfer ==
  /\ phase = "ready" /\ StartsUnprepared
  /\ phase' = "first"
  /\ cardOffset' = cfg.cardMax
  /\ os' \in StackWords
  /\ UNCHANGED <<cfg, sizes, flags, recvSize, allocSize, data, transferSize, judgement>>

RandomOffsets(max) == IF max = 0 THEN {0} ELSE 0 .. max - 1

(* Mutant: the transfer may go beyond the card's memory.                   *)
NotClipped(offset, size) == size

(* A random transfer ends at the end of the card's memory at the latest.   *)
Clipped(offset, size) ==
  IF offset + size > MaxCardOffset THEN (MaxCardOffset - offset) % SizeMod ELSE size

ChooseTarget ==
  IF ~cfg.randomize
  THEN transferSize' = maxTransfer /\ cardOffset' = cfg.cardMax
  ELSE \E size \in 1 .. maxTransfer :
         IF cfg.addressFifo
         THEN transferSize' = size /\ cardOffset' = cfg.cardMax
         ELSE \E offset \in RandomOffsets(cfg.cardMax) :
                /\ cardOffset' = offset
                /\ transferSize' = Clipped(offset, size)

(* WriteRandomBuffer writes random bytes, of which one stands for all.     *)
PrepareTransfer ==
  /\ cfg.command # "fifo"
  /\ phase \in {"first", "prepared"} \/ (phase = "ready" /\ ~StartsUnprepared)
  /\ phase' = "prepared"
  /\ ChooseTarget
  /\ os' = cardOffset'
  /\ IF cfg.pattern = "random" /\ cfg.writing
     THEN \E r \in RandomBytes :
            data' = [b \in 0 .. allocSize - 1 |-> IF b < transferSize' THEN r ELSE data[b]]
     ELSE UNCHANGED data
  /\ UNCHANGED <<cfg, sizes, flags, recvSize, allocSize, judgement>>

-----------------------------------------------------------------------------
(* Packets.                                                                *)

(* Word k of a packet at an offset, which may go around the end.           *)
PacketWord(d, offset, k) ==
  LET at(j) == d[(offset + 4 * k + j) % allocSize]
  IN  WordOf(at(0), at(1), at(2), at(3))

(* The pattern that the options ask for and the board generates: from a    *)
(* whole word it counts words, from one byte it counts bytes, and a        *)
(* specified one repeats.  (For a specified byte that is what the fill     *)
(* does; whether the board repeats the byte or a word is not to be seen.)  *)
PatternWord(k) ==
  (cfg.seed + IF cfg.pattern = "specified" THEN 0 ELSE k) % WordMod

PatternByte(b) ==
  IF SeedSize(cfg.seed) = 4
  THEN Byte(PatternWord(b \div 4), b % 4)
  ELSE (cfg.seed + IF cfg.pattern = "specified" THEN 0 ELSE b) % ByteMod

(* The board puts a packet into the ring: the pattern, but with a byte     *)
(* that differs if bad is one of the packet.  One packet is enough: the    *)
(* next is compared with the same pattern from its start.                  *)
Receive ==
  /\ phase = "ready" /\ cfg.command = "fifo"
  /\ \E o \in 0 .. (allocSize \div 4) - 1, length \in 1 .. allocSize :
     \E bad \in -1 .. length - 1 :
       /\ packet' = [offset |-> 4 * o, length |-> length]
       /\ data' = [b \in 0 .. allocSize - 1 |->
            LET n == (b - 4 * o) % allocSize IN
              IF n >= length THEN data[b]
              ELSE (PatternByte(n) + (IF n = bad THEN 1 ELSE 0)) % ByteMod]
  /\ phase' = "packet"
  /\ UNCHANGED <<cfg, sizes, flags, recvSize, allocSize, target, verdict>>

(* The words that are compared before the end of the buffer, and after it. *)
CmpLen(offset, length) ==
  (IF offset + length > allocSize THEN allocSize - offset ELSE length) \div 4

(* Mutant: what goes around the end is not compared.                       *)
LeftToDoNone(offset, length) == 0

LeftToDo(offset, length) ==
  IF offset + length > allocSize THEN (length - (allocSize - offset)) \div 4 ELSE 0

(* The word at byte p of the buffer.                                       *)
BufferWord(p) == WordOf(data[p], data[p + 1], data[p + 2], data[p + 3])

(* The comparison goes on with the pattern where it was at the end; the    *)
(* break with -e comes after the result is known.                          *)
Matches(offset, length) ==
  LET first == CmpLen(offset, length)
      left == IF first > 0 THEN LeftToDo(offset, length) ELSE 0
      expected[k \in 0 .. first + left] ==
        IF k = 0 THEN cfg.seed ELSE GetNextPattern(expected[k - 1])
  IN  /\ \A k \in 0 .. first - 1 : BufferWord(offset + 4 * k) = expected[k]
      /\ \A k \in 0 .. left - 1 : BufferWord(4 * k) = expected[first + k]

ValidateDataBuffer ==
  /\ phase = "packet"
  /\ verdict' = (~checking \/ Matches(packet.offset, packet.length))
  /\ phase' = "judged"
  /\ UNCHANGED <<cfg, sizes, flags, recvSize, allocSize, data, target, packet>>

Next ==
  \/ SetSizes \/ NoBuffer \/ AllocReceive \/ BufferAllocAndSet
  \/ FirstTransfer \/ PrepareTransfer \/ Receive \/ ValidateDataBuffer

BSpec == Init /\ [][Next]_bvars

-----------------------------------------------------------------------------
BTypeOK ==
  /\ phase \in {"size", "recv", "alloc", "ready", "first", "prepared", "packet",
                "judged", "failed"}
  /\ bufferSize \in 0 .. SizeMod - 1 /\ maxTransfer \in 0 .. SizeMod - 1
  /\ patternOn \in BOOLEAN /\ checking \in BOOLEAN /\ verdict \in BOOLEAN
  /\ recvSize \in 0 .. SizeMod - 1
  /\ allocSize \in 0 .. SizeMod - 1 /\ allocSize % 4 = 0
  /\ data = <<>> \/ data \in [0 .. allocSize - 1 -> 0 .. ByteMod - 1]
  /\ cardOffset \in Nat /\ os \in Nat /\ transferSize \in 0 .. SizeMod - 1
  /\ packet.offset \in 0 .. SizeMod - 1 /\ packet.length \in 0 .. SizeMod - 1

(* A transfer is under way.                                                *)
Transferring == phase \in {"first", "prepared"}

(* PrepareTransfer clipped it to the memory of the card.                   *)
Clips == phase = "prepared" /\ cfg.randomize /\ ~cfg.addressFifo

(* Every transfer moves at least a byte and lies within the buffers of the *)
(* test, the size of a buffer having been rounded and wrapped and that of  *)
(* a transfer clipped in between; a clipped one, from the address that the *)
(* device is given, lies within the memory of the card too.  The first one *)
(* of a Linux worker is neither clipped nor aimed, with or without -r.  A  *)
(* card address beyond the card's memory is only harmless without -r: what *)
(* is left of the memory wraps, and the size has nothing to do with the    *)
(* buffer.                                                                 *)
TransferFits ==
  Transferring /\ (Clips => cfg.cardMax <= MaxCardOffset) =>
    /\ transferSize \in 1 .. allocSize
    /\ cfg.command = "loopback" => transferSize <= recvSize
    /\ Clips => os + transferSize <= MaxCardOffset

(* A FIFO test has room for PerBuffer packets, if that many have a size at *)
(* all: from 2^28 bytes a packet on, 16 of them wrap around.               *)
RoomForPackets ==
  phase \in {"ready", "packet", "judged"} /\ cfg.command = "fifo"
    /\ maxTransfer * PerBuffer < SizeMod
    => allocSize >= maxTransfer * PerBuffer

(* What a write sends is the pattern that was asked for: each byte of the  *)
(* buffer is the one of the pattern, the seed's carries and wraps included.*)
SentIsPattern ==
  (phase = "ready" \/ Transferring) /\ patternOn /\ cfg.pattern # "random" =>
    \A b \in 0 .. allocSize - 1 : data[b] = PatternByte(b)

(* With a seed of a whole word, a packet is found good exactly if all its  *)
(* whole words are those of the pattern, wherever it goes around the end   *)
(* of the buffer.                                                          *)
VerdictIsRight ==
  phase = "judged" /\ checking /\ SeedSize(cfg.seed) = 4 =>
    (verdict <=>
       \A k \in 0 .. (packet.length \div 4) - 1 :
         PacketWord(data, packet.offset, k) = PatternWord(k))

(* A packet that holds the incrementing pattern is found good, whatever    *)
(* the seed, as ValidateDataBuffer says of itself.  With a seed of one byte it is not:  *)
(* the validation expects words of which one byte counts and three hold    *)
(* another number.                                                         *)
PatternIsAccepted ==
  phase = "judged" /\ checking /\ cfg.pattern = "incrementing"
    /\ (\A n \in 0 .. packet.length - 1 :
          data[(packet.offset + n) % allocSize] = PatternByte(n))
    => verdict

=============================================================================
