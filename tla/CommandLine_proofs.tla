------------------------- MODULE CommandLine_proofs -------------------------
(***************************************************************************)
(* Theorems about the command line: of the commands that access registers  *)
(* and memory (Registers), for every width of the integers, every data and *)
(* every length, and of the scan of the options (Options), for every table *)
(* and every line.                                                         *)
(***************************************************************************)
EXTENDS CommandLine, NaturalLemmas, SequenceTheorems

LEMMA TextLength ==
  ASSUME NEW S, NEW m \in Nat, NEW text \in [1 .. m -> S]
  PROVE  text \in Seq(S) /\ Len(text) = m /\ DOMAIN text = 1 .. m
<1>1. text \in Seq(S)
  BY SeqDef
<1>2. Len(text) \in Nat /\ DOMAIN text = 1 .. Len(text)
  BY <1>1, LenProperties
<1>3. 1 .. Len(text) = 1 .. m
  BY <1>2
<1> QED BY <1>1, <1>2, <1>3

-----------------------------------------------------------------------------
(* The size of the buffer is a multiple of four below the modulus, and that*)
(* of a buffer which holds the length, if the mask does not cut it.        *)
LEMMA BufferSizeFits ==
  ASSUME NEW n \in Nat
  PROVE  /\ BufferSize(n) \in 0 .. SizeMod - 1
         /\ BufferSize(n) % 4 = 0
         /\ n <= SizeMod - 4 => n <= BufferSize(n)
<1> DEFINE low == (n + 3) % SizeMod
<1>1. low \in 0 .. SizeMod - 1
  BY RegistersAssumption, Division
<1>2. n <= SizeMod - 4 => low = n + 3
  BY RegistersAssumption, ModSmall
<1>3. BufferSize(n) = (low \div 4) * 4
  BY DEF BufferSize
<1> HIDE DEF low
<1> QED BY <1>1, <1>2, <1>3, RegistersAssumption

(* Where reverse_string stops is a position of the text.                   *)
LEMMA ReversedType ==
  ASSUME NEW m \in Nat, NEW bytes \in [1 .. m -> 0 .. ByteMod - 1]
  PROVE  /\ Reversed(bytes) \in [1 .. m -> 0 .. ByteMod - 1]
         /\ 0 \notin Range(bytes) =>
              \A k \in 1 .. m : Reversed(bytes)[k] = bytes[m + 1 - k]
<1> DEFINE first == CHOOSE k \in DOMAIN bytes :
                      bytes[k] = 0 /\ \A j \in 1 .. k - 1 : bytes[j] # 0
           n == IF 0 \in Range(bytes) THEN first - 1 ELSE Len(bytes)
<1>1. bytes \in Seq(0 .. ByteMod - 1) /\ Len(bytes) = m /\ DOMAIN bytes = 1 .. m
  BY TextLength
<1>2. 0 \in Range(bytes) => first \in 1 .. m
  <2> SUFFICES ASSUME 0 \in Range(bytes) PROVE first \in 1 .. m
    OBVIOUS
  <2> DEFINE zeros == {k \in 1 .. m : bytes[k] = 0}
  <2>1. zeros # {} /\ zeros \subseteq Nat
    BY <1>1 DEF Range
  <2>2. PICK k \in zeros : \A j \in zeros : k <= j
    <3> HIDE DEF zeros
    <3> QED BY <2>1, LeastNatural
  <2>3. bytes[k] = 0 /\ \A j \in 1 .. k - 1 : bytes[j] # 0
    BY <2>2
  <2> QED BY <2>3, <1>1
<1>3. n \in 0 .. m
  <2> HIDE DEF first
  <2> QED BY <1>1, <1>2
<1>4. Reversed(bytes) = [k \in DOMAIN bytes |->
                           IF k <= n THEN bytes[n + 1 - k] ELSE bytes[k]]
  BY DEF Reversed
<1>5. 0 \notin Range(bytes) => n = m
  BY <1>1
<1> HIDE DEF n
<1>6. \A k \in 1 .. m : bytes[k] \in 0 .. ByteMod - 1
  OBVIOUS
<1>7. ASSUME NEW k \in 1 .. m
      PROVE  (IF k <= n THEN bytes[n + 1 - k] ELSE bytes[k]) \in 0 .. ByteMod - 1
  <2>1. k <= n => n + 1 - k \in 1 .. m
    BY <1>3
  <2> QED BY <2>1, <1>6
<1>8. Reversed(bytes) = [k \in 1 .. m |->
                           IF k <= n THEN bytes[n + 1 - k] ELSE bytes[k]]
  BY <1>1, <1>4
<1> QED BY <1>5, <1>7, <1>8

LEMMA FragmentsType ==
  ASSUME NEW n \in Nat \ {0}, length \in Nat
  PROVE  Fragments(n) \in Int
<1>1. ASSUME NEW m \in Nat \ {0}
      PROVE  ((length - n) % m) \div n \in Nat
  BY Division
<1> QED BY <1>1, RegistersAssumption DEF Fragments

(* The number of copies of n bytes that follow the first one: as many as   *)
(* Length has room for, none if the number is not an INT32.                *)
LEMMA CopiesFit ==
  ASSUME NEW n \in Nat \ {0}, length \in Nat, length < LongMod, n <= length,
         command \in Mem \cup Pci, command \in Pci => length < SizeMod
  PROVE  /\ n * (Larger(Fragments(n), 0) + 1) <= length
         /\ /\ length % n = 0
            /\ command \in Pci => 2 * length < SizeMod
            => n * (Larger(Fragments(n), 0) + 1) = length
<1> DEFINE fits == (length - n) \div n
<1>1. /\ fits \in Nat
      /\ (length - n) % n \in 0 .. n - 1
      /\ length - n = n * fits + ((length - n) % n)
  <2> DEFINE rest == length - n
  <2>1. rest \in Nat
    OBVIOUS
  <2> HIDE DEF rest
  <2>2. /\ rest \div n \in Nat
        /\ rest % n \in 0 .. n - 1
        /\ rest = n * (rest \div n) + (rest % n)
    BY <2>1, Division
  <2> QED BY <2>2 DEF rest
<1>2. n * (fits + 1) = n * fits + n
  BY <1>1
<1>3. length % n = 0 => length = n * (fits + 1)
  <2> DEFINE q == length \div n
             p == fits + 1
             r == (length - n) % n
  <2>1. length % n = 0 => length = n * q
    BY Division
  <2>2. q \in Int /\ p \in Int /\ r \in 0 .. n - 1
    BY <1>1, Division
  <2>3. length = n * p + r
    BY <1>1, <1>2
  <2> HIDE DEF q, p, r
  <2>4. length % n = 0 => r = 0
    BY <2>1, <2>2, <2>3, Quotient
  <2>5. length % n = 0 => length = n * p
    BY <2>2, <2>3, <2>4
  <2> QED BY <2>5 DEF p
<1>4. command \in Mem => Fragments(n) = fits
  BY RegistersAssumption, ModSmall DEF Fragments
<1>5. command \notin Mem => Fragments(n) = IF 2 * fits < SizeMod THEN fits ELSE fits - SizeMod
  <2>1. command \notin Mem => length - n \in 0 .. SizeMod - 1
    BY RegistersAssumption
  <2>2. command \notin Mem => (length - n) % SizeMod = length - n
    BY <2>1, RegistersAssumption, ModSmall
  <2> QED BY <2>2 DEF Fragments
<1> HIDE DEF fits
<1>6. fits <= length - n /\ n * fits <= length - n
  <2>1. fits <= n * fits
    BY <1>1
  <2> QED BY <1>1, <2>1
<1>7. Fragments(n) \in Int
  BY FragmentsType
<1>8. \/ Fragments(n) = fits
      \/ Fragments(n) <= 0 /\ command \in Pci /\ ~ (2 * fits < SizeMod)
  BY <1>1, <1>4, <1>5, <1>6, RegistersAssumption
<1>9. CASE Fragments(n) = fits
  <2>1. Larger(Fragments(n), 0) = fits
    BY <1>1, <1>9 DEF Larger
  <2> QED BY <1>1, <1>2, <1>3, <1>6, <1>7, <2>1
<1>10. CASE Fragments(n) <= 0 /\ command \in Pci /\ ~ (2 * fits < SizeMod)
  <2>1. Larger(Fragments(n), 0) = 0
    BY <1>7, <1>10 DEF Larger
  <2>2. ~ (2 * length < SizeMod)
    BY <1>1, <1>6, <1>10, RegistersAssumption
  <2> QED BY <1>7, <1>10, <2>1, <2>2
<1> QED BY <1>8, <1>9, <1>10

-----------------------------------------------------------------------------
(* Before the data is taken nothing has been touched; before the driver is *)
(* called nothing has gone wrong; and only commands that access memory or  *)
(* the PCI configuration allocate a buffer.                                *)
UntilThen ==
  /\ size = BufferSize(length)
  /\ phase = "find" => command = "none" /\ length = 0
  /\ phase \in {"find", "alloc"} => buffer = <<>>
  /\ phase \in {"alloc", "data"} => command \in Mem \cup Pci
  /\ phase \in {"find", "alloc", "data"} => extent = 0 /\ userData = <<>>
  /\ phase \in {"find", "alloc", "data", "call"} =>
       status = Ok /\ iPass = Ok /\ answer = "none" /\ shown = FALSE
  /\ phase = "call" => command \notin {"none", "help"}
  /\ command \in Pci => length < SizeMod

(* The data is in the buffer as soon as it is taken, before it is sent.    *)
Copied ==
  /\ userData # <<>> /\ 0 \notin Range(userData)
  /\ length <= size /\ length % Len(userData) = 0 /\ length > 0
  /\ (command \in Pci => 2 * length < SizeMod)
  => \A b \in 0 .. length - 1 :
       buffer[b] = userData[Len(userData) - (b % Len(userData))]

(* Which of iPass and the status reports an error is settled in main.      *)
Reported ==
  phase = "exit" =>
    /\ (iPass = Ok /\ status = Ok) <=> (command = "help" \/ Succeeded)
    /\ shown => iPass = Ok /\ status = Ok

RInv ==
  /\ RTypeOK /\ userData \in Seq(Bytes) /\ shown \in BOOLEAN
  /\ UntilThen /\ StaysInBuffer /\ Copied /\ Reported /\ ExitTellsFailure

LEMMA RegistersRanges ==
  ASSUME RInv
  PROVE  /\ length \in Nat /\ length < LongMod /\ size \in Nat /\ extent \in Nat
         /\ command \in Pci => length < SizeMod
         /\ length <= SizeMod - 4 => length <= size
<1>1. length \in Lengths \cup {0} /\ size \in 0 .. SizeMod - 1 /\ extent \in Nat
  BY DEF RInv, RTypeOK
<1>2. length \in Nat /\ length < LongMod
  BY <1>1, RegistersAssumption
<1>3. size = BufferSize(length) /\ (command \in Pci => length < SizeMod)
  BY DEF RInv, UntilThen
<1> QED
  BY <1>1, <1>2, <1>3, BufferSizeFits

LEMMA ZeroSize == BufferSize(0) = 0
BY RegistersAssumption, ModSmall DEF BufferSize

LEMMA RegistersInit == Init => RInv
<1> SUFFICES ASSUME Init PROVE RInv
  OBVIOUS
<1>1. line \in Seq(General \cup {"other"})
  BY RegistersAssumption, SeqDef DEF Init, SeqOf
<1>2. RTypeOK
  BY <1>1, RegistersAssumption DEF Init, RTypeOK, Ok, DriverError
<1>3. userData \in Seq(Bytes)
  BY EmptySeq DEF Init
<1> QED
  BY <1>2, <1>3, ZeroSize
  DEF Init, RInv, UntilThen, StaysInBuffer, Copied, Reported, ExitTellsFailure, Pci, Ok

LEMMA RegistersFindCmd ==
  ASSUME RInv, FindCmd
  PROVE  RInv'
<1>1. command' \in General \cup {"none"}
  BY DEF FindCmd, General
<1>2. /\ iPass' = IF command' = "none" THEN BadCommand ELSE Ok
      /\ status = Ok /\ answer = "none" /\ shown = FALSE
      /\ length = 0 /\ extent = 0 /\ userData = <<>>
  BY DEF FindCmd, RInv, UntilThen, General, Mem, Pci
<1>3. phase' = CASE command' \in {"none", "help"} -> "exit"
                 [] command' = "getboardcfg" -> "call"
                 [] OTHER -> "alloc"
  BY DEF FindCmd
<1>4. /\ phase' \in {"exit", "call", "alloc"}
      /\ phase' = "exit" <=> command' \in {"none", "help"}
      /\ phase' = "alloc" => command' \in Mem \cup Pci
  BY <1>1, <1>3 DEF General
<1>5. RTypeOK'
  BY <1>1, <1>2, <1>4 DEF FindCmd, RInv, RTypeOK, Ok, BadCommand, DriverError
<1>6. UntilThen'
  BY <1>2, <1>4, RegistersAssumption DEF FindCmd, RInv, UntilThen, Ok
<1>7. (StaysInBuffer /\ Copied)'
  BY <1>2 DEF FindCmd, StaysInBuffer, Copied
<1>8. (Reported /\ ExitTellsFailure)'
  BY <1>2, <1>4 DEF FindCmd, Reported, ExitTellsFailure, Succeeded, Ok, BadCommand
<1> QED
  BY <1>5, <1>6, <1>7, <1>8 DEF FindCmd, RInv

LEMMA RegistersAllocBuffer ==
  ASSUME RInv, AllocBuffer
  PROVE  RInv'
<1>1. /\ length' \in Lengths /\ length' \in Nat /\ size' = BufferSize(length')
      /\ command \in Pci => length' < SizeMod
  BY RegistersAssumption DEF AllocBuffer
<1>2. /\ size' \in 0 .. SizeMod - 1 /\ size' % 4 = 0
      /\ length' <= SizeMod - 4 => length' <= size'
  BY <1>1, BufferSizeFits
<1>3. /\ phase' \in {"exit", "call", "data"} /\ phase = "alloc"
      /\ phase' = "exit" => status' = -1 /\ iPass' = NoMemory
      /\ phase' # "exit" => status' = status /\ iPass' = iPass
      /\ UNCHANGED <<line, connected, command, extent, userData, answer, shown>>
  BY DEF AllocBuffer
<1>4. /\ status = Ok /\ iPass = Ok /\ answer = "none" /\ shown = FALSE
      /\ command \in Mem \cup Pci /\ extent = 0 /\ userData = <<>> /\ buffer = <<>>
  BY <1>3 DEF RInv, UntilThen
<1>5. RTypeOK'
  <2>1. \/ buffer' = <<>>
        \/ buffer' \in [0 .. size' - 1 -> 0 .. ByteMod - 1 \cup {Unset}]
    <3>1. ByteMod - 1 \in 0 .. ByteMod - 1
      BY RegistersAssumption
    <3> QED BY <1>4, <3>1 DEF AllocBuffer
  <2> QED
    BY <1>1, <1>2, <1>3, <1>4, <2>1 DEF RInv, RTypeOK, NoMemory, Ok, DriverError
<1>6. UntilThen'
  BY <1>1, <1>3, <1>4 DEF UntilThen, Mem, Pci
<1>7. (StaysInBuffer /\ Copied)'
  BY <1>2, <1>3, <1>4 DEF StaysInBuffer, Copied
<1>8. (Reported /\ ExitTellsFailure)'
  BY <1>3, <1>4 DEF Reported, ExitTellsFailure, Succeeded, Ok, NoMemory, Mem, Pci
<1> QED
  BY <1>3, <1>5, <1>6, <1>7, <1>8 DEF RInv

LEMMA RegistersGivenData ==
  ASSUME RInv, GivenData
  PROVE  RInv'
<1>1. PICK bytes \in SeqOf(Bytes, MaxBytes) : userData' = bytes /\ TakeUserData(bytes)
  BY DEF GivenData
<1>2. PICK n \in Nat : bytes \in [1 .. n -> Bytes]
  BY RegistersAssumption DEF SeqOf
<1>3. /\ bytes \in Seq(Bytes) /\ Len(bytes) = n /\ DOMAIN bytes = 1 .. n
      /\ bytes \in [1 .. n -> 0 .. ByteMod - 1]
  BY <1>2, TextLength, RegistersAssumption
<1>4. /\ phase = "data" /\ phase' \in {"call", "crashed"}
      /\ UNCHANGED <<line, connected, command, length, size, answer, shown, status, iPass>>
  BY DEF GivenData, Proceed
<1>5. /\ status = Ok /\ iPass = Ok /\ answer = "none" /\ shown = FALSE
      /\ command \in Mem \cup Pci
  BY <1>4 DEF RInv, UntilThen
<1>6. /\ length \in Nat /\ size \in Nat /\ length < LongMod
      /\ command \in Pci => length < SizeMod
      /\ length <= SizeMod - 4 => length <= size
  BY RegistersRanges
<1> DEFINE copies == IF n = 0 THEN 0 ELSE Larger(Fragments(n), 0)
           filled == n * (copies + 1)
<1>7. /\ extent' = Larger(n + 1, filled)
      /\ buffer' = [b \in 0 .. size - 1 |->
           IF b < filled THEN Reversed(bytes)[(b % n) + 1]
           ELSE IF b = n THEN 0 ELSE Unset]
  BY <1>1, <1>3 DEF TakeUserData
<1>8. /\ copies \in Nat /\ filled \in Nat
      /\ n # 0 /\ n <= length => filled <= length
      /\ /\ n # 0 /\ length > 0 /\ length % n = 0
         /\ command \in Pci => 2 * length < SizeMod
         => filled = length
  <2>1. CASE n = 0
    BY <2>1
  <2>2. n # 0 => copies \in Nat
    BY <1>6, FragmentsType DEF Larger
  <2>3. CASE n # 0 /\ n > length
    <3>1. length % n = length
      BY <1>6, <2>3, ModSmall
    <3> HIDE DEF copies
    <3> QED BY <1>6, <2>2, <2>3, <3>1
  <2>4. CASE n # 0 /\ n <= length
    <3>1. copies = Larger(Fragments(n), 0)
      BY <2>4
    <3>2. filled <= length
      BY <2>4, <3>1, <1>5, <1>6, CopiesFit
    <3>3. length % n = 0 /\ (command \in Pci => 2 * length < SizeMod) => filled = length
      BY <2>4, <3>1, <1>5, <1>6, CopiesFit
    <3> HIDE DEF copies
    <3> QED BY <2>2, <2>4, <3>2, <3>3
  <2> QED BY <2>1, <2>3, <2>4, <1>6
<1>9. n # 0 => \A b \in Nat : (b % n) + 1 \in 1 .. n
  BY Division
<1>10. n = 0 => filled = 0
  BY <1>8
<1> HIDE DEF filled, copies
<1>11. RTypeOK'
  <2>1. n # 0 => Reversed(bytes) \in [1 .. n -> 0 .. ByteMod - 1]
    BY <1>3, ReversedType
  <2>2. ASSUME NEW b \in 0 .. size - 1, b < filled
        PROVE  Reversed(bytes)[(b % n) + 1] \in 0 .. ByteMod - 1
    BY <2>1, <2>2, <1>6, <1>8, <1>9, <1>10
  <2>3. buffer' \in [0 .. size - 1 -> 0 .. ByteMod - 1 \cup {Unset}]
    <3>1. 0 \in 0 .. ByteMod - 1
      BY RegistersAssumption
    <3> QED BY <1>7, <2>2, <3>1
  <2>4. extent' \in Nat
    BY <1>7, <1>8 DEF Larger
  <2> QED
    BY <1>4, <2>3, <2>4 DEF RInv, RTypeOK
<1>12. StaysInBuffer'
  <2>1. extent' = n + 1 \/ extent' = filled
    BY <1>7 DEF Larger
  <2>2. userData' = bytes
    BY <1>1
  <2> QED
    BY <1>3, <1>4, <1>6, <1>8, <1>10, <2>1, <2>2 DEF StaysInBuffer
<1>13. Copied'
  <2> SUFFICES ASSUME bytes # <<>>, 0 \notin Range(bytes), length <= size,
                      length % n = 0, length > 0,
                      command \in Pci => 2 * length < SizeMod,
                      NEW b \in 0 .. length - 1
               PROVE  buffer'[b] = bytes[n - (b % n)]
    BY <1>1, <1>3, <1>4 DEF Copied
  <2>1. n # 0
    BY <1>2, EmptySeq
  <2>2. filled = length /\ b \in 0 .. size - 1
    BY <1>6, <1>8, <2>1
  <2>3. buffer'[b] = Reversed(bytes)[(b % n) + 1]
    BY <1>6, <1>7, <2>2
  <2>4. \A k \in 1 .. n : Reversed(bytes)[k] = bytes[n + 1 - k]
    BY <1>3, ReversedType
  <2>5. (b % n) + 1 \in 1 .. n
    BY <1>6, <1>9, <2>1
  <2>6. n + 1 - ((b % n) + 1) = n - (b % n)
    BY <2>5
  <2> QED BY <2>3, <2>4, <2>5, <2>6
<1>14. UntilThen'
  BY <1>4, <1>5 DEF RInv, UntilThen, Mem, Pci
<1>15. (Reported /\ ExitTellsFailure)'
  BY <1>4, <1>5 DEF Reported, ExitTellsFailure
<1> QED
  BY <1>1, <1>3, <1>4, <1>11, <1>12, <1>13, <1>14, <1>15 DEF RInv

LEMMA RegistersMissingData ==
  ASSUME RInv, MissingData
  PROVE  RInv'
<1>1. /\ phase = "data" /\ phase' \in {"call", "crashed", "exit"}
      /\ phase' = "exit" => status' = -1 /\ iPass' = BadParameter
      /\ phase' # "exit" => status' = status /\ iPass' = iPass
      /\ UNCHANGED <<line, connected, command, length, size, userData, answer, shown>>
      /\ extent' \in {extent, length}
  BY DEF MissingData, Proceed
<1>2. /\ status = Ok /\ iPass = Ok /\ answer = "none" /\ shown = FALSE
      /\ command \in Mem \cup Pci /\ extent = 0 /\ userData = <<>>
  BY <1>1 DEF RInv, UntilThen
<1>3. /\ length \in Nat /\ size \in Nat
      /\ length <= SizeMod - 4 => length <= size
  BY RegistersRanges
<1>4. RTypeOK'
  <2>1. \/ buffer' = buffer
        \/ buffer' \in [0 .. size - 1 -> 0 .. ByteMod - 1 \cup {Unset}]
    <3>1. \A b \in 0 .. size - 1 : b % ByteMod \in 0 .. ByteMod - 1
      BY <1>3, RegistersAssumption, Division
    <3> QED BY <3>1 DEF MissingData
  <2> QED
    BY <1>1, <1>2, <1>3, <2>1 DEF RInv, RTypeOK, BadParameter, Ok, DriverError
<1>5. UntilThen'
  BY <1>1, <1>2 DEF RInv, UntilThen, Mem, Pci
<1>6. (StaysInBuffer /\ Copied)'
  BY <1>1, <1>2, <1>3 DEF StaysInBuffer, Copied
<1>7. (Reported /\ ExitTellsFailure)'
  BY <1>1, <1>2 DEF Reported, ExitTellsFailure, Succeeded, Ok, BadParameter, Mem, Pci
<1> QED
  BY <1>1, <1>4, <1>5, <1>6, <1>7 DEF RInv

LEMMA RegistersDriverCall ==
  ASSUME RInv, DriverCall
  PROVE  RInv'
<1>1. /\ phase = "call" /\ phase' = "exit"
      /\ answer' \in {"ok", "short", "error"}
      /\ status' = CallStatus(answer')
      /\ iPass' = IF command \notin Pci /\ status' # Ok THEN status' ELSE iPass
      /\ extent' = extent \/ extent' = Larger(extent, length)
      /\ shown' = (status' = Ok /\ command \in {"getboardcfg", "readmem", "readpci"})
      /\ UNCHANGED <<line, connected, command, length, size, buffer, userData>>
  BY DEF DriverCall, Answers
<1>2. /\ status' \in {Ok, Incomplete, DriverError}
      /\ status' = Ok <=> Succeeded'
  BY <1>1 DEF CallStatus, Succeeded, Ok, Incomplete, DriverError
<1>3. status = Ok /\ iPass = Ok /\ command \notin {"none", "help"}
  BY <1>1 DEF RInv, UntilThen
<1>4. /\ length \in Nat /\ size \in Nat /\ extent \in Nat
      /\ length <= SizeMod - 4 => length <= size
  BY RegistersRanges
<1>5. extent' = extent \/ (extent' = length)
  BY <1>1 DEF Larger
<1>6. RTypeOK'
  BY <1>1, <1>2, <1>3, <1>4, <1>5 DEF RInv, RTypeOK, Ok, Incomplete, DriverError
<1>7. UntilThen'
  BY <1>1 DEF RInv, UntilThen
<1>8. (StaysInBuffer /\ Copied)'
  BY <1>1, <1>4, <1>5 DEF RInv, StaysInBuffer, Copied
<1>9. (Reported /\ ExitTellsFailure)'
  BY <1>1, <1>2, <1>3 DEF Reported, ExitTellsFailure
<1>10. shown' \in BOOLEAN
  BY <1>1
<1> QED
  BY <1>1, <1>6, <1>7, <1>8, <1>9, <1>10 DEF RInv

(* Every step preserves the invariant.                                     *)
LEMMA RegistersStep ==
  ASSUME RInv, [Next]_rvars
  PROVE  RInv'
<1>1. CASE FindCmd
  BY <1>1, RegistersFindCmd
<1>2. CASE AllocBuffer
  BY <1>2, RegistersAllocBuffer
<1>3. CASE GivenData
  BY <1>3, RegistersGivenData
<1>4. CASE EmptyData
  BY <1>4 DEF EmptyData, RInv, RTypeOK, UntilThen, StaysInBuffer, Copied, Reported,
    ExitTellsFailure, Mem, Pci
<1>5. CASE MissingData
  BY <1>5, RegistersMissingData
<1>6. CASE DriverCall
  BY <1>6, RegistersDriverCall
<1>7. CASE Exit
  BY <1>7 DEF Exit, RInv, RTypeOK, UntilThen, StaysInBuffer, Copied, Reported,
    ExitTellsFailure, Succeeded, Ok, DriverError
<1>8. CASE UNCHANGED rvars
  BY <1>8 DEF rvars, RInv, RTypeOK, UntilThen, StaysInBuffer, Copied, Reported,
    ExitTellsFailure, Succeeded
<1> QED
  BY <1>1, <1>2, <1>3, <1>4, <1>5, <1>6, <1>7, <1>8 DEF Next, Ended

LEMMA RegistersInvariant == RSpec => []RInv
BY RegistersInit, RegistersStep, PTL DEF RSpec

(* For every width, line, length and data: sizes, bytes and codes stay in  *)
(* their ranges.                                                           *)
THEOREM RegistersTypes == RSpec => []RTypeOK
BY RegistersInvariant, PTL DEF RInv

(* For every width, length and data that is shorter than the buffer and no *)
(* longer than Length: the copies, the zero behind the data and the driver *)
(* stay within the buffer.                                                 *)
THEOREM NothingBeyondBuffer == RSpec => []StaysInBuffer
BY RegistersInvariant, PTL DEF RInv

(* For every width and every data without a zero byte that divides Length: *)
(* what the driver is handed is that data, last byte first, repeated.      *)
THEOREM UserDataSent == RSpec => []SentIsUserData
<1>1. RInv => SentIsUserData
  BY DEF RInv, Copied, SentIsUserData
<1> QED
  BY RegistersInvariant, <1>1, PTL

(* For every line, length, data and build: the exit status is 0 exactly if *)
(* the user asked for help or the driver took the call without an error,   *)
(* with a whole board configuration if that was asked for, and nothing is  *)
(* displayed otherwise.  That what is displayed was read is not claimed.   *)
THEOREM ExitStatusRight == RSpec => []ExitTellsFailure
BY RegistersInvariant, PTL DEF RInv

-----------------------------------------------------------------------------
(* The scan of the options.                                                *)

(* FlagsAreHonoured for the arguments that are behind the scan.            *)
HonouredSoFar ==
  \A k \in DOMAIN args :
    k < argc /\ args[k].opt \in Flag /\ ~(k > 1 /\ Dangling(k - 1)) =>
      cfg[args[k].opt] = 1

(* Where option o is given behind the scan, and what it is read as there.  *)
GivenSoFar(o) ==
  {k \in DOMAIN args : /\ k < argc /\ args[k].opt = o
                       /\ o \in Flag \/ Accepts(o, OwnValue(k))}

ReadSoFar(o) ==
  IF GivenSoFar(o) = {} THEN Default(o)
  ELSE IF o \in Flag THEN 1 ELSE Effect(o, OwnValue(Max(GivenSoFar(o))))

ProperSoFar == Proper => \A o \in OptionsUsed : cfg[o] = ReadSoFar(o)

OInv == OTypeOK /\ NeverPastTheNull /\ HonouredSoFar /\ ProperSoFar

LEMMA LineType ==
  ASSUME OTypeOK
  PROVE  /\ Len(args) \in Nat /\ DOMAIN args = 1 .. Len(args)
         /\ \A k \in 1 .. Len(args) :
              /\ args[k] \in Arg
              /\ args[k].opt \in OptionsUsed \cup {"unknown", "plain"}
              /\ args[k].delim \in BOOLEAN /\ args[k].text \in Text
         /\ argc \in Nat \ {0}
<1>1. args \in Seq(Arg) /\ argc \in Nat \ {0}
  BY DEF OTypeOK
<1>2. /\ Len(args) \in Nat /\ DOMAIN args = 1 .. Len(args)
      /\ \A k \in 1 .. Len(args) : args[k] \in Arg
  BY <1>1, LenProperties
<1> QED
  BY <1>1, <1>2 DEF Arg

(* What the setters store.                                                 *)
LEMMA SetType ==
  ASSUME OTypeOK, NEW o \in OptionsUsed, NEW v \in Int
  PROVE  /\ Set(o, v) \in [OptionsUsed -> Int]
         /\ \A p \in OptionsUsed \cap {"t"} : Set(o, v)[p] \in 1 .. MaxThreads
         /\ \A p \in OptionsUsed \ {o} : Set(o, v)[p] = cfg[p]
         /\ Set(o, v)[o] = IF Accepts(o, v) THEN Effect(o, v) ELSE cfg[o]
<1>1. cfg \in [OptionsUsed -> Int]
  BY DEF OTypeOK
<1>2. Effect(o, v) \in Int
  BY OptionsAssumption DEF Effect, Signed
<1>3. o = "t" /\ Accepts(o, v) => Effect(o, v) \in 1 .. MaxThreads
  BY DEF Effect, Accepts, Flag
<1>4. \A p \in OptionsUsed \cap {"t"} : cfg[p] \in 1 .. MaxThreads
  BY DEF OTypeOK
<1> QED
  BY <1>1, <1>2, <1>3, <1>4 DEF Set

LEMMA WholeType ==
  ASSUME OTypeOK, NEW k \in Nat \ {0}
  PROVE  Whole(k) \in Text \cup {Null}
BY LineType DEF Whole, There, IsOption, Text

(* The place of the value is an argument of the line, the option's own or  *)
(* the next, if there is one.                                              *)
LEMMA PlaceOnLine ==
  ASSUME OTypeOK, There(argc)
  PROVE  /\ Place \in {argc, argc + 1}
         /\ HasPlace => Place \in 1 .. Len(args)
         /\ Place = argc + 1 => ~ IsOption(argc + 1)
         /\ LastRead \in {Place, Place + 1}
         /\ LastRead = Place + 1 => HasPlace /\ Dangling(Place)
BY LineType DEF Place, HasPlace, There, LastRead

LEMMA ConvertedType ==
  ASSUME OTypeOK, There(argc)
  PROVE  /\ Found \in Text \cup {Null}
         /\ Converted \in Text \cup {Null}
         /\ IsHex(Converted) => Number(Converted) \in Int
<1>1. HasPlace => args[Place].text \in Text
  BY LineType, PlaceOnLine
<1>2. HasPlace => Whole(Place + 1) \in Text \cup {Null}
  BY LineType, PlaceOnLine, WholeType
<1>3. Found \in Text \cup {Null}
  BY <1>1, <1>2 DEF Found, OTypeOK
<1>4. Converted \in Text \cup {Null}
  BY <1>1, <1>3 DEF Converted
<1> QED
  BY <1>3, <1>4, OptionsAssumption DEF IsHex, Number, Text

(* On a proper line the value of an option is its own, and the argument it *)
(* is in is the only one that is consumed with the option.                 *)
LEMMA ProperValue ==
  ASSUME OTypeOK, There(argc), Proper, args[argc].opt \in Valued
  PROVE  /\ Converted = OwnValue(argc) /\ OwnValue(argc) \in Values
         /\ LastRead = argc \/ (LastRead = argc + 1 /\ ~ IsOption(argc + 1))
<1>1. argc \in DOMAIN args
  BY LineType DEF There
<1>2. OwnValue(argc) \in Values
  BY <1>1 DEF Proper
<1>3. Null \notin Values /\ Empty \notin Values /\ Junk \notin Values
  BY OptionsAssumption DEF Null, Empty, Junk
<1>4. CASE Bare(args[argc])
  <2>1. Whole(argc + 1) \in Values
    BY <1>2, <1>4 DEF OwnValue
  <2>2. /\ There(argc + 1) /\ ~ IsOption(argc + 1) /\ ~ args[argc + 1].delim
        /\ args[argc + 1].text = Whole(argc + 1)
    BY <1>3, <2>1 DEF Whole
  <2>3. Place = argc + 1 /\ HasPlace
    BY <1>4, <2>2 DEF Place, HasPlace
  <2>4. Found = Null /\ Converted = args[argc + 1].text
    BY <2>2, <2>3 DEF Found, Converted
  <2>5. LastRead = argc + 1
    BY <2>2, <2>3 DEF LastRead, Dangling
  <2> QED
    BY <1>2, <1>4, <2>2, <2>4, <2>5 DEF OwnValue
<1>5. CASE ~ Bare(args[argc])
  <2>1. OwnValue(argc) = args[argc].text /\ args[argc].text \in Values
    BY <1>2, <1>5 DEF OwnValue
  <2>2. Place = argc /\ HasPlace /\ ~ Dangling(argc)
    BY <1>3, <1>5, <2>1 DEF Place, HasPlace, Dangling
  <2>3. Converted = args[argc].text
    BY <1>3, <2>1, <2>2 DEF Found, Converted
  <2> QED
    BY <1>2, <2>1, <2>2, <2>3 DEF LastRead
<1> QED BY <1>4, <1>5

(* The scan moves on over arguments that are no options.                   *)
LEMMA GivenGrows ==
  ASSUME OTypeOK, There(argc), args' = args,
         argc' = argc + 1 \/ (argc' = argc + 2 /\ ~ IsOption(argc + 1)),
         NEW o \in OptionsUsed
  PROVE  GivenSoFar(o)' = GivenSoFar(o) \cup
           (IF args[argc].opt = o /\ (o \in Flag \/ Accepts(o, OwnValue(argc)))
            THEN {argc} ELSE {})
<1>1. \A k : OwnValue(k)' = OwnValue(k)
  BY DEF OwnValue, Bare, Whole, There, IsOption
<1>2. o # "plain"
  BY OptionsAssumption DEF Flag, Valued
<1>3. argc' = argc + 2 /\ argc + 1 \in DOMAIN args => args[argc + 1].opt = "plain"
  BY LineType DEF IsOption, There
<1>4. argc \in DOMAIN args
  BY LineType DEF There
<1>5. \A k \in DOMAIN args : (k < argc' /\ args[k].opt = o) <=>
         (k < argc \/ k = argc) /\ args[k].opt = o
  BY LineType, <1>2, <1>3
<1> QED
  BY <1>1, <1>4, <1>5 DEF GivenSoFar

(* The last place is the newest.                                           *)
LEMMA NewestIsLast ==
  ASSUME OTypeOK, NEW o, NEW S, S = GivenSoFar(o) \cup {argc}
  PROVE  Max(S) = argc
<1>1. argc \in Int /\ \A k \in GivenSoFar(o) : k \in Int /\ k < argc
  BY LineType DEF GivenSoFar
<1>2. argc \in S /\ \A y \in S : argc >= y
  BY <1>1
<1>3. \A x \in S : (\A y \in S : x >= y) => x = argc
  BY <1>1, <1>2
<1> QED
  BY <1>2, <1>3 DEF Max

(* One option read: its setting is its reading, the others are unchanged.  *)
LEMMA SettingRead ==
  ASSUME OTypeOK, There(argc), args' = args,
         argc' = argc + 1 \/ (argc' = argc + 2 /\ ~ IsOption(argc + 1)),
         NEW p \in OptionsUsed, args[argc].opt = p, NEW v \in Int,
         p \in Flag \/ v = OwnValue(argc),
         cfg' = Set(p, v),
         \A o \in OptionsUsed : cfg[o] = ReadSoFar(o)
  PROVE  \A o \in OptionsUsed : cfg'[o] = ReadSoFar(o)'
<1>1. \A k : OwnValue(k)' = OwnValue(k)
  BY DEF OwnValue, Bare, Whole, There, IsOption
<1>2. ASSUME NEW o \in OptionsUsed, GivenSoFar(o)' = GivenSoFar(o), cfg'[o] = cfg[o]
      PROVE  cfg'[o] = ReadSoFar(o)'
  BY <1>1, <1>2 DEF ReadSoFar
<1>3. ASSUME NEW o \in OptionsUsed, o # p
      PROVE  cfg'[o] = ReadSoFar(o)'
  <2>1. GivenSoFar(o)' = GivenSoFar(o)
    BY <1>3, GivenGrows
  <2>2. cfg'[o] = cfg[o]
    BY <1>3, SetType
  <2> QED BY <1>2, <2>1, <2>2
<1>4. CASE ~ Accepts(p, v)
  <2>1. p \notin Flag
    BY <1>4 DEF Accepts, Flag
  <2>2. GivenSoFar(p)' = GivenSoFar(p)
    BY <1>4, <2>1, GivenGrows
  <2>3. cfg'[p] = cfg[p]
    BY <1>4, SetType
  <2> QED BY <1>2, <1>3, <2>2, <2>3
<1>5. CASE Accepts(p, v)
  <2>1. GivenSoFar(p)' = GivenSoFar(p) \cup {argc}
    BY <1>5, GivenGrows
  <2>2. Max(GivenSoFar(p)') = argc
    BY <2>1, NewestIsLast
  <2>3. ReadSoFar(p)' = IF p \in Flag THEN 1 ELSE Effect(p, OwnValue(argc))
    <3>1. GivenSoFar(p)' # {}
      BY <2>1
    <3>2. ReadSoFar(p)' =
            IF p \in Flag THEN 1 ELSE Effect(p, OwnValue(Max(GivenSoFar(p)))')
      BY <3>1 DEF ReadSoFar
    <3> QED BY <1>1, <2>2, <3>2
  <2>4. cfg'[p] = Effect(p, v)
    <3>1. Set(p, v)[p] = IF Accepts(p, v) THEN Effect(p, v) ELSE cfg[p]
      BY SetType
    <3> QED BY <1>5, <3>1
  <2>5. p \in Flag => Effect(p, v) = 1
    BY DEF Effect, Flag
  <2>6. cfg'[p] = ReadSoFar(p)'
    BY <2>3, <2>4, <2>5
  <2> QED BY <1>3, <2>6
<1> QED BY <1>4, <1>5

LEMMA OptionsInit == OInit => OInv
<1> SUFFICES ASSUME OInit PROVE OInv
  OBVIOUS
<1>1. args \in Seq(Arg)
  BY OptionsAssumption, SeqDef DEF OInit, Lines
<1>2. OTypeOK
  BY <1>1, OptionsAssumption DEF OInit, OTypeOK, Default
<1>3. Len(args) \in Nat /\ DOMAIN args = 1 .. Len(args) /\ argc = 1
  BY <1>2, LineType DEF OInit
<1>4. \A o : GivenSoFar(o) = {}
  BY <1>3 DEF GivenSoFar
<1> QED
  BY <1>2, <1>3, <1>4 DEF OInit, OInv, NeverPastTheNull, HonouredSoFar, ProperSoFar,
    ReadSoFar

LEMMA OptionsSkip ==
  ASSUME OInv, Skip
  PROVE  OInv'
<1>1. /\ OTypeOK /\ There(argc) /\ args[argc].opt \in {"plain", "unknown"}
      /\ argc' = argc + 1 /\ UNCHANGED <<args, optionValue, cfg>>
  BY DEF OInv, Skip
<1>2. (OTypeOK /\ NeverPastTheNull)'
  BY <1>1, LineType DEF OTypeOK, NeverPastTheNull, There
<1>3. HonouredSoFar'
  BY <1>1, LineType DEF OInv, HonouredSoFar, Dangling, Flag
<1>4. ProperSoFar'
  <2>1. \A k : OwnValue(k)' = OwnValue(k)
    BY <1>1 DEF OwnValue, Bare, Whole, There, IsOption
  <2>2. \A o \in OptionsUsed : o # args[argc].opt
    BY <1>1, OptionsAssumption DEF Flag, Valued
  <2>3. \A o \in OptionsUsed : GivenSoFar(o)' = GivenSoFar(o)
    BY <1>1, <2>2, GivenGrows
  <2>4. \A o \in OptionsUsed : ReadSoFar(o)' = ReadSoFar(o)
    BY <2>1, <2>3 DEF ReadSoFar
  <2>5. Proper' = Proper
    BY <1>1, <2>1 DEF Proper
  <2> QED
    BY <1>1, <2>4, <2>5 DEF OInv, ProperSoFar
<1> QED
  BY <1>2, <1>3, <1>4 DEF OInv

LEMMA OptionsFlag ==
  ASSUME OInv, FlagOption
  PROVE  OInv'
<1> DEFINE p == args[argc].opt
<1>1. /\ OTypeOK /\ There(argc) /\ p \in Flag /\ cfg' = Set(p, 0)
      /\ argc' = argc + 1 /\ UNCHANGED <<args, optionValue>>
  BY DEF OInv, FlagOption
<1>2. p \in OptionsUsed
  BY <1>1, LineType DEF Flag, There
<1>3. /\ cfg' \in [OptionsUsed -> Int]
      /\ \A q \in OptionsUsed \cap {"t"} : cfg'[q] \in 1 .. MaxThreads
      /\ \A q \in OptionsUsed \ {p} : cfg'[q] = cfg[q]
      /\ cfg'[p] = IF Accepts(p, 0) THEN Effect(p, 0) ELSE cfg[p]
  BY <1>1, <1>2, SetType
<1>4. cfg'[p] = 1
  BY <1>1, <1>3 DEF Accepts, Effect, Flag
<1>5. (OTypeOK /\ NeverPastTheNull)'
  BY <1>1, <1>3, LineType DEF OTypeOK, NeverPastTheNull, There
<1>6. HonouredSoFar'
  <2>1. ASSUME NEW k \in DOMAIN args, k < argc + 1, args[k].opt \in Flag,
               ~(k > 1 /\ Dangling(k - 1))
        PROVE  cfg'[args[k].opt] = 1
    <3>1. args[k].opt \in OptionsUsed
      BY <1>1, <2>1, LineType DEF Flag
    <3>2. k < argc \/ k = argc
      BY <1>1, <2>1, LineType
    <3>3. k < argc => cfg[args[k].opt] = 1
      BY <2>1 DEF OInv, HonouredSoFar
    <3> HIDE DEF p
    <3> QED BY <1>3, <1>4, <3>1, <3>2, <3>3 DEF p
  <2> QED BY <1>1, <2>1 DEF HonouredSoFar, Dangling
<1>7. ProperSoFar'
  <2>1. Proper' = Proper
    BY <1>1 DEF Proper, OwnValue, Bare, Whole, There, IsOption
  <2>2. Proper => \A o \in OptionsUsed : cfg'[o] = ReadSoFar(o)'
    BY <1>1, <1>2, SettingRead DEF OInv, ProperSoFar
  <2> QED BY <2>1, <2>2 DEF ProperSoFar
<1> QED
  BY <1>5, <1>6, <1>7 DEF OInv

LEMMA OptionsValued ==
  ASSUME OInv, ValuedOption
  PROVE  OInv'
<1> DEFINE p == args[argc].opt
           v == Number(Converted)
<1>1. /\ OTypeOK /\ There(argc) /\ p \in Valued /\ optionValue' = Found
      /\ cfg' = IF IsHex(Converted) THEN Set(p, v) ELSE cfg
      /\ argc' = LastRead + 1 /\ UNCHANGED args
  BY DEF OInv, ValuedOption
<1>2. p \in OptionsUsed /\ p \notin Flag /\ argc \in 1 .. Len(args)
  BY <1>1, LineType DEF Flag, Valued, There
<1>3. /\ Found \in Text \cup {Null}
      /\ IsHex(Converted) => v \in Int
  BY <1>1, ConvertedType
<1>4. /\ cfg' \in [OptionsUsed -> Int]
      /\ \A q \in OptionsUsed \cap {"t"} : cfg'[q] \in 1 .. MaxThreads
      /\ \A q \in OptionsUsed \ {p} : cfg'[q] = cfg[q]
  <2>1. CASE IsHex(Converted)
    <3> HIDE DEF p, v
    <3> QED BY <1>1, <1>2, <1>3, <2>1, SetType
  <2>2. CASE ~ IsHex(Converted)
    BY <1>1, <2>2 DEF OTypeOK
  <2> QED BY <2>1, <2>2
<1>5. /\ Place \in {argc, argc + 1}
      /\ HasPlace => Place \in 1 .. Len(args)
      /\ Place = argc + 1 => ~ IsOption(argc + 1)
      /\ LastRead \in {Place, Place + 1}
      /\ LastRead = Place + 1 => HasPlace /\ Dangling(Place)
  BY <1>1, PlaceOnLine
<1> HIDE DEF p, v
<1>6. (OTypeOK /\ NeverPastTheNull)'
  BY <1>1, <1>2, <1>3, <1>4, <1>5, LineType DEF OTypeOK, NeverPastTheNull
<1>7. HonouredSoFar'
  <2>1. ASSUME NEW k \in DOMAIN args, k < LastRead + 1, args[k].opt \in Flag,
               ~(k > 1 /\ Dangling(k - 1))
        PROVE  cfg'[args[k].opt] = 1
    <3>1. args[k].opt \in OptionsUsed /\ k \in 1 .. Len(args)
      BY <1>1, <2>1, LineType DEF Flag
    <3>2. k # argc
      BY <1>2, <2>1 DEF p
    <3>3. ~ (k > argc)
      BY <1>2, <1>5, <2>1, <3>1, LineType DEF IsOption, There, Flag
    <3>4. k < argc
      BY <1>2, <3>1, <3>2, <3>3
    <3>5. cfg[args[k].opt] = 1
      BY <2>1, <3>4 DEF OInv, HonouredSoFar
    <3> QED BY <1>2, <1>4, <2>1, <3>1, <3>5
  <2> QED BY <1>1, <2>1 DEF HonouredSoFar, Dangling
<1>8. ProperSoFar'
  <2>1. Proper' = Proper
    BY <1>1 DEF Proper, OwnValue, Bare, Whole, There, IsOption
  <2>2. ASSUME Proper
        PROVE  \A o \in OptionsUsed : cfg'[o] = ReadSoFar(o)'
    <3>1. /\ Converted = OwnValue(argc) /\ OwnValue(argc) \in Values
          /\ LastRead = argc \/ (LastRead = argc + 1 /\ ~ IsOption(argc + 1))
      BY <1>1, <2>2, ProperValue DEF p
    <3>2. IsHex(Converted) /\ v = OwnValue(argc) /\ v \in Int
      <4>1. \A x \in Values : x \in Int /\ x >= 0
        BY OptionsAssumption
      <4>2. IsHex(OwnValue(argc)) /\ Number(OwnValue(argc)) = OwnValue(argc)
        BY <3>1, <4>1 DEF IsHex, Number, Null, Junk, Empty
      <4> QED BY <3>1, <4>1, <4>2 DEF v
    <3>3. cfg' = Set(p, v)
      BY <1>1, <3>2
    <3>4. argc' = argc + 1 \/ (argc' = argc + 2 /\ ~ IsOption(argc + 1))
      BY <1>1, <1>2, <3>1
    <3>5. \A o \in OptionsUsed : cfg[o] = ReadSoFar(o)
      BY <2>2 DEF OInv, ProperSoFar
    <3> QED
      BY <1>1, <1>2, <3>2, <3>3, <3>4, <3>5, SettingRead DEF p
  <2> QED BY <2>1, <2>2 DEF ProperSoFar
<1> QED
  BY <1>6, <1>7, <1>8 DEF OInv

LEMMA OptionsInvariant == OSpec => []OInv
<1>1. ASSUME OInv, [ONext]_ovars
      PROVE  OInv'
  <2>1. CASE UNCHANGED ovars
    <3>1. (OTypeOK /\ NeverPastTheNull /\ HonouredSoFar)'
      BY <1>1, <2>1 DEF ovars, OInv, OTypeOK, NeverPastTheNull, HonouredSoFar, Dangling
    <3>2. \A k : OwnValue(k)' = OwnValue(k)
      BY <2>1 DEF ovars, OwnValue, Bare, Whole, There, IsOption
    <3>3. \A o : GivenSoFar(o)' = GivenSoFar(o)
      BY <2>1, <3>2 DEF ovars, GivenSoFar
    <3>4. \A o : ReadSoFar(o)' = ReadSoFar(o)
      BY <3>2, <3>3 DEF ReadSoFar
    <3>5. Proper' = Proper
      BY <2>1, <3>2 DEF ovars, Proper
    <3>6. ProperSoFar'
      BY <1>1, <2>1, <3>4, <3>5 DEF ovars, OInv, ProperSoFar
    <3> QED BY <3>1, <3>6 DEF OInv
  <2> QED
    BY <1>1, <2>1, OptionsSkip, OptionsFlag, OptionsValued DEF ONext, Scanned
<1> QED
  BY <1>1, OptionsInit, PTL DEF OSpec

(* When the scan has passed the last argument, all of them are behind it.  *)
LEMMA AllBehind ==
  ASSUME OTypeOK, ~ There(argc)
  PROVE  \A k \in DOMAIN args : k < argc
BY LineType DEF There

(* For every table, line and width: the settings are integers, the number  *)
(* of threads lies between 1 and MAX_THREADS.                              *)
THEOREM SettingsInRange == OSpec => []OTypeOK
BY OptionsInvariant, PTL DEF OInv

(* For every line: the scan reads argv up to the NULL that ends it.        *)
THEOREM ScanEndsAtNull == OSpec => []NeverPastTheNull
BY OptionsInvariant, PTL DEF OInv

(* For every line: no flag is taken for a value, but behind a delimiter.   *)
THEOREM FlagsHonoured == OSpec => []FlagsAreHonoured
<1>1. OInv => FlagsAreHonoured
  BY AllBehind DEF OInv, HonouredSoFar, FlagsAreHonoured
<1> QED
  BY OptionsInvariant, <1>1, PTL

(* For every table of options and setters and every proper line: the scan  *)
(* ends with the settings that the reference reading gives.                *)
THEOREM ProperLinesRead == OSpec => []ProperLinesAreRead
<1>1. OInv => ProperLinesAreRead
  <2> SUFFICES ASSUME OInv, ~ There(argc), Proper, NEW o \in OptionsUsed
               PROVE  cfg[o] = Reading(o)
    BY DEF ProperLinesAreRead
  <2>1. GivenSoFar(o) = {k \in DOMAIN args :
                  args[k].opt = o /\ (o \in Flag \/ Accepts(o, OwnValue(k)))}
    BY AllBehind DEF OInv, GivenSoFar
  <2>2. cfg[o] = ReadSoFar(o)
    BY DEF OInv, ProperSoFar
  <2> QED
    BY <2>1, <2>2 DEF ReadSoFar, Reading
<1> QED
  BY OptionsInvariant, <1>1, PTL

-----------------------------------------------------------------------------
(* main does nothing to the options but scan them, and nothing to the      *)
(* command but run it: both parts behave as they do alone, so that all     *)
(* that is proved of them holds of main.                                   *)
THEOREM MainImplementsParts == MainSpec => OSpec /\ RSpec
<1>1. MainInit => OInit /\ Init
  BY DEF MainInit
<1>2. [MainNext]_<<ovars, rvars>> => [ONext]_ovars /\ [Next]_rvars
  BY DEF MainNext
<1> QED BY <1>1, <1>2, PTL DEF MainSpec, OSpec, RSpec

=============================================================================
