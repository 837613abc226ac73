----------------------------- MODULE Registers -----------------------------
(***************************************************************************)
(* main without a DMA test: the choice of the command and the commands     *)
(* getboardcfg, writemem, readmem, writepci and readpci, each of which     *)
(* makes one call to the driver with a buffer it prepares.  The length of  *)
(* writemem and readmem is a UINT64, that of the PCI commands a UINT32;    *)
(* BarNum and the offsets are passed on and left out.                      *)
(***************************************************************************)
EXTENDS Integers, Sequences, SequencesExt

CONSTANTS
  SizeMod,   \* 2^32
  LongMod,   \* 2^64
  ByteMod,   \* 2^8
  Lengths,   \* lengths on the command line, DEFAULT_MEM_LENGTH included
  Bytes,     \* bytes on the command line
  MaxBytes,  \* bound: bytes of data on the command line
  MaxWords   \* bound: words on the command line up to the command

ASSUME RegistersAssumption ==
  /\ SizeMod \in Nat \ {0} /\ SizeMod % 4 = 0
  /\ LongMod \in Nat \ {0} /\ LongMod % SizeMod = 0
  /\ Lengths \subseteq 0 .. LongMod - 4
  /\ ByteMod \in Nat \ {0} /\ Bytes \subseteq 0 .. ByteMod - 1
  /\ MaxBytes \in Nat /\ MaxWords \in Nat

Mem == {"writemem", "readmem"}
Pci == {"writepci", "readpci"}
General == {"help", "getboardcfg"} \cup Mem \cup Pci

\* A byte of the buffer that nobody has written.
Unset == -1

\* Status and iPass: 0, and what stands for every error code.
Ok == 0
BadCommand == 1
BadParameter == 2
NoMemory == 3
Incomplete == 4
DriverError == 5

VARIABLES
  line,       \* the words up to the command
  windows,    \* the Windows build, or that for Linux
  connected,  \* ConnectDriver found the board
  phase,      \* "find", "alloc", "data", "call", "exit", "done", "crashed"
  command,    \* the command that was found
  length,     \* Length
  size,       \* BufferSize
  buffer,     \* the bytes of Buffer
  extent,     \* history: bytes from the start of Buffer that were accessed
  userData,   \* history: the bytes that were given
  answer,     \* history: what the driver said, "short" if it moved less than
              \* the buffer it was given
  shown,      \* history: what was read was displayed
  status,     \* what the command returns, then what main does
  iPass       \* pcfgParams->iPass

rvars == <<line, windows, connected, phase, command, length, size, buffer,
           extent, userData, answer, shown, status, iPass>>

Init ==
  /\ line \in SeqOf(General \cup {"other"}, MaxWords)
  /\ windows \in BOOLEAN /\ connected \in BOOLEAN
  /\ phase = "find"
  /\ command = "none"
  /\ length = 0 /\ size = 0 /\ extent = 0
  /\ buffer = <<>> /\ userData = <<>>
  /\ answer = "none"
  /\ shown = FALSE
  /\ status = Ok /\ iPass = Ok

-----------------------------------------------------------------------------
(* The first word that is a command; main calls help on an empty line.     *)
FindCmd ==
  /\ phase = "find"
  /\ \/ line = <<>> /\ command' = "help" /\ UNCHANGED iPass
     \/ \E k \in DOMAIN line :
          /\ line[k] \in General
          /\ \A j \in 1 .. k - 1 : line[j] \notin General
          /\ command' = line[k]
          /\ UNCHANGED iPass
     \/ /\ line # <<>>
        /\ \A k \in DOMAIN line : line[k] \notin General
        /\ command' = "none" /\ iPass' = BadCommand
  /\ phase' = CASE command' \in {"none", "help"} -> "exit"
                [] command' = "getboardcfg" -> "call"
                [] OTHER -> "alloc"
  /\ UNCHANGED <<line, windows, connected, length, size, buffer, extent, userData,
                 answer, shown, status>>

(* Mutant: the sum is not masked to 32 bits.                               *)
BufferSizeWide(n) == ((n + 3) \div 4) * 4

(* (Length + 3) & 0xFFFFFFFC, a mask of 32 bits for either width.          *)
BufferSize(n) == (((n + 3) % SizeMod) \div 4) * 4

(* Buffers that are read into are filled with 0xeeeeeeee.                  *)
AllocBuffer ==
  /\ phase = "alloc"
  /\ \E n \in Lengths :
       /\ command \in Pci => n < SizeMod
       /\ length' = n
       /\ size' = BufferSize(n)
  /\ \/ /\ phase' = IF command \in {"readmem", "readpci"} THEN "call" ELSE "data"
        /\ buffer' = [b \in 0 .. size' - 1 |->
                        IF command \in {"readmem", "readpci"} THEN ByteMod - 1 ELSE Unset]
        /\ UNCHANGED <<status, iPass>>
     \/ /\ phase' = "exit"
        /\ status' = -1 /\ iPass' = NoMemory
        /\ UNCHANGED buffer
  /\ UNCHANGED <<line, windows, connected, command, extent, userData, answer,
                 shown>>

-----------------------------------------------------------------------------
(* The data of writemem and writepci.                                      *)

(* Mutant: the end of the string is where its terminator is.               *)
ReversedWithEnd(bytes) ==
  LET n == Len(SelectSeq(bytes, LAMBDA b : b # 0))
  IN  [k \in DOMAIN bytes |->
         IF k > n THEN bytes[k] ELSE IF k = 1 THEN 0 ELSE bytes[n + 2 - k]]

(* reverse_string: up to the first byte that is zero.                      *)
Reversed(bytes) ==
  LET n == IF 0 \in Range(bytes)
           THEN (CHOOSE k \in DOMAIN bytes :
                   bytes[k] = 0 /\ \A j \in 1 .. k - 1 : bytes[j] # 0) - 1
           ELSE Len(bytes)
  IN  [k \in DOMAIN bytes |-> IF k <= n THEN bytes[n + 1 - k] ELSE bytes[k]]

(* Mutant: the first copy is counted once more.                            *)
FragmentsAll(n) == length \div n

(* UserDataFragments for n bytes; more data than Length wraps, to a UINT64 *)
(* or by way of a UINT32 to an INT32.                                      *)
Fragments(n) ==
  IF command \in Mem THEN ((length - n) % LongMod) \div n
  ELSE LET count == ((length - n) % SizeMod) \div n
       IN  IF 2 * count < SizeMod THEN count ELSE count - SizeMod

Larger(m, n) == IF m > n THEN m ELSE n

(* A write beyond the buffer damages the heap: the program goes on or dies.*)
Proceed ==
  \/ phase' = "call"
  \/ extent' > size /\ phase' = "crashed"

(* atohx, reverse_string and the copies.  A text that is not hexadecimal   *)
(* is converted to no bytes, and an empty text is not converted.           *)
TakeUserData(bytes) ==
  LET n == Len(bytes)
      copies == IF n = 0 THEN 0 ELSE Larger(Fragments(n), 0)
  IN  /\ extent' = Larger(n + 1, n * (copies + 1))
      /\ buffer' = [b \in 0 .. size - 1 |->
           IF b < n * (copies + 1) THEN Reversed(bytes)[(b % n) + 1]
           ELSE IF b = n THEN 0 ELSE Unset]

GivenData ==
  /\ phase = "data"
  /\ \E bytes \in SeqOf(Bytes, MaxBytes) :
       userData' = bytes /\ TakeUserData(bytes)
  /\ Proceed
  /\ UNCHANGED <<line, windows, connected, command, length, size, answer, shown,
                 status, iPass>>

EmptyData ==
  /\ phase = "data"
  /\ phase' = "call"
  /\ UNCHANGED <<line, windows, connected, command, length, size, buffer, extent,
                 userData, answer, shown, status, iPass>>

(* writemem counts; writepci needs data.                                   *)
MissingData ==
  /\ phase = "data"
  /\ IF command = "writemem"
     THEN /\ buffer' = [b \in 0 .. size - 1 |->
                          IF b < length THEN b % ByteMod ELSE Unset]
          /\ extent' = length
          /\ Proceed
          /\ UNCHANGED <<status, iPass>>
     ELSE /\ phase' = "exit"
          /\ status' = -1 /\ iPass' = BadParameter
          /\ UNCHANGED <<buffer, extent>>
  /\ UNCHANGED <<line, windows, connected, command, length, size, userData,
                 answer, shown>>

-----------------------------------------------------------------------------
(* Mutant: the size of the answer is not looked at.                        *)
CallStatusAnySize(a) == IF a = "error" THEN DriverError ELSE Ok

(* Only getboardcfg looks at bytesReturned.                                *)
CallStatus(a) ==
  CASE a = "error" -> DriverError
    [] a = "short" /\ command = "getboardcfg" -> Incomplete
    [] OTHER -> Ok

(* DeviceIoControl says how much it moved; Linux' ioctl has no such result.*)
Answers ==
  IF ~connected THEN {"error"}
  ELSE {"ok", "error"} \cup
       IF windows /\ (command = "getboardcfg" \/ length > 0) THEN {"short"} ELSE {}

(* The call, waited for if it is pending; the driver takes Length bytes of *)
(* the buffer at most.  The PCI commands leave iPass alone.        *)
DriverCall ==
  /\ phase = "call"
  /\ answer' \in Answers
  /\ status' = CallStatus(answer')
  /\ iPass' = IF command \notin Pci /\ status' # Ok THEN status' ELSE iPass
  /\ extent' = IF connected THEN Larger(extent, length) ELSE extent
  /\ shown' = (status' = Ok /\ command \in {"getboardcfg", "readmem", "readpci"})
  /\ phase' = "exit"
  /\ UNCHANGED <<line, windows, connected, command, length, size, buffer, userData>>

Exit ==
  /\ phase = "exit"
  /\ status' = IF iPass # Ok THEN iPass ELSE status
  /\ phase' = "done"
  /\ UNCHANGED <<line, windows, connected, command, length, size, buffer, extent,
                 userData, answer, shown, iPass>>

Ended == phase \in {"done", "crashed"} /\ UNCHANGED rvars

Next ==
  \/ FindCmd \/ AllocBuffer \/ GivenData \/ EmptyData \/ MissingData
  \/ DriverCall \/ Exit \/ Ended

RSpec == Init /\ [][Next]_rvars

-----------------------------------------------------------------------------
RTypeOK ==
  /\ line \in Seq(General \cup {"other"})
  /\ phase \in {"find", "alloc", "data", "call", "exit", "done", "crashed"}
  /\ command \in General \cup {"none"}
  /\ length \in Lengths \cup {0} /\ size \in 0 .. SizeMod - 1 /\ size % 4 = 0
  /\ buffer = <<>> \/ buffer \in [0 .. size - 1 -> 0 .. ByteMod - 1 \cup {Unset}]
  /\ extent \in Nat
  /\ answer \in {"none", "ok", "short", "error"}
  /\ status \in -1 .. DriverError /\ iPass \in Ok .. DriverError

(* Neither the copies of the user's data, nor the zero that atohx writes   *)
(* behind them, nor the driver goes beyond the buffer, as long as the data *)
(* is shorter than it and no longer than Length, and Length is not cut by  *)
(* the mask.  (Data as long as the buffer has its zero behind the buffer.) *)
StaysInBuffer ==
  /\ phase # "find" /\ length \in 1 .. SizeMod - 4
  /\ Len(userData) <= length /\ Len(userData) < size
  => extent <= size

(* What writemem and writepci hand to the driver is the user's data, the   *)
(* last byte first, again and again, without a byte nobody has set; for    *)
(* data that divides Length and has no zero byte, where the reversal stops,*)
(* and a number of copies that is an INT32.                                *)
SentIsUserData ==
  /\ answer # "none" /\ userData # <<>> /\ 0 \notin Range(userData)
  /\ length <= size /\ length % Len(userData) = 0 /\ length > 0
  /\ (command \in Pci => 2 * length < SizeMod)
  => \A b \in 0 .. length - 1 :
       buffer[b] = userData[Len(userData) - (b % Len(userData))]

(* The driver took the call without an error, and for getboardcfg, the one *)
(* command that checks it, the whole structure came back.                  *)
Succeeded == answer = "ok" \/ (answer = "short" /\ command # "getboardcfg")

(* The exit status is 0 exactly if the user asked for help or the call was *)
(* made and succeeded, and nothing is displayed otherwise; which of two    *)
(* ways to report an error, iPass or the status, a command takes makes no  *)
(* difference.  (readmem and readpci count a short answer as a success and *)
(* display the fill of the buffer for what did not come: that all that is  *)
(* displayed was read is not claimed.)                                     *)
ExitTellsFailure ==
  phase = "done" =>
    /\ status = Ok <=> (command = "help" \/ Succeeded)
    /\ shown => status = Ok

=============================================================================
