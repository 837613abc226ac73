# Verification of ExpressoCli

`src/MC_Driver/Cli` is ExpressoCli, the command-line test program for a PCI
Express DMA core and its driver. A command parses options, opens a DMA channel,
starts worker threads that move data through the driver, prints statistics once
a second, stops the threads by lowering flags, and frees what they used after a
sleep. Nothing is locked and no thread is joined, so whether the buffers outlive
the transfers, whether an error reaches the exit status and whether the program
ends at all are questions of interleaving and timing. This directory models
them in TLA+, checks the models with TLC and proves the core with TLAPS.

## The system

| Part | State | Operations | Talks to |
|---|---|---|---|
| `main`, options (`ExpressoCli.cpp`) | `CFG_PARAMS`, the static `pcfgParams` | `SetOptions`, the setters, `FindCmd`, `SignalHandler` | calls one command; the handler writes `Seconds` under it |
| `WriteDMA`, `ReadDMA` (`TestCmds.cpp`) | `params[]`, one `THREAD_PARAMS` a thread, `PASS_STATS`, `SUMMARY_STATS` | set-up, statistics loop, clean-up | starts workers, shares `params[]` with them |
| `TestRunControl`, `ShutdownTestThreads` (`ThreadUtils.cpp`) | `Seconds`, `Running`, `iPass` | countdown, stop, gathering of result codes | called by every DMA command |
| workers (`ReadWrite.cpp`) | `Iterations`, `Running`, `TotalByteCountTransferred`, `iPass` | `ReadWriteThreadProc`, `WRLoopbackThreadProc`, `FIFOc2sThreadProc`, `FIFOs2cThreadProc`, each in a Windows and a Linux form | block in the driver |
| `WriteReadDMA` | two `THREAD_PARAMS`, one thread | write, read back, compare | both channels |
| `FIFOC2S`, `FIFOS2C` | one buffer for all threads, `LoopCount`, `TRAFFIC_CTRL` | FIFO mode, traffic generator or checker, drain | `SetupChannelMode`, `SetupTrafficGenChk` |
| buffers and patterns (`MemoryUtils.cpp`) | buffer contents, seeds | `BufferAllocAndSet`, `ValidateDataBuffer`, `GetNextPattern` | called by commands and workers |
| `PrepareTransfer` (`ReadWrite.cpp`) | `TransferSize`, `CardOffset` | a size and a card offset for each transfer, random with `-r` | called by the workers |
| register, PCI and memory commands | none | `writeMem`, `readMem`, `writePCI`, `readPCI`, `getBoardCfg` | one driver call each |
| the driver and the board | not in the repository | read, write, ioctl | |

What is hard here: read-modify-writes of words that another thread or the
signal handler also writes (`--Seconds`, `TotalByteCountTransferred`); a
clean-up that follows a sleep and not a join; a sleep that a signal cuts short;
result codes that are gathered once; set-up that fails half-way; a ring whose
elements are handed back by count; a worker that hangs in the driver; a
completion callback that runs inside a wait with a time limit and issues the
next transfer on its own; unsigned numbers that wrap.

What makes each part correct:

- a DMA command: it ends; it takes no more passes than seconds; success means
  data moved and no worker failed; nothing leaks; no buffer is freed in use;
- loopback: success means every block that was read back matched;
- FIFO tests: no element is handed back before it was read, no buffer is freed
  while the channel is on it unless the status says so, the drain ends;
- options: a line means what its options say, wherever their values stand;
- the overlapped worker: a stop by flags leaves no transfer behind, and the
  worker ends;
- buffers: every transfer lies within its buffer and goes where it was sent,
  what is sent and what is accepted is the pattern asked for;
- register commands: the driver gets the data that was given, from within the
  buffer, and the exit status tells whether the driver took the call.

## Modules

| Module | Models | State and actions against the code |
|---|---|---|
| `TestRun` | `WriteDMA`/`ReadDMA`, `TestRunControl`, `ShutdownTestThreads`, the Linux `ReadWriteThreadProc`, `SignalHandler`, `main`'s exit status | `mpc` is where the main thread is: `parse, alloc, start`, then the loop `sleep, collect, clear, ...`, then `shutdown ... done`. `wpc[i]` is the same for worker i. `running[i]`, `total[i]`, `left[i]`, `werr[i]` are the fields `Running`, `TotalByteCountTransferred`, `Iterations`, `iPass` of `params[i]`; `seconds` and `iPass` are those of `CFG_PARAMS`. `LoadSeconds`/`StoreSeconds` are the two halves of `--Seconds`, `LoadTotal`/`Account` those of the worker's `+=`, `CollectRead`/`CollectClear` the two statements of the loop over the threads |
| `Accounting` | the byte counts of `TestRun` | extends it with the history `torn`: a collection by the statistics loop and an addition by a worker have overlapped |
| `TimedTestRun` | the same with time | `mainLeft`, `ioLeft[i]`; `Tick` |
| `JoinedTest` | nothing in the code: the abstract promise | launch, fail, leave, release, judge |
| `Overlapped` | the Windows `ReadWriteThreadProc`, `ReadOverlappedCallback`, `WriteOverlappedCallback` | extends `TestRun` with its own workers: `pending[i]` is a transfer with the driver, `served[i]` that the wait has run a callback. A callback is `Complete` or `CompleteError`, then `WLoadTotal`, `WAddTotal`, then `Issue`, `IssueFails` or `LastCallback`; the thread is `WCheckRunning`, then one of `WaitServed`, `WaitTimeout`, `WaitFailed`. `Cancel` is what Windows does to the I/O of a thread that has ended |
| `Loopback` | `WriteReadDMA`, `WRLoopbackThreadProc` of both builds | extends `TimedTestRun`; `side` says which of the two transfers the one worker is in, `bytesRead` is the count the Windows worker keeps from one block to the next |
| `Fifo` | what the two FIFO tests share: FIFO mode, traffic, clean-up | extends `TestRun`; `fpc` says where within `start`, `sleep`, `free` the main thread is |
| `FifoC2S` | `FIFOC2S`, `FIFOc2sThreadProc`, `DrainFIFOc2s`, both builds | `ready`, `lent` are the ring of the driver, `batch`, `release` the worker's call. `FIoctl` is a request that succeeds, `FIoctlFail` one that fails, `FChannelStatus` one whose channel status stops the Windows worker under `-z` and `-e` |
| `FifoS2C` | `FIFOS2C`, `FIFOs2cThreadProc`, `DrainFIFOs2c`, both builds | `offset`, `sent`, `queued` |
| `Options` | `SetOptions`, the option table, the setters | one action per kind of argument; `optionValue` is the pointer `OptionValue` |
| `Buffers` | the sizes of each command, `BufferAllocAndSet`, `PrepareTransfer`, `WriteRandomBuffer`, `GetNextPattern`, `ValidateDataBuffer` | one path from the command line to a transfer or a packet: `SetSizes`, `AllocReceive`, `BufferAllocAndSet`, then `PrepareTransfer` again and again, or `Receive` and `ValidateDataBuffer`. The Linux DMA worker makes a transfer before it prepares one: `FirstTransfer`. `os` is the offset the device is given, `PatternWord` and `PatternByte` the pattern the options ask for. `patternOn` is `bPatternSpecified` of `CFG_PARAMS`, `checking` the copy in `THREAD_PARAMS` |
| `Registers` | `FindCmd`, `getBoardCfg`, `writeMem`, `readMem`, `writePCI`, `readPCI`, `atohx`, `reverse_string`, the exit status of `main` | one action per statement that can fail or write: `AllocBuffer`, `GivenData`, `EmptyData` or `MissingData`, `DriverCall`, `Exit`; `answer` is what the driver gives: on Windows also less than was asked for, which `CallStatus` says only getboardcfg looks at; `extent` is how far into, or beyond, the buffer anything was written or read |
| `CommandLine` | `main` without a DMA test | extends `Options` and `Registers`: the scan runs to its end, then the command. A line has options or a command, since the two share no variable |
| `MC*` | constant values for TLC | |
| `TestRun_proofs`, `Accounting_proofs`, `Overlapped_proofs`, `Buffers_proofs` | theorems about the module of that name | |
| `Timed_proofs` | theorems about `TimedTestRun` and `Loopback` | |
| `Fifo_proofs` | theorems about `FifoC2S` and `FifoS2C`, and what the two share | |
| `CommandLine_proofs` | theorems about `Options`, `Registers` and `CommandLine`, which composes the two | |
| `NaturalLemmas` | lemmas: induction for a given set, division with its remainder | |

`Fifo` and `Loopback` reuse the actions of `TestRun` for every statement the
commands share (the code repeats them or calls the same functions), and add
`UNCHANGED` for what is theirs.

Things a reader may miss:

- A worker that was never started (`StartThread`'s result is ignored) keeps its
  `Running` flag up: `StartThreads` starts any subset.
- `passes`, `reported`, `transferred`, `interrupted`, `endedBy`, Accounting's
  `torn`, Overlapped's `issued` and `refused`, Loopback's `differed` and
  Registers' `extent`, `userData`, `answer` and `shown` are history variables
  (`extent` also decides whether a write beyond the buffer may end the program).
- `Overlapped` leaves `hDoneEvent` out: it is set only in a callback that has
  lowered `Running`, and the wait in which that callback ran is followed by a
  look at `Running`.
- The driver and the board (`Arrive`, `Lend`, `Freed`, `Consume`, `Queue`) are
  not in the repository. They are modelled by what the code passes and expects:
  a release frees the oldest elements that are lent, a request is taken in any
  part. A FIFO packet is one element of one byte.
- `windows` of `Loopback`, the FIFO modules, `Registers` and `cfg.windows` of
  `Buffers` choose the build. In `Buffers` it only matters to the DMA commands.
- A variable that the code never sets (`os` of the first Linux transfer) holds
  any of `StackWords`.
- Operators marked "Mutant" next to a definition are wrong forms of it, used to
  see that a property notices.

## Runs

Passing:

| Run | Question | Bounds |
|---|---|---|
| `test_run` | every interleaving of two workers, the loop and Ctrl-C: countdown, natural end, verdict, leaks, Ctrl-C honoured, every byte counted once, end of the command | 2 threads, one transfer each, `-s 2`, with and without `-e`, UINT32 of 4 values |
| `timed_run` | are the sleeps enough? no use after free, status tells of every error, `JoinedTest` is implemented | 2 threads, one second, transfers of length 1 against sleeps of 2 and 3, no signal in the last sleeps |
| `overlapped` | the Windows worker: what a natural end leaves with the driver, what success means, does the worker end | 1 worker, one transfer or two, `-s 2`, with and without `-e`, transfers within the worker's limited wait and beyond |
| `loopback` | success means every block compared; both channels released; `JoinedTest` for the one thread | two blocks, two seconds, sleeps of 3 and 4 against a write and a read of 1 each, both builds |
| `fifo_c2s` | what is unread is lent; a buffer freed in FIFO mode is reported; the test ends for every option | 1 thread, two calls, ring and batch of 2, `-s 0` and `-s 2`, both builds |
| `fifo_s2c` | success means sent; the test and its drain end (that a mode left on is reported is proved for it: `SendMappedCorrect`) | 1 thread, two requests of two entries, both builds |
| `buffers` | does every transfer fit its buffers, the first one of a Linux worker too, is there room for the packets, is what is sent the pattern and, for a seed of a whole word, what is accepted | sizes wrap at 16, buffers are multiples of 4, a FIFO test wants room for 2 packets, bytes wrap at 8, five sizes, four card addresses, three seeds, two values for an unset offset |
| `command_line` | what does a line do: settings, flags, stay within `argv`; does the data stay in the buffer, does the driver get it, does the exit status tell whether the driver took the call | lines of 3 arguments over `-s -t -dr -e`, three numbers, an empty and a bad text; both builds, lines of 2 words, 7 lengths, up to 4 bytes of data; UINT32 wraps at 16, UINT64 at 64, bytes at 4 |

Violated, each a place where the code does not do what it says:

| Run | What happens |
|---|---|
| `stop_on_error` | `-e` sets `Seconds = 0` and decrements it: 2^32-1 more passes |
| `fifo_overrun` | an entry of a send request starts at, or runs past, the end of the buffer |
| `options_missing` | an option with no value takes the value of the option before it |
| `byte_pattern` | with a seed of one byte a packet that holds the pattern is found bad (`MemoryUtils.cpp:365`) |

Why the bounds are enough. The invariants of all runs are
proved for all values, so the runs are there to find mistakes early and for
liveness. Two threads are the least at which the loops over the threads, the
first error and "all flags are down" differ from one thread. One transfer each
shows a worker that stops by itself and one that is stopped; the timed run takes
two, for a reset between two transfers. The UINT32 values
wrap: `UIntMod` is just above the seconds. `PassCap` only saturates the pass
counter and must be above `-s`. In the FIFO runs two elements and two calls
make a second call release what the first got, a batch that is left half-way,
and a drain that competes with the worker. Three arguments are the least that
hold an option, a value that is not its own and a third that must not be lost.
The workers of `overlapped` meet only in the main thread's loops, which
`test_run` covers, and its safety is proved for any number of them; two transfers
are the least at which a callback issues another one. In `buffers` and
`command_line` the widths are constants, so that every rounding, wrap and carry of
the code happens within a few numbers: a size above the last multiple of the
allocation unit, a product that wraps, a seed whose bytes wrap one by one, a
packet around the end, a length that the 32-bit mask cuts, a count of copies
that wraps in a UINT64 or becomes a negative INT32.

Conditions that the timed properties need, and why: a transfer longer than
`ShutdownSleep` is a use after free, and one longer than `StopSleep` (100 ms)
may fail after the result codes were gathered. The program has no limit on a
transfer, so `MaxIo` is an assumption on the driver. In a loopback test both
transfers count, because the worker looks at its flag once a block. A signal
in the last sleeps breaks it: with `SignalsShutdown` TRUE, TLC shows the
buffers freed under a transfer. With two FIFO threads
`UnreadIsLent` fails under the modelled driver, which releases the oldest
elements whoever holds them; the real one is not here to decide that.

## Fairness

In all modules but one only the main thread is fair: `WF` of its steps. The system's scheduler runs
it, sleeps end, and it makes no call that waits for another thread; its own
ioctls are taken to return. Workers are not fair, because a read or write may
stay in the driver for ever, nor is the user or the board. So `TestEnds`,
`FTestEnds` and `STestEnds` say that the command ends whatever its workers do.
`TestEnds` and `STestEnds` exclude `-e` and `-s 0`, where the countdown wraps;
`FTestEnds` does not, because two passes without data end a receive test.
`STestEnds` also supposes that the stop has turned the checker off by the time
of the drain: while it takes packets, the drain sends more. `WorkersEnd` of `Overlapped` is about the workers, so there they are
fair: a Windows worker only ever waits for a second, and the scheduler runs it;
the driver is not, and may keep a transfer for ever (`SlowChoices`). The timed,
option, buffer, register and command line specifications state no fairness and no liveness.

## What is proved

For every number of threads, all option values and every `UIntMod > 1`, from the
named assumptions of the modules: of `TestRun` (positive number of threads,
options in range, `PassCap` above the seconds), of the timed modules (durations
in Nat), of the FIFO modules (a positive ring and batch; an entry no longer than
the buffer), of `Buffers` (sizes below `SizeMod`, which `AllocUnit` divides, the
defaults in range, a seed that is a UINT32, an unset offset that is a number), of `Options` (a positive
MAX_THREADS, values in a UINT32) and of `Registers` (`SizeMod` a multiple of 4
that divides `LongMod`, a Length below `LongMod - 3`, so that rounding it up does
not wrap). What a theorem assumes beyond them stands in its statement here.

| Theorem | Statement | Argument |
|---|---|---|
| `TypeCorrect` | `TypeOK` | inductive alone; `DecrementInRange` for the wrap |
| `CountdownCorrect` | `PassesWithinSeconds` | `CountdownInv`: passes plus the seconds still to go, at each place of `--Seconds`, are at most `-s`; the handler only ever lowers them to 1 |
| `NaturalEndCorrect` | `NaturalEndIsJoined` | `JoinInv`: a flag is lowered only by its worker at its end or by the main thread after a timeout, so before one a lowered flag means a worker out of its loop |
| `NaturalEndReportCorrect` | `NaturalEndReportsErrors` | `ReportInv`, on top of `JoinInv`: codes are fixed when they are gathered |
| `SuccessCorrect` | `SuccessMeansData` | `DataInv`: no error means every displayed pass had bytes, and bytes in a counter or register were transferred |
| `LeakFree` | `NothingLeaks` | `LeakInv`: what holds at each place of the set-up and after the release |
| `TimedTypeCorrect` | `TTypeOK` | step of the timed model is a step of `TestRun`, plus clocks |
| `NoUseAfterFreeCorrect` | `MaxIo < ShutdownSleep`, no signal: `NoUseAfterFree` | `ShutdownInv`: in the sleep a worker that is in the driver has less time left than the main thread, and none begins another transfer |
| `StatusCorrect` | `MaxIo < StopSleep`, no signal: `StatusReflectsErrors` | `StopInv`: the same for the sleep of `TestRunControl`, so the codes are final when gathered |
| `RefinesJoinedTest` | both bounds: `ImplementsJoinedTest` | initial states map to initial states; each action maps to an action of `JoinedTest` or a stutter, under the invariants above |
| `LoopbackRefinesJoinedTest` | `2 * MaxIo` below both sleeps, no signal: `ImplementsJoinedTest` for the loopback test | `LShutdownInv`: as `ShutdownInv`, with the write and the read that a block may still take; `LIdleInv`: a test whose loop did not end has no worker. Either transfer of the one worker is the same phase of `JoinedTest` |
| `InterruptCorrect` | `InterruptHonoured` | `InterruptInv`: once the handler has run, `Seconds` is 1 at every place of the loop from which it goes on, in memory or in the register |
| `WTypeCorrect` | `WTypeOK` | inductive |
| `NaturalEndQuietCorrect` | `NaturalEndIsQuiet` | `QuietInv`: a worker whose flag is down before a timeout of the loop has nothing pending, or has met a slow transfer or an error |
| `AllIssuedCorrect` | `SuccessMeansAllIssued` | `IssuedInv`: issued transfers plus those left are the share of the worker, unless a result code says otherwise; with `QuietInv` and a `ReportInv` of its own |
| `LTypeCorrect`, `ChannelsReleasedCorrect` | `LTypeOK`, `ChannelsReleased` | inductive; `LReleasedInv` for the places of the set-up |
| `ComparedCorrect` | `2 * MaxIo < StopSleep`, no signal: `SuccessMeansCompared` | `LStopInv`: in the sleep of `TestRunControl` the write and the read that may still be under way end before it does, so what the worker found is final when it is gathered |
| `FTypeCorrect` | `FTypeOK` | with `HandInv`, which bounds what a worker still has to read |
| `ReceiveMappedCorrect`, `SendMappedCorrect` | `MappedIsReported` | `MappedInv` of `Fifo_proofs`: FIFO mode is on between set-up and shut-down only, and an error of the shut-down stays in `iPass` |
| `UnreadCorrect` | `NumThreads = 1`: `UnreadIsLent` | `LentInv`: how many of the lent elements are the worker's and how many it will release, so that the oldest ones a release frees are ones it has read |
| `SendTypeCorrect` | `STypeOK` | inductive with `EntryInv`; `Offsets`, a recursive function, is shown to exist and to stay in the buffer by induction over the entries |
| `SendSuccessCorrect` | `SendSuccessMeansSent` | `SentInv`: bytes that are counted were taken by the driver, and every displayed pass had some |
| `TransferCorrect` | `TransferFits` | `SizeInv`: where each size comes from on the way from the command line; `RoundedUp`: a rounding that does not give 0 has not wrapped; `WholeInv`: an unprepared transfer has the size that was asked for |
| `RoomCorrect` | `RoomForPackets` | the same |
| `BuffersTypes` | `BTypeOK` | `BTypeInv`: sizes, seed, contents, flags and packet, each with its range |
| `PatternsSent` | `SentIsPattern` | `PatternInv`: until a packet arrives the buffer is as `BufferAllocAndSet` filled it, and each byte of that is the one of the pattern: for a seed of one byte the wraps of the byte and of the word agree |
| `VerdictsRight` | `VerdictIsRight`, for seeds of a whole word (for others see `byte_pattern`) | the words `Matches` expects, a recursive function over `GetNextPattern`, are those of the pattern, by induction over the words (`NextWord`: counting and wrapping may change places); the two runs of a packet around the end of the ring are its words in order |
| `StatisticsCorrect` | `StatisticsExact` | `AInv`: with `JoinInv`, and `CountersInv` for the value a worker has loaded; `SumDiffers`: changing one thread's count changes the sum by as much |
| `RegistersTypes`, `NothingBeyondBuffer`, `UserDataSent`, `ExitStatusRight` | `RTypeOK`, `StaysInBuffer`, `SentIsUserData`, `ExitTellsFailure` | `RInv`: what has not happened before each step (`UntilThen`), the data is in the buffer once it is taken (`Copied`), what `main` will make of `iPass` and the status (`Reported`) |
| `SettingsInRange`, `ScanEndsAtNull`, `FlagsHonoured`, `ProperLinesRead` | `OTypeOK`, `NeverPastTheNull`, `FlagsAreHonoured`, `ProperLinesAreRead` | `OInv`: the last two for the arguments behind the scan. On a proper line an option consumes its own value and nothing else (`ProperValue`), and the newest of the accepted values is the last (`NewestIsLast`) |
| `MainImplementsParts` | `MainSpec` implements `OSpec` and `RSpec` | a step of `main` is one of the scan or of the command and leaves the other's variables alone: what is proved of either holds of `main` |

The properties of the tests are not inductive: each speaks of the end of a test,
and what makes it true is a relation between a flag, a place of the main thread
and a place of a worker at every step before. `Timed_proofs` cites the lemmas
of `TestRun_proofs` through `TimedStep`, so the untimed invariants are proved
once; `Accounting_proofs` and `Fifo_proofs` build on them too.

`Sum`, `Offsets` and the words `Matches` expects are recursive functions, and the
library's induction takes an operator, which the provers cannot instantiate.
`SetInduction` of `NaturalLemmas` does the same for the set of the numbers that
have the property, from the library's least-element theorem, so the induction
over threads, entries and words is by a set that each proof names.

Every invariant of the passing runs, both refinements of `JoinedTest`, and that
`CommandLine` implements its parts are proved. Only model-checked is liveness,
which is out of the prover's reach: `TestEnds`, `WorkersEnd`, `FTestEnds` and
`STestEnds`. What the timed theorems
assume of `MaxIo` is not proved of the code, which sets no limit, nor is
`NumThreads = 1` of `UnreadCorrect`: the hazards in PROJECT.json name the lines
where more time or more threads do harm.

## Seen in the code, without a run

These hold on every path through the lines named, so a property would only
restate them. Those a property covers are listed as hazards in PROJECT.json.

- A Ctrl-C between the load and the store of `--Seconds` is overwritten by the
  store (`ThreadUtils.cpp:174`); `interrupted` leaves it out.
- A collection that overlaps an addition loses bytes or counts them twice
  (`TestCmds.cpp:1089`); `StatisticsExact` holds as long as none did.
- `Sleep` is `usleep`, which a handled signal cuts short (`StdTypes.h:173`).
- `-s 0` wraps like `-e` (`ThreadUtils.cpp:174`).
- The Windows worker leaves its loop when a transfer takes longer than a second
  (`ReadWrite.cpp:336`), with the callback outstanding, although the comment
  above the loop says that it waits until the call completes; the transfer is
  then cancelled when the thread ends. An overlapped transfer that completes
  with an error leaves no result code (`:113`).
- The Windows loopback worker counts no bytes for a write, and those of the block
  before for a read, that succeeds at once (`ReadWrite.cpp:450`).
- A failed write of a loopback test never reaches the exit status
  (`TestCmds.cpp:1448`), and the write buffer is not freed (`TestCmds.cpp:1459`):
  the loops over the threads take one of the two records.
- A failed FIFO set-up replaces its code by `errno` (`TestCmds.cpp:1617`); the
  early exits hand an uninitialised `TrafficCtrl` to the clean-up (`:1672`).
- A FIFO ioctl that fails under a running worker leaves no code
  (`ReadWrite.cpp:621`).
- The Linux receive worker leaves its loop after its first successful request,
  before reading an entry of it (`ReadWrite.cpp:1397`).
- The Linux loopback worker overwrites the read buffer before a read only for the
  random pattern (`ReadWrite.cpp:1209`): otherwise a read that brings nothing may
  match with the bytes of the block before, which `differed` of `Loopback` cannot
  tell from a block that was read.
- A loopback test whose thread cannot be started exits with status 0
  (`TestCmds.cpp:1408`).
- `__strtoul` reads `1f` as 1 (`StrDispUtils.cpp:389`); a channel number of 2^31
  or more is negative in INT32 and passes the range check (`ExpressoCli.cpp:167`).
- A receive buffer is filled with the pattern it is validated against
  (`MemoryUtils.cpp:148`), and a buffer above 2 GB is still checked, since the
  flag was copied before it is cleared (`:143`).
- The Linux worker makes its first transfer before the first `PrepareTransfer`
  (`ReadWrite.cpp:1066`, `:1105`): it goes to an offset that nobody set, although
  the help text promises CardOffset (`ExpressoCli.cpp:562`), and has the full
  length without being clipped under `-r`. `FirstTransfer` models it;
  `TransferFits` says that it lies within the buffers, and no more.
- With `-r` and a card address beyond the card's memory the size of a transfer
  wraps (`ReadWrite.cpp:68`); 16 packets of 2^28 bytes or more wrap to a small
  buffer (`TestCmds.cpp:1528`).
- On Windows `readmem` and `readpci` do not look at how much they were given
  (`TestCmds.cpp:942`, `:577`): after a short answer they display the 0xee fill of
  the buffer as read and exit with 0. `Answers` has the case, and
  `ExitTellsFailure` counts it as a success, as the code does.
- Data as long as the buffer of `writemem` has its terminating zero behind it
  (`StrDispUtils.cpp:617`); data with a zero byte is reversed only up to it
  (`:675`).

## Not modelled

- The registers of the traffic generator, CPU utilisation, formatting and
  logging: pure I/O. So are the counters of channel errors
  (`DMAOverrunCount` and others); that a channel status stops the Windows receive
  worker under `-z` and `-e` is modelled (`FChannelStatus`).
- The digits of numbers: `Options` and `Registers` start from the number a word
  converts to.
- The LFSR branch of `GetNextPattern`: FIFO tests turn validation off for random
  data, and no other caller exists.
- `waitUserInterrupt` and the user interrupt thread: not in the table of
  commands, and compiled only under a switch that nothing sets.
- FIFO packets of several elements, and FIFO tests of several threads under TLC:
  which elements a count releases is the driver's affair.
- The driver: not in the repository. `ExpressoIoctl.h` and `ExpressoHw.h` only
  declare its interface.
- All directories but `MC_Driver` (`PCW_Web`, `Websites`, `simVariant`,
  `New-HlkDotChart`, `python_api_test`, binaries of `E2Interrogator` and
  `DriverApp_Samples`, and so on): unrelated to the program.

## Plan

Done: `TestRun`, `Accounting`, `TimedTestRun` over it with `JoinedTest`,
`Overlapped`, `Loopback`, `Fifo` with `FifoC2S` and `FifoS2C`, `Buffers`,
`Options` and `Registers` with `CommandLine` over them, each with its invariants
proved and the refinements.
Left, in the order of what they would add:

1. The clocks of `TimedTestRun` for `Overlapped`, to relate the limit of the
   wait, `ShutdownSleep` and the `Sleep(10)` of a worker that leaves.
2. `SetupTrafficGenChk` with the channels of the board, composed with the FIFO
   tests: which generator is started and which is stopped.
3. The mapping of `Buffers` to the transfers of `TestRun`, so that the size a
   worker counts is the one `PrepareTransfer` gave it.
