----------------------------- MODULE Accounting -----------------------------
(***************************************************************************)
(* The byte counts of a DMA test.  The statistics loop reads and then      *)
(* clears a worker's TotalByteCountTransferred, the worker adds to it with *)
(* a load and a store, and nothing keeps the two apart.  This module adds  *)
(* to TestRun the history of whether they ever were at it together.        *)
(***************************************************************************)
EXTENDS TestRun

VARIABLE torn  \* history: a collection and an addition have overlapped

avars == <<vars, torn>>

AInit == Init /\ torn = FALSE

(* A clear of the counter between the worker's load and store, which counts*)
(* the collected bytes again, or the store between the loop's read and its *)
(* clear, which loses the transfer.                                        *)
Overlaps ==
  \/ mpc = "clear" /\ mpc' # "clear" /\ wpc[ci] = "account"
  \/ mpc = "clear" /\ wpc[ci] = "account" /\ wpc'[ci] # "account"

ANext == Next /\ torn' = (torn \/ Overlaps)

ASpec == AInit /\ [][ANext]_avars /\ WF_avars(Main /\ torn' = (torn \/ Overlaps))

-----------------------------------------------------------------------------
Sum(f) ==
  LET upTo[k \in 0 .. NumThreads] == IF k = 0 THEN 0 ELSE upTo[k - 1] + f[k]
  IN upTo[NumThreads]

(* Bytes a worker has transferred and not added yet.                       *)
InFlight == [i \in Thread |-> IF wpc[i] \in {"load", "account"} THEN moved[i] ELSE 0]

(* Bytes the loop has collected and cleared and not added to the totals.   *)
InHand ==
  CASE mpc \in {"collect", "display"} -> passBytes
    [] mpc = "clear" -> passBytes - total[ci]
    [] OTHER -> 0

(* "Keep track of the totals for the final summary" (StrDispUtils.cpp:113):*)
(* as long as no collection of a counter overlaps an addition to it, every *)
(* byte that was transferred is in exactly one place, and counted once.    *)
StatisticsExact ==
  ~torn => transferred = reported + InHand + Sum(total) + Sum(InFlight)

=============================================================================
