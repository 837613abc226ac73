--------------------------- MODULE MCTimedTestRun ---------------------------
(***************************************************************************)
(* Constant values for the runs of TimedTestRun.                           *)
(***************************************************************************)
EXTENDS TimedTestRun

TwoTransfersEach == {2 * NumThreads}

=============================================================================
