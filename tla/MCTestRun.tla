----------------------------- MODULE MCTestRun -----------------------------
(***************************************************************************)
(* Constant values for the runs of TestRun, with the history of Accounting.*)
(***************************************************************************)
EXTENDS Accounting

\* The options -i are shared out: one transfer for each thread.
OneTransferEach == {NumThreads}

=============================================================================
