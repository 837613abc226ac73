---------------------------- MODULE MCOverlapped ----------------------------
(***************************************************************************)
(* Constant values for the run of Overlapped.                             *)
(***************************************************************************)
EXTENDS Overlapped

\* The options -i are shared out: one transfer for each thread, or two.
UpToTwoTransfersEach == {NumThreads, 2 * NumThreads}

=============================================================================
